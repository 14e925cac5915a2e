----------------------------- MODULE TaskJournal -----------------------------
(***************************************************************************)
(* `arc do` and `arc task resume`: the agent loop of src/arc/agent/loop.py *)
(* writing its journal, src/arc/agent/journal.py, while the process may be *)
(* killed or interrupted at any point and another process may resume the   *)
(* task from what is on disk.                                              *)
(*                                                                         *)
(* A task is run by one process.  Its journal is the sequence of lines of  *)
(* one file, the last of which may lack its newline; the next append then  *)
(* joins that line, and the two together do not parse.                     *)
(***************************************************************************)
EXTENDS ToolCalls

CONSTANTS
  MaxTasks,   \* bound: tasks there may be
  MaxSteps,   \* max_steps of the loop
  Replies,    \* what the model may say
  Budgets     \* what happens in each behaviour: tasks started, resumed ones included; the
              \* replies the model may give; kills between steps and in the middle of a
              \* line; interrupts (any exception out of the loop); writes that raise OSError

Allowances == [starts : Nat, replies : SUBSET Replies,
               kills : Nat, tears : Nat, interrupts : Nat, errors : Nat]

ASSUME JournalAssumption ==
  /\ MaxTasks \in Nat \ {0} /\ MaxSteps \in Nat
  /\ Mutating \subseteq Tools
  /\ \A r \in Replies : IsReply(r)
  /\ Budgets \subseteq Allowances

Tasks == 1 .. MaxTasks

VARIABLES
  file,     \* file[t]: the lines of <id>.jsonl, <<>> when there is none
  torn,     \* torn[t]: the last line has no newline
  errors,   \* errors[t]: the writes to it that raised (history)
  stage,    \* stage[t]: where the process of task t is
  dry,      \* dry[t]: it runs with --dry-run
  from,     \* from[t]: the task it resumes, 0 for a fresh one
  prior,    \* prior[t]: the steps replayed into its prompt
  number,   \* number[t]: the step the loop is at
  said,     \* said[t]: the reply whose call is being executed
  call,     \* call[t]: that call, as the parser made it out
  outcome,  \* outcome[t]: how the loop ends: "completed" or "exhausted"
  done,     \* done[t]: the observations of the loop so far (history)
  left      \* starts and faults still to come

journalVars == <<file, torn, errors, stage, dry, from, prior, number, said, call, outcome, done, left>>
diskVars == <<file, torn, errors>>
startVars == <<dry, from, prior>>
loopVars == <<number, said, call, outcome, done>>

Running == {"create", "mark", "generate", "execute", "record", "remember", "close",
            "return", "fail", "retract"}
Pcs == Running \cup {"none", "ended", "dead"}

Observation == [tool : Tools, ok : BOOLEAN, dry : BOOLEAN]
StepLine(obs) == [event |-> "step", obs |-> obs, mutating |-> ~obs.dry]
Event(e) == [event |-> e]
Garbled == Event("garbled")            \* a line json.loads refuses

IsStep(line) == line.event = "step"
Closing == {"completed", "exhausted", "failed", "resumed"}

\* What load() makes of a journal: the last closing line decides the status,
\* and a journal without one is an interrupted task.
Status(lines) ==
  LET closing == {i \in DOMAIN lines : lines[i].event \in Closing}
  IN  IF closing = {} THEN "interrupted" ELSE lines[Max(closing)].event

\* The steps load() finds in the first i lines, as observations, and in all of them.
StepsIn(lines) ==
  LET steps[i \in 0 .. Len(lines)] ==
        IF i = 0 THEN <<>>
        ELSE IF IsStep(lines[i]) THEN Append(steps[i - 1], lines[i].obs) ELSE steps[i - 1]
  IN  steps
Steps(lines) == StepsIn(lines)[Len(lines)]

Exists(t) == file[t] # <<>>
Resumable(t) == Exists(t) /\ Status(file[t]) \in {"interrupted", "failed"}

JournalTypeOK ==
  /\ \A t \in Tasks : \A i \in DOMAIN file[t] :
       \/ file[t][i].event \in {"start", "garbled"} \cup Closing
       \/ \E obs \in Observation : file[t][i] = StepLine(obs)
  /\ torn \in [Tasks -> BOOLEAN] /\ errors \in [Tasks -> Nat]
  /\ stage \in [Tasks -> Pcs]
  /\ dry \in [Tasks -> BOOLEAN]
  /\ from \in [Tasks -> 0 .. MaxTasks]
  /\ \A t \in Tasks : prior[t] \in BoundedSeq(Observation, MaxSteps)
  /\ number \in [Tasks -> 1 .. MaxSteps + 1]
  /\ \A t \in Tasks : stage[t] = "execute" => said[t] \in Replies /\ call[t].name \in Tools
  /\ outcome \in [Tasks -> {"completed", "exhausted"}]
  /\ \A t \in Tasks : done[t] \in BoundedSeq(Observation, MaxSteps)

JournalInit ==
  /\ file = [t \in Tasks |-> <<>>] /\ torn = [t \in Tasks |-> FALSE] /\ errors = [t \in Tasks |-> 0]
  /\ stage = [t \in Tasks |-> "none"]
  /\ dry = [t \in Tasks |-> FALSE] /\ from = [t \in Tasks |-> 0]
  /\ prior = [t \in Tasks |-> <<>>]
  /\ number = [t \in Tasks |-> 1]
  /\ said = [t \in Tasks |-> None] /\ call = [t \in Tasks |-> NoCall]
  /\ outcome = [t \in Tasks |-> "completed"]
  /\ done = [t \in Tasks |-> <<>>]
  /\ left \in Budgets

-----------------------------------------------------------------------------
(* Appending a line.                                                       *)

\* `line` ends up after, or glued to, the last line of the file.
Joined(t, line) ==
  IF torn[t] THEN [file[t] EXCEPT ![Len(file[t])] = Garbled] ELSE Append(file[t], line)

Put(t, lines, open) ==
  /\ file' = [file EXCEPT ![t] = lines]
  /\ torn' = [torn EXCEPT ![t] = open]

Whole(t, line) == Put(t, Joined(t, line), FALSE)
\* The write ends inside the JSON, or just before the newline.
Cut(t, line) == Put(t, Joined(t, Garbled), TRUE) \/ Put(t, Joined(t, line), TRUE)

\* _write: an OSError, whatever it left on disk, is logged and the run goes on.
Write(t, line) ==
  \/ Whole(t, line) /\ UNCHANGED <<errors, left>>
  \/ /\ left.errors > 0
     /\ Cut(t, line) \/ UNCHANGED <<file, torn>>
     /\ errors' = [errors EXCEPT ![t] = @ + 1]
     /\ left' = [left EXCEPT !.errors = @ - 1]

\* The process p goes from `here` to `next` by writing a line to the journal of
\* t, or it is killed while it does.
WriteStep(p, t, line, here, next) ==
  /\ stage[p] = here
  /\ \/ Write(t, line) /\ stage' = [stage EXCEPT ![p] = next]
     \/ /\ left.tears > 0
        /\ Cut(t, line) /\ UNCHANGED errors
        /\ left' = [left EXCEPT !.tears = @ - 1]
        /\ stage' = [stage EXCEPT ![p] = "dead"]

-----------------------------------------------------------------------------
(* Starting a task: cmd_do, cmd_task and _run_task of __main__.py.         *)

Fresh(t) == stage[t] = "none" /\ \A s \in Tasks : s < t => stage[s] # "none"

StartTask(t) ==
  /\ left.starts > 0 /\ Fresh(t)
  /\ left' = [left EXCEPT !.starts = @ - 1]

\* `arc do`, in a process of its own.
Do(t) ==
  /\ StartTask(t)
  /\ stage' = [stage EXCEPT ![t] = "create"]
  /\ \E d \in BOOLEAN : dry' = [dry EXCEPT ![t] = d]
  /\ UNCHANGED <<diskVars, from, prior, loopVars>>

\* `arc task resume s`: the journal is loaded now and replayed later, after the
\* model has been loaded.
Resume(t, s) ==
  /\ StartTask(t) /\ Resumable(s)
  /\ stage' = [stage EXCEPT ![t] = "create"]
  /\ from' = [from EXCEPT ![t] = s]
  /\ prior' = [prior EXCEPT ![t] = Steps(file[s])]
  /\ UNCHANGED <<diskVars, dry, loopVars>>

\* Journal(task) writes the start line.
Create(t) ==
  /\ WriteStep(t, t, Event("start"), "create", IF from[t] = 0 THEN "generate" ELSE "mark")
  /\ UNCHANGED <<startVars, loopVars>>

\* mark_resumed() closes the original, if its journal is there.
MarkResumed(t) ==
  /\ WriteStep(t, from[t], Event("resumed"), "mark", "generate")
  /\ UNCHANGED <<startVars, loopVars>>

-----------------------------------------------------------------------------
(* Agent.run().                                                            *)

Drop(t) ==
  /\ said' = [said EXCEPT ![t] = None]
  /\ call' = [call EXCEPT ![t] = NoCall]

\* The model's answer, or, out of steps, the last answer it is asked for.
Answer(t, how) ==
  /\ outcome' = [outcome EXCEPT ![t] = how]
  /\ stage' = [stage EXCEPT ![t] = "remember"]
  /\ UNCHANGED <<said, call>>

\* computed once: the parser keeps no state
CallIn == [reply \in Replies |-> Extract(reply)]

Reply(t, reply) ==
  IF CallIn[reply].name = None THEN Answer(t, "completed")
  ELSE /\ said' = [said EXCEPT ![t] = reply]
       /\ call' = [call EXCEPT ![t] = CallIn[reply]]
       /\ stage' = [stage EXCEPT ![t] = "execute"]
       /\ UNCHANGED outcome

\* Mutant: out of steps, the model is not asked for a last answer.
GenerateNoLast(t) ==
  /\ stage[t] = "generate" /\ number[t] <= MaxSteps
  /\ \E reply \in left.replies : Reply(t, reply)
  /\ UNCHANGED <<diskVars, startVars, number, done, left>>

\* Within max_steps the reply is a call or the answer; out of steps it is the answer.
Generate(t) ==
  /\ stage[t] = "generate"
  /\ \/ /\ number[t] <= MaxSteps
        /\ \E reply \in left.replies : Reply(t, reply)
     \/ /\ number[t] > MaxSteps
        /\ Answer(t, "exhausted")
  /\ UNCHANGED <<diskVars, startVars, number, done, left>>

\* execute(): arguments that do not fit the signature are refused, a mutating tool is not
\* run under --dry-run and reported as ok; otherwise the tool succeeds or fails, and fails
\* when a number reaches it as text.
Observations(t) ==
  LET tool == call[t].name IN
  CASE Refused(tool, call[t].args) -> {[tool |-> tool, ok |-> FALSE, dry |-> FALSE]}
    [] ~Refused(tool, call[t].args) /\ dry[t] /\ tool \in Mutating ->
         {[tool |-> tool, ok |-> TRUE, dry |-> TRUE]}
    [] OTHER -> [tool : {tool}, dry : {FALSE},
                 ok : IF Mistyped(tool, call[t].args) THEN {FALSE} ELSE BOOLEAN]

Execute(t) ==
  /\ stage[t] = "execute"
  /\ \E obs \in Observations(t) : done' = [done EXCEPT ![t] = Append(@, obs)]
  /\ stage' = [stage EXCEPT ![t] = "record"]
  /\ Drop(t)
  /\ UNCHANGED <<diskVars, startVars, number, outcome, left>>

\* Mutant: only a successful step is journalled.
RecordSuccess(t) ==
  /\ stage[t] = "record"
  /\ IF Last(done[t]).ok
     THEN WriteStep(t, t, StepLine(Last(done[t])), "record", "generate")
     ELSE stage' = [stage EXCEPT ![t] = "generate"] /\ UNCHANGED <<diskVars, left>>
  /\ number' = [number EXCEPT ![t] = @ + 1]
  /\ UNCHANGED <<startVars, said, call, outcome, done>>

\* journal.step()
Record(t) ==
  /\ WriteStep(t, t, StepLine(Last(done[t])), "record", "generate")
  /\ number' = [number EXCEPT ![t] = @ + 1]
  /\ UNCHANGED <<startVars, said, call, outcome, done>>

\* _finish(): the audit record and the episodic memory, before the journal.
Remember(t) ==
  /\ stage[t] = "remember"
  /\ stage' = [stage EXCEPT ![t] = "close"]
  /\ UNCHANGED <<diskVars, startVars, loopVars, left>>

\* Mutant: journal.finish() comes before _finish().
CloseEarly(t) ==
  /\ WriteStep(t, t, Event(outcome[t]), "remember", "close")
  /\ UNCHANGED <<startVars, loopVars>>

\* journal.finish()
Close(t) ==
  /\ WriteStep(t, t, Event(outcome[t]), "close", "return")
  /\ UNCHANGED <<startVars, loopVars>>

\* agent.run() returns, out of the try of _run_task.
Return(t) ==
  /\ stage[t] = "return"
  /\ stage' = [stage EXCEPT ![t] = "ended"]
  /\ UNCHANGED <<diskVars, startVars, loopVars, left>>

\* Anything raised out of agent.run(), Ctrl-C included; a tool it interrupts
\* may have done its work, and the task may have its finish line already.
Interrupt(t) ==
  /\ left.interrupts > 0
  /\ left' = [left EXCEPT !.interrupts = @ - 1]
  /\ stage[t] \in {"generate", "execute", "record", "remember", "close", "return"}
  /\ stage' = [stage EXCEPT ![t] = IF @ = "return" THEN "retract" ELSE "fail"]
  /\ \/ UNCHANGED done
     \/ /\ stage[t] = "execute"
        /\ \E obs \in Observations(t) : done' = [done EXCEPT ![t] = Append(@, obs)]
  /\ Drop(t)
  /\ UNCHANGED <<diskVars, startVars, number, outcome>>

\* journal.fail()
Fail(t) ==
  /\ \E here \in {"fail", "retract"} : WriteStep(t, t, Event("failed"), here, "ended")
  /\ UNCHANGED <<startVars, loopVars>>

Kill(t) ==
  /\ left.kills > 0 /\ stage[t] \in Running
  /\ left' = [left EXCEPT !.kills = @ - 1]
  /\ stage' = [stage EXCEPT ![t] = "dead"]
  /\ Drop(t)
  /\ UNCHANGED <<diskVars, startVars, number, outcome, done>>

Process(t) ==
  \/ Create(t) \/ MarkResumed(t)
  \/ Generate(t) \/ Execute(t) \/ Record(t) \/ Remember(t) \/ Close(t)
  \/ Return(t) \/ Fail(t)

JournalNext ==
  \E t \in Tasks :
    \/ Do(t)
    \/ \E s \in Tasks : Resume(t, s)
    \/ Process(t)
    \/ Interrupt(t)
    \/ Kill(t)

JournalSpec == JournalInit /\ [][JournalNext]_journalVars

\* A process that is not killed goes on; nobody has to start or resume a task.
FairJournalSpec == JournalSpec /\ \A t \in Tasks : WF_journalVars(Process(t))

-----------------------------------------------------------------------------
(* Properties.                                                             *)

\* "A partial write costs the last line rather than the file": wherever the
\* process dies or is interrupted, and whoever resumes the task meanwhile, the
\* journal is what the loop did, in order, but for its last step; unless the
\* disk failed, or a resumer is itself killed and leaves its torn line in it.
CrashCostsOneStep ==
  \A t \in Tasks :
    errors[t] = 0 /\ (\A r \in Tasks : from[r] = t => stage[r] # "dead") =>
      /\ IsPrefix(Steps(file[t]), done[t])
      /\ Len(done[t]) <= Len(Steps(file[t])) + 1

\* A task whose finish line is whole is not offered for resumption again, also
\* when it finishes between the load() and the mark_resumed() of a resumer, and
\* whatever that resumer leaves in its journal.  One way remains: a Ctrl-C that
\* comes after the line is written and before agent.run() returns makes
\* _run_task append `failed` behind it.
FinishedStays ==
  [][\A t \in Tasks :
       Status(file[t]) \in {"completed", "exhausted"} /\ ~torn[t] /\ Resumable(t)'
         => stage[t] = "retract"]_journalVars

\* What a call that was not scraped has of one object: its name, and arguments that stand
\* there, the last perhaps cut short and any text in them perhaps rewritten by a repair;
\* where nothing was repaired, the arguments are all of those meant.
IsFrom(found, p) ==
  /\ p.means.name = found.name
  /\ \A a \in ToSet(found.args) : a[2] \in Mangled \/ a \in Written(p.fields)
  /\ found.repairs \cap {"closed what was open", "repaired"} = {} =>
       found.args = p.means.args \/ Halved(p.fields)

\* "Inventing calls the model never made is far worse than failing to parse one it
\* did": a tool that is about to run was named in the reply, and its arguments were
\* written there, but for text a repair cut short or rewrote.  Unless the step notes that
\* it was scraped, name and arguments are those of one object; unless it notes a repair,
\* they are just what its author meant (but for arguments that are half an object inside
\* a string).  The notes reach the Step and the terminal; the model is shown the
\* observation alone.
NothingInvented ==
  \A t \in Tasks : stage[t] = "execute" /\ call[t] \notin ToSet(said[t].native) =>
    LET found == call[t]
        text == said[t].text
    IN  /\ \E i \in DOMAIN text : text[i].means.name = found.name
        /\ \A a \in ToSet(found.args) :
             \/ a[2] \in Mangled \cup {Swallowed}
             \/ \E i \in DOMAIN text : a \in Written(text[i].fields)
        /\ "scraped" \notin found.repairs => \E i \in DOMAIN text : IsFrom(found, text[i])

\* A started task ends: within max_steps or not, interrupted or not.
TaskEnds == \A t \in Tasks : stage[t] = "create" ~> stage[t] \in {"ended", "dead"}

(* Claims of the documentation that the code does not keep.                *)

\* list_incomplete returns "tasks that were never finished -- the resumable ones".
NeverFinished ==
  [][\A t \in Tasks :
       Status(file[t]) \in {"completed", "exhausted"} /\ ~torn[t] => ~Resumable(t)']_journalVars

\* A call the parser repaired has the arguments its author wrote ("repairing what can be
\* repaired").
RepairsKeepText ==
  \A r \in Replies :
    LET found == ParseToolCall(r.text) IN
    "repaired" \in found.repairs =>
      \E i \in DOMAIN r.text : ToSet(found.args) \subseteq Written(r.text[i].fields)

\* "A journal with no finish line is a task whose process died mid-run."
InterruptedIsDead ==
  \A t \in Tasks :
    Exists(t) /\ Status(file[t]) = "interrupted" => stage[t] \in {"ended", "dead"}

\* Without mark_resumed "an interrupted task stays interrupted forever even
\* after it was resumed and finished": with it, a task that was resumed, and
\* whose continuation is over, is not resumable.
ResumedIsClosed ==
  \A t, s \in Tasks : from[t] = s /\ stage[t] = "ended" => ~Resumable(s)

\* A resumed task continues "with full knowledge of what it already did": it
\* knows at least what the task it continues had been told.
FullKnowledge ==
  \A t \in Tasks : from[t] # 0 => Len(prior[t]) >= Len(prior[from[t]])

\* mutating_steps are the "steps that changed something".
MutatingChanged ==
  \A t \in Tasks : \A i \in DOMAIN file[t] :
    IsStep(file[t][i]) /\ file[t][i].mutating => file[t][i].obs.tool \in Mutating

\* The ladder "cheapest and most reliable first": what reads strictly, in a fence or as a
\* balanced span, comes before anything repaired.
StrictFirst ==
  \A r \in Replies :
    LET read == SelectSeq(Candidates(r.text), LAMBDA b : ReadBlock(b).name # None)
        strict == SelectSeq(read, LAMBDA b : b.form = "strict")
    IN  strict # <<>> => ParseToolCall(r.text) = ReadBlock(Head(strict))

\* Scraping is for a text whose "intent is legible": the arguments that were spelled out
\* survive it.
ScrapeKeepsArguments ==
  \A r \in Replies :
    LET found == ParseToolCall(r.text) IN
    found.repairs = {"scraped"} =>
      \E i \in DOMAIN r.text :
        /\ r.text[i].means.name = found.name
        /\ r.text[i].form = "cut" \/ ToSet(r.text[i].means.args) \subseteq ToSet(found.args)

\* A number sent as text reaches the tool as the number its schema describes.
SentAsDescribed ==
  \A t \in Tasks : stage[t] = "execute" /\ ~Refused(call[t].name, call[t].args) =>
    ~Mistyped(call[t].name, call[t].args)
=============================================================================
