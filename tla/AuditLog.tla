------------------------------ MODULE AuditLog ------------------------------
(***************************************************************************)
(* The action log ~/.arc/audit/<day>.jsonl, appended to by every ARC       *)
(* process at once (audit/logger.py).                                      *)
(*                                                                         *)
(* A record is numbered under its logger's lock and its line written under *)
(* the same lock taken again. A line reaches the file in one write, or in  *)
(* two when the system takes only part of the first (a full disk). A       *)
(* process may have several loggers: lock and numbers are a logger's own,  *)
(* only the file is shared. A record is <<logger, number>>; the file is    *)
(* the pieces written to it, and a line ends with the last piece.          *)
(***************************************************************************)
EXTENDS Naturals, Sequences, FiniteSets

CONSTANTS None,
          Loggers,
          Threads        \* threads that may share a logger

Jobs == [n : Nat, of : {1, 2}, done : {0, 1}]

ASSUME LogAssumption == None \notin Jobs

VARIABLES
  file,    \* the pieces of the day's file: [rec, part, of]
  seq,     \* logger -> AuditLogger._seq
  pen,     \* logger -> thread -> the record it is writing [n, of, done], or None
  failed   \* records whose write raised OSError

log == <<file, seq, pen, failed>>

LogInit == /\ file = <<>>
           /\ seq = [p \in Loggers |-> 0]
           /\ pen = [p \in Loggers |-> [t \in Threads |-> None]]
           /\ failed = {}

Idle(p, t) == pen[p][t] = None

\* Mutant: the two locked regions without their lock.
Unlocked(p) == TRUE

\* Nobody is between open() and close() under this logger's lock.
LockFree(p) == \A t \in Threads : ~ Idle(p, t) => pen[p][t].done = 0

\* AuditLogger.record: the number, taken in the first locked region.
Number(p, t, of) ==
  /\ Idle(p, t) /\ LockFree(p)
  /\ seq' = [seq EXCEPT ![p] = @ + 1]
  /\ pen' = [pen EXCEPT ![p][t] = [n |-> seq[p] + 1, of |-> of, done |-> 0]]
  /\ UNCHANGED <<file, failed>>

\* AuditLogger._write: a piece of the line; the lock is held until the last.
Write(p, t) ==
  /\ ~ Idle(p, t)
  /\ LET job == pen[p][t]
     IN /\ job.done = 0 => LockFree(p)
        /\ file' = Append(file, [rec |-> <<p, job.n>>, part |-> job.done + 1, of |-> job.of])
        /\ pen' = [pen EXCEPT ![p][t] = IF job.done + 1 = job.of THEN None
                                        ELSE [job EXCEPT !.done = @ + 1]]
  /\ UNCHANGED <<seq, failed>>

\* ... OSError: AuditError, which the callers drop.
WriteFails(p, t) ==
  /\ ~ Idle(p, t) /\ (pen[p][t].done = 0 => LockFree(p))
  /\ failed' = failed \cup {<<p, pen[p][t].n>>}
  /\ pen' = [pen EXCEPT ![p][t] = None]
  /\ UNCHANGED <<file, seq>>

\* The process of these loggers ends: what they had not yet written is lost.
Silence(L) ==
  /\ failed' = failed \cup UNION {{<<p, pen[p][t].n>> : t \in {u \in Threads : ~ Idle(p, u)}} : p \in L}
  /\ pen' = [p \in Loggers |-> IF p \in L THEN [t \in Threads |-> None] ELSE pen[p]]
  /\ UNCHANGED <<file, seq>>

-----------------------------------------------------------------------------
(* What a reader finds                                                     *)

Begun == {i \in DOMAIN file : file[i].part = 1}
Completed == {file[i].rec : i \in {j \in DOMAIN file : file[j].part = file[j].of}}

\* The record begun at i stands alone on its line.
WholeAt(i) ==
  /\ i = 1 \/ file[i - 1].part = file[i - 1].of
  /\ \A k \in 1 .. file[i].of - 1 :
       i + k \in DOMAIN file /\ file[i + k].rec = file[i].rec

\* AuditLogger.read_recent: lines that parse; the others are skipped.
Readable == {file[i].rec : i \in {j \in Begun : WholeAt(j)}}

\* Records cut short for good.
Torn == {file[i].rec : i \in Begun} \cap failed

\* Records in two pieces with one of another logger in the middle.
Crossed == {file[i].rec : i \in {j \in Begun : /\ file[j].of > 1
                                               /\ j + 1 \in DOMAIN file
                                               /\ file[j + 1].rec[1] # file[j].rec[1]}}

(* Of the records written in full, one torn record costs the reader at     *)
(* most the next one, and a record of another logger landing between the   *)
(* two pieces of one at most those two: threads of one logger cost none    *)
(* (logger.py:178-203, the lock over the write; 205-228, the reader).      *)
LogHonest ==
  Cardinality(Completed \ Readable) <= Cardinality(Torn) + 2 * Cardinality(Crossed)

\* Assumed by logger.py:208 ("oldest first"), and false: the lines of a logger are in the
\* order of its numbers.
LinesInOrder ==
  \A i, j \in Begun : (i < j /\ file[i].rec[1] = file[j].rec[1])
                        => file[i].rec[2] < file[j].rec[2]

\* test_read_recent_skips_malformed_lines, read as "a torn record costs only itself"; false.
TornCostsItself == Crossed = {} => Completed \subseteq Readable
=============================================================================
