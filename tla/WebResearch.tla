---------------------------- MODULE WebResearch ----------------------------
(***************************************************************************)
(* `arc research` and `arc research --deep`: search, polite fetching,      *)
(* extraction, corroboration and write-back into memory (web/*.py).        *)
(*                                                                         *)
(* A command is one single-threaded process with a fetcher of its own; the *)
(* facts it stores outlive it and days pass between commands.              *)
(*                                                                         *)
(* Abstractions: a URL, a query and a claim are model values; Score is the *)
(* cosine of two claims in hundredths; a page's text is the claims the     *)
(* model finds in it (or none); the limiter's timestamps are the time      *)
(* since, in ticks, capped at Delay, for only that is compared; a memory   *)
(* recall returns any facts, for the code does not look at relevance.      *)
(***************************************************************************)
EXTENDS Integers, Sequences, FiniteSets, FiniteSetsExt, SequencesExt

CONSTANTS None,
          Urls,          \* pages
          Site,          \* Site[u]: its netloc without www.
          Host,          \* Host[u]: its netloc
          Lands,         \* Lands[u]: where the request for u may end, after redirects
          Backends,      \* the configured backends, in order
          Refused,       \* backends whose robots.txt forbids the search path
          Queries,
          Hits,          \* Hits[b][q]: the pages backend b may answer q with, each a list of
                         \* links [url, is], is \in {"result", "advert", "internal", "untitled"}
          Bing, Google,  \* two of the backends
          Claims,
          Score,         \* Score[<<c, d>>], 0 .. 100
          Threshold,
          Says,          \* Says[u]: the claims on page u, in order
          Questions, Ttl,\* Ttl[q]: ttl_for(q)
          Delay,         \* seconds between requests to a host
          PagesPerRound, QueriesPerRound, Rounds, MaxPages,
          Budgets        \* the commands and days of each behaviour

Range1(s) == {s[i] : i \in DOMAIN s}

\* What `arc research` is given, what a deep run finds and what memory keeps.
Orders == [kind : {"quick"}, question : Questions, query : Queries]
          \cup [kind : {"deep"}, question : Questions, query : {None}]
Findings == [claim : Claims, sources : SUBSET Urls, first : Urls]
Facts == [claim : Claims, question : Questions, at : Nat, conf : {55, 70, 80, 92},
          sources : SUBSET Urls, first : Urls]

\* A command in progress.
Commands == [kind : {"quick", "deep"}, question : Questions, at : {"search", "read", "answer"},
             round : Nat, todo : Seq(Queries), backend : Nat, pooled : Seq(Urls),
             seen : SUBSET Urls, read : Nat, pages : Nat, claims : Seq(Claims \X Urls),
             findings : Seq(Findings), kept : SUBSET Facts]

ASSUME WebAssumption ==
  /\ {Threshold, Delay, PagesPerRound, QueriesPerRound, Rounds, MaxPages} \subseteq Nat
  /\ Budgets \subseteq [commands : Seq(Orders), days : Nat]
  /\ None \notin Commands
  /\ \A c, d \in Claims : Score[<<c, d>>] \in 0 .. 100
  /\ \A u \in Urls : Lands[u] \subseteq Urls /\ Says[u] \in Seq(Claims)
  /\ Backends \in Seq(Range1(Backends)) \ {<<>>}
  /\ \A b \in Range1(Backends), q \in Queries :
       Hits[b][q] \subseteq Seq([url : Urls, is : {"result", "advert", "internal", "untitled"}])
  /\ \A q \in Questions : Ttl[q] \in Nat

Hosts == {Host[u] : u \in Urls} \cup Range1(Backends)
Paths == Urls \cup Range1(Backends)
Atleast(a, b) == IF a < b THEN b ELSE a
Atmost(a, b) == IF a < b THEN a ELSE b

VARIABLES
  cmd,     \* the command in progress, or None
  limiter, \* RateLimiter._last: host -> time since, capped at Delay
  robots,  \* what RobotsCache._parsers say of a path: unread, open or closed to us
  mem,     \* web facts in the memory database
  day,
  answer,  \* what the last command ended with
  since,   \* host -> time since a page request was really sent
  rude,    \* a page request followed another too soon
  said,    \* <<url, claim>> the model extracted from what url served
  asked,   \* page URLs this command fetched, in order
  tried,   \* backends the search in progress has tried
  left     \* commands and days still to come

vars == <<cmd, limiter, robots, mem, day, answer, since, rude, said, asked, tried, left>>
fetcher == <<limiter, robots, since, rude>>

Fresh == [h \in Hosts |-> Delay]

Init == /\ cmd = None /\ limiter = Fresh /\ since = Fresh
        /\ robots = [p \in Paths |-> "unread"]
        /\ mem = {} /\ day = 0 /\ answer = None /\ rude = FALSE
        /\ said = {} /\ asked = <<>> /\ tried = <<>>
        /\ left \in Budgets

\* Mutant: the time is recorded before the sleep.
WaitUnslept(l, h) == [g \in Hosts |-> IF g = h THEN Delay - l[h]
                                      ELSE Atmost(Delay, l[g] + Delay - l[h])]

\* RateLimiter.wait: sleep until the host was last called Delay ago, then record.
Wait(l, h) == [g \in Hosts |-> IF g = h THEN 0 ELSE Atmost(Delay, l[g] + Delay - l[h])]

\* RobotsCache.allowed: a host's file is loaded once, answers for each path, and fails open.
Allowed(path) == robots'[path] # "closed"
Robots(path) == \E r \in {"open", "closed"} :
                  robots' = IF robots[path] = "unread" THEN [robots EXCEPT ![path] = r]
                            ELSE robots

\* Fetcher.fetch, up to the answer: whether a request was sent. took: seconds until the answer.
Fetch(h, path, took) ==
  /\ Robots(path)
  /\ LET slept == Delay - limiter[h]
         waited == Wait(limiter, h)
     IN IF Allowed(path)
        THEN /\ limiter' = [g \in Hosts |-> Atmost(Delay, waited[g] + took)]
             /\ since' = [g \in Hosts |-> IF g = h THEN took
                                          ELSE Atmost(Delay, since[g] + slept + took)]
             /\ rude' = (rude \/ since[h] + slept < Delay)
        ELSE UNCHANGED <<limiter, since, rude>>

-----------------------------------------------------------------------------
(* Starting a command                                                      *)

\* is_stale
Stale(f, q) == day - f.at > Ttl[q]

\* Mutant: a fact is trusted as long as the question it was stored for allows.
FreshFactsOwn(q, hits) == {f \in hits : ~ (day - f.at > Ttl[f.question])}

\* Researcher.check_memory: the recalled facts fresh enough for this question.
FreshFacts(q, hits) == {f \in hits : ~ Stale(f, q)}

Blank == [kind |-> None, question |-> None, at |-> "search", round |-> 1, todo |-> <<>>,
          backend |-> 1, pooled |-> <<>>, seen |-> {}, read |-> 0,
          pages |-> 0, claims |-> <<>>, findings |-> <<>>, kept |-> {}]

\* a process of its own: fresh limiter and robots cache
Begin(kind) == /\ cmd = None /\ left.commands # <<>> /\ Head(left.commands).kind = kind
               /\ left' = [left EXCEPT !.commands = Tail(@)]
               /\ limiter' = Fresh /\ since' = Fresh /\ robots' = [p \in Paths |-> "unread"]
               /\ asked' = <<>> /\ tried' = <<>>
               /\ UNCHANGED <<mem, day, rude, said>>

\* Researcher.research: from memory when anything recalled is fresh.
Quick == /\ Begin("quick")
         /\ LET q == Head(left.commands).question
            IN \E hits \in SUBSET mem :
                 LET fresh == FreshFacts(q, hits)
                 IN IF fresh # {}
                    THEN /\ answer' = [from |-> "memory", question |-> q, day |-> day, facts |-> fresh]
                         /\ cmd' = None
                    ELSE /\ cmd' = [Blank EXCEPT !.kind = "quick", !.question = q,
                                                 !.todo = <<Head(left.commands).query>>]
                         /\ UNCHANGED answer

\* DeepResearcher.plan: the queries the model wrote, or the question itself
Deep == /\ Begin("deep")
        /\ \E n \in 1 .. QueriesPerRound : \E qs \in [1 .. n -> Queries] :
             cmd' = [Blank EXCEPT !.kind = "deep", !.question = Head(left.commands).question,
                                  !.todo = qs]
        /\ UNCHANGED answer

-----------------------------------------------------------------------------
(* Searching                                                               *)

Capped == 2

\* whether the site has its share of this round's pages already
Full(pooled, u) == Cardinality({i \in DOMAIN pooled : Site[pooled[i]] = Site[u]}) >= Capped

\* DeepResearcher.gather, for one query's results: new URLs, at most Capped of a site.
Pooled(c, urls) ==
  LET pool[i \in 0 .. Len(urls)] ==
        IF i = 0 THEN c.pooled
        ELSE LET s == pool[i - 1]
                 u == urls[i]
             IN IF u \in c.seen \cup Range1(s) \/ Full(s, u) THEN s ELSE Append(s, u)
  IN pool

Pool(c, urls) == [c EXCEPT !.pooled = Pooled(c, urls)[Len(urls)]]

\* _parse_duckduckgo, _parse_google, _parse_bing: the titled outside links, in order; of
\* Bing's, no adverts and none twice.
Kept(b, l, urls) == /\ l.is # "untitled"
                    /\ b \in {Bing, Google} => l.is # "internal"
                    /\ b = Bing => l.is # "advert" /\ l.url \notin Range1(urls)

Parsed(b, links) ==
  LET urls[i \in 0 .. Len(links)] ==
        IF i = 0 THEN <<>>
        ELSE IF Kept(b, links[i], urls[i - 1]) THEN Append(urls[i - 1], links[i].url)
        ELSE urls[i - 1]
  IN urls

Parse(b, links) == Parsed(b, links)[Len(links)]

\* what a search's results become
Found(urls) ==
  LET c == [cmd EXCEPT !.todo = Tail(@), !.backend = 1]
      d == IF cmd.kind = "deep" THEN Pool(c, SubSeq(urls, 1, Atmost(Len(urls), PagesPerRound)))
           ELSE [c EXCEPT !.pooled = SubSeq(urls, 1, Atmost(Len(urls), 2 * MaxPages))]
  IN cmd' = IF d.todo = <<>> THEN [d EXCEPT !.at = "read"] ELSE d

Ending(outcome) == /\ cmd' = None
                   /\ answer' = [from |-> outcome, question |-> cmd.question, day |-> day,
                                 facts |-> cmd.kept]

\* no backend returned results: a deep run goes to the next query, a quick one ends
SearchFailed ==
  IF cmd.kind = "deep" THEN Found(<<>>) /\ UNCHANGED answer
  ELSE Ending("no backend")

\* the next backend, or none left
NextBackend ==
  IF cmd.backend < Len(Backends)
  THEN /\ cmd' = [cmd EXCEPT !.backend = @ + 1]
       /\ UNCHANGED answer
  ELSE SearchFailed

\* search, search_with: one backend. A refused backend is not asked at all.
Search ==
  /\ cmd # None /\ cmd.at = "search" /\ cmd.todo # <<>>
  /\ LET b == Backends[cmd.backend]
         q == Head(cmd.todo)
     IN /\ tried' = Append(IF cmd.backend = 1 THEN <<>> ELSE tried, b)
        /\ IF b \in Refused THEN NextBackend /\ UNCHANGED fetcher
           ELSE \E took \in 0 .. 1 :
                  /\ Fetch(b, b, took)
                  /\ \/ /\ Allowed(b)
                        /\ \E links \in Hits[b][q] :
                             LET urls == Parse(b, links)
                             IN IF urls # <<>> THEN Found(urls) /\ UNCHANGED answer
                                ELSE NextBackend
                     \/ NextBackend \* forbidden, unreachable, too large or not text
  /\ UNCHANGED <<mem, day, said, asked, left>>

-----------------------------------------------------------------------------
(* Reading pages                                                           *)

\* Mutant: pages, not sites, are counted.
SupportPages(f) == Cardinality(f.sources)

\* Finding.support: distinct sites
Support(f) == Cardinality({Site[s] : s \in f.sources})

\* Finding.confidence, in hundredths
Confidence(f) == CASE Support(f) >= 3 -> 92 [] Support(f) = 2 -> 80 [] OTHER -> 55

\* Researcher.remember, per page: each claim with its page as provenance
Provenance(url, c) == [claim |-> c, question |-> cmd.question, at |-> day, conf |-> 70,
                       sources |-> {url}, first |-> url]

\* whether the loop over the results goes on
More(c) == CASE c.kind = "quick" -> c.pages < MaxPages /\ c.read < Len(c.pooled)
             [] OTHER -> c.read < Atmost(Len(c.pooled), PagesPerRound)

\* read, extract, distil: what the model finds on the page the request ended at. A page that
\* is not text, has too few words or does not answer is as unreadable as a failed request.
Distilled(url) == {Says[final] : final \in Lands[url]} \ {<<>>}

\* Researcher.research: a page's facts are stored as it is read.
QuickLearns(c, url, claims) ==
  LET facts == {Provenance(url, claims[i]) : i \in DOMAIN claims}
  IN /\ mem' = mem \cup facts
     /\ cmd' = [c EXCEPT !.pages = @ + 1, !.kept = @ \cup facts]

\* DeepResearcher.research: claims are gathered until the run ends.
DeepLearns(c, url, claims) ==
  /\ cmd' = [c EXCEPT !.pages = @ + 1,
                       !.claims = @ \o [i \in DOMAIN claims |-> <<claims[i], url>>]]
  /\ UNCHANGED mem

\* The next result is fetched; one that fails or says nothing costs no page of the budget.
Read ==
  /\ cmd # None /\ cmd.at = "read" /\ More(cmd)
  /\ LET url == cmd.pooled[cmd.read + 1]
         c == [cmd EXCEPT !.read = @ + 1, !.seen = @ \cup {url}]
     IN /\ asked' = Append(asked, url)
        /\ \E took \in 0 .. 1 : Fetch(Host[url], url, took)
        /\ \/ cmd' = c /\ UNCHANGED <<said, mem>>
           \/ /\ Allowed(url)
              /\ \E claims \in Distilled(url) :
                   /\ said' = said \cup {<<url, claims[i]>> : i \in DOMAIN claims}
                   /\ IF c.kind = "quick" THEN QuickLearns(c, url, claims)
                                          ELSE DeepLearns(c, url, claims)
  /\ UNCHANGED <<day, answer, tried, left>>

\* Researcher.research: out of pages or results
QuickEnds == /\ cmd # None /\ cmd.kind = "quick" /\ cmd.at = "read" /\ ~ More(cmd)
             /\ Ending(IF cmd.pages = 0 THEN "nothing readable" ELSE "web")
             /\ UNCHANGED <<fetcher, mem, day, said, asked, tried, left>>

-----------------------------------------------------------------------------
(* Corroboration                                                           *)

\* _nearest: the findings that assert the claim best; the same words without an embedder.
Nearest(fs, c, embedded) ==
  IF ~ embedded THEN {i \in DOMAIN fs : fs[i].claim = c}
  ELSE {i \in DOMAIN fs :
          /\ Score[<<c, fs[i].claim>>] > Threshold
          /\ \A j \in DOMAIN fs : Score[<<c, fs[j].claim>>] <= Score[<<c, fs[i].claim>>]}

\* corroborate: each claim joins its nearest finding or opens one
Joined(fs, p, embedded) ==
  LET near == Nearest(fs, p[1], embedded)
  IN IF near = {} THEN Append(fs, [claim |-> p[1], sources |-> {p[2]}, first |-> p[2]])
     ELSE [fs EXCEPT ![Min(near)].sources = @ \cup {p[2]}]

Corroborated(claims, embedded) ==
  LET fs[i \in 0 .. Len(claims)] ==
        IF i = 0 THEN <<>> ELSE Joined(fs[i - 1], claims[i], embedded)
  IN fs

Corroborate(claims, embedded) == Corroborated(claims, embedded)[Len(claims)]

\* DeepResearcher.research, end of a round: findings, then what is still open. Without
\* findings there are no gaps; after the last round none are asked for.
RoundEnds ==
  /\ cmd # None /\ cmd.kind = "deep" /\ cmd.at = "read" /\ ~ More(cmd)
  /\ \E embedded \in BOOLEAN, n \in 0 .. 1 : \E qs \in [1 .. n -> Queries] :
       LET fs == Corroborate(cmd.claims, embedded)
           over == cmd.round = Rounds \/ n = 0
       IN /\ n = 1 => cmd.round < Rounds /\ fs # <<>>
          /\ cmd' = [cmd EXCEPT !.findings = fs, !.at = IF over THEN "answer" ELSE "search",
                                !.round = IF over THEN @ ELSE @ + 1, !.todo = qs,
                                !.pooled = <<>>, !.read = 0]
  /\ UNCHANGED <<fetcher, mem, day, answer, said, asked, tried, left>>

\* synthesize, remember: one fact a finding, as confident as its support
DeepEnds ==
  /\ cmd # None /\ cmd.at = "answer"
  /\ LET facts == {[claim |-> f.claim, question |-> cmd.question, at |-> day,
                    conf |-> Confidence(f), sources |-> f.sources, first |-> f.first]
                     : f \in Range1(cmd.findings)}
     IN /\ mem' = mem \cup facts
        /\ answer' = [from |-> IF facts = {} THEN "nothing usable" ELSE "web",
                      question |-> cmd.question, day |-> day, facts |-> facts]
  /\ cmd' = None
  /\ UNCHANGED <<fetcher, day, said, asked, tried, left>>

Night == /\ cmd = None /\ left.days > 0
         /\ day' = day + 1 /\ left' = [left EXCEPT !.days = @ - 1]
         /\ UNCHANGED <<cmd, fetcher, mem, answer, said, asked, tried>>

Next == \/ Quick \/ Deep \/ Search \/ Read \/ QuickEnds \/ RoundEnds \/ DeepEnds \/ Night

Spec == Init /\ [][Next]_vars
-----------------------------------------------------------------------------
(* Properties                                                              *)

Alike(c, d) == c = d \/ Score[<<c, d>>] > Threshold

\* However long requests take, two page requests of a command to one host are Delay apart
\* (RateLimiter.wait). robots.txt and redirect targets are requested without waiting.
PoliteHosts == ~ rude

\* A fact is stored as corroborated only when pages of as many sites served a claim to
\* that effect, and every source it names did (Finding.support, corroborate, remember).
CorroborationIsEarned ==
  \A f \in mem :
    /\ \A s \in f.sources : \E p \in said : p[1] = s /\ Alike(p[2], f.claim)
    /\ LET n == Cardinality({Site[s] : s \in f.sources})
       IN (f.conf = 92 => n >= 3) /\ (f.conf = 80 => n >= 2)

\* A deep run reads no page twice, however often its queries, backends and rounds find it
\* (gather's exclude, seen_urls).
ReadOnce == cmd # None /\ cmd.kind = "deep" =>
              \A i, j \in DOMAIN asked : i # j => asked[i] # asked[j]

\* An answer from memory holds no fact older than this question allows, whatever question
\* the fact was learnt for (check_memory, is_stale).
FreshAnswers == answer # None /\ answer.from = "memory" =>
                  \A f \in answer.facts : answer.day - f.at <= Ttl[answer.question]

\* A search is given up only after every configured backend had its turn (search).
GivesUpLast == cmd = None /\ answer # None /\ answer.from = "no backend" => tried = Backends

\* What a question costs and what it is answered with: no page twice, no stale fact, and no
\* backend left untried.
ReadingIsCareful == ReadOnce /\ FreshAnswers /\ GivesUpLast

\* Not so: "Provenance must record where the content really came from, not where we
\* started" (fetch.py), yet both pipelines store result.url: two URLs that redirect to one
\* page corroborate each other.
SourcesServedIt ==
  \A f \in mem : \A s \in f.sources : \E i \in DOMAIN Says[s] : Alike(Says[s][i], f.claim)

\* Not so: "Capped at two pages per domain" (gather) holds within a round only.
TwoPagesPerSite ==
  \A u \in Urls : Cardinality({i \in DOMAIN asked : Site[asked[i]] = Site[u]}) <= Capped
=============================================================================
