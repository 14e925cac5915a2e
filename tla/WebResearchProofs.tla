------------------------- MODULE WebResearchProofs -------------------------
(***************************************************************************)
(* Theorems about WebResearch, for any pages, backends, queries, claims    *)
(* and scores and any number of commands: requests to a host are spaced,   *)
(* a deep run reads no page twice, a search is given up last, and what is  *)
(* stored as corroborated was said by as many sites.                       *)
(*                                                                         *)
(* Three of the operators are loops over a list, written as recursive      *)
(* functions; what is shown of them rests on Loops.                        *)
(***************************************************************************)
EXTENDS WebResearch, Loops, TLAPS

-----------------------------------------------------------------------------
(* Pooling, parsing and corroborating                                      *)

LEMMA PooledLoop ==
  ASSUME NEW c \in Commands, NEW urls \in Seq(Urls), NEW n, n = Len(urls)
  PROVE  /\ \A i \in 0 .. n : Pooled(c, urls)[i] \in Seq(Urls)
         /\ Pooled(c, urls)[0] = c.pooled
         /\ \A i \in 1 .. n :
              LET s == Pooled(c, urls)[i - 1]
              IN Pooled(c, urls)[i] = IF urls[i] \in c.seen \cup Range1(s) \/ Full(s, urls[i]) THEN s
                                      ELSE Append(s, urls[i])
  <1> DEFINE S == Seq(Urls)
             next(s, i) == IF urls[i] \in c.seen \cup Range1(s) \/ Full(s, urls[i]) THEN s
                           ELSE Append(s, urls[i])
             step == [i \in 1 .. n |-> [s \in S |-> next(s, i)]]
             g == Pooled(c, urls)
  <1>1. n \in Nat /\ c.pooled \in S
    BY DEF Commands
  <1>2. \A s \in S, i \in 1 .. n : next(s, i) \in S
    OBVIOUS
  <1>3. step \in [1 .. n -> [S -> S]]
    <2> HIDE DEF next, S
    <2> QED BY <1>2
  <1>4. PICK f \in [0 .. n -> S] : f[0] = c.pooled /\ \A i \in 1 .. n : f[i] = step[i][f[i - 1]]
    <2> HIDE DEF step, S
    <2>1. Runs(n, S, c.pooled, step) # {}
      BY <1>1, <1>3, LoopRuns
    <2> QED BY <2>1 DEF Runs
  <1>5. f = [i \in 0 .. n |-> IF i = 0 THEN c.pooled ELSE next(f[i - 1], i)]
    <2>1. \A i \in 1 .. n : i - 1 \in 0 .. n
      BY <1>1
    <2>2. \A i \in 1 .. n : step[i][f[i - 1]] = next(f[i - 1], i)
      <3> HIDE DEF next, S
      <3> QED BY <2>1
    <2> HIDE DEF next, S, step
    <2> QED BY <1>1, <1>4, <2>2
  <1>6. g = [i \in 0 .. n |-> IF i = 0 THEN c.pooled ELSE next(g[i - 1], i)]
    BY <1>5, Zenon DEF Pooled
  <1> HIDE DEF g
  <1>7. g[0] = c.pooled /\ \A i \in 1 .. n : g[i] = next(g[i - 1], i)
    <2>1. \A i \in 1 .. n : i # 0 /\ i \in 0 .. n
      BY <1>1
    <2> HIDE DEF next
    <2> QED BY <1>1, <1>6, <2>1
  <1>8. \A i \in 0 .. n : g[i] \in S
    <2>1. Follows(g, n, S, c.pooled, step)
      <3> HIDE DEF next, S
      <3> QED BY <1>7 DEF Follows
    <2> HIDE DEF step, S
    <2> QED BY <1>1, <1>3, <2>1, LoopStays
  <1> QED BY <1>7, <1>8 DEF g

LEMMA ParsedLoop ==
  ASSUME NEW b, NEW links \in Seq([url : Urls, is : {"result", "advert", "internal", "untitled"}])
  PROVE  Parse(b, links) \in Seq(Urls)
  <1> DEFINE n == Len(links)
             S == Seq(Urls)
             next(s, i) == IF Kept(b, links[i], s) THEN Append(s, links[i].url) ELSE s
             step == [i \in 1 .. n |-> [s \in S |-> next(s, i)]]
             g == Parsed(b, links)
  <1>1. n \in Nat /\ <<>> \in S
    OBVIOUS
  <1>2. \A s \in S, i \in 1 .. n : next(s, i) \in S
    <2>1. \A i \in 1 .. n : links[i].url \in Urls
      <3> DEFINE R == [url : Urls, is : {"result", "advert", "internal", "untitled"}]
      <3>1. links \in Seq(R) /\ \A l \in R : l.url \in Urls
        OBVIOUS
      <3> HIDE DEF R
      <3> QED BY <3>1
    <2> QED BY <2>1
  <1>3. step \in [1 .. n -> [S -> S]]
    <2> HIDE DEF next, S, n
    <2> QED BY <1>2
  <1>4. PICK f \in [0 .. n -> S] : f[0] = <<>> /\ \A i \in 1 .. n : f[i] = step[i][f[i - 1]]
    <2> HIDE DEF step, S, n
    <2>1. Runs(n, S, <<>>, step) # {}
      BY <1>1, <1>3, LoopRuns
    <2> QED BY <2>1 DEF Runs
  <1>5. f = [i \in 0 .. n |-> IF i = 0 THEN <<>> ELSE next(f[i - 1], i)]
    <2>1. \A i \in 1 .. n : i - 1 \in 0 .. n
      BY <1>1
    <2>2. \A i \in 1 .. n : step[i][f[i - 1]] = next(f[i - 1], i)
      <3> HIDE DEF next, S, n
      <3> QED BY <2>1
    <2> HIDE DEF next, S, step, n
    <2> QED BY <1>1, <1>4, <2>2
  <1>6. g = [i \in 0 .. n |-> IF i = 0 THEN <<>> ELSE next(g[i - 1], i)]
    BY <1>5, Zenon DEF Parsed
  <1> HIDE DEF g
  <1>7. Follows(g, n, S, <<>>, step)
    <2>1. \A i \in 1 .. n : i # 0 /\ i \in 0 .. n
      BY <1>1
    <2> HIDE DEF next, S, n
    <2> QED BY <1>1, <1>6, <2>1 DEF Follows
  <1>8. g[n] \in S
    <2> HIDE DEF step, S, n
    <2> QED BY <1>1, <1>3, <1>7, LoopStays
  <1> QED BY <1>8 DEF Parse, g

\* Every source of the finding served a claim to its effect.
Sourced(f) == \A s \in f.sources : \E p \in said : p[1] = s /\ Alike(p[2], f.claim)

LEMMA JoinedIs ==
  ASSUME NEW fs \in Seq(Findings), NEW p \in Claims \X Urls, NEW e \in BOOLEAN
  PROVE  /\ Joined(fs, p, e) \in Seq(Findings)
         /\ (/\ <<p[2], p[1]>> \in said
             /\ \A i \in DOMAIN fs : Sourced(fs[i]))
            => \A i \in DOMAIN Joined(fs, p, e) : Sourced(Joined(fs, p, e)[i])
  <1> DEFINE near == Nearest(fs, p[1], e)
             new == [claim |-> p[1], sources |-> {p[2]}, first |-> p[2]]
             m == Min(near)
             more == [fs[m] EXCEPT !.sources = fs[m].sources \cup {p[2]}]
  <1>1. new \in Findings
    BY DEF Findings
  <1>2. <<p[2], p[1]>> \in said => Sourced(new)
    BY SMTT(30) DEF Sourced, Alike
  <1>3. ASSUME near # {}
        PROVE  m \in DOMAIN fs /\ Alike(p[1], fs[m].claim)
    <2>1. near \subseteq DOMAIN fs /\ DOMAIN fs \subseteq Nat
      BY DEF Nearest
    <2>2. PICK x \in near : \A y \in near : x <= y
      <3> HIDE DEF near
      <3> QED BY <1>3, <2>1, LeastNatural
    <2>3. m \in near
      <3> HIDE DEF near
      <3> QED BY <2>2 DEF Min
    <2> QED BY <2>1, <2>3 DEF Nearest, Alike
  <1>4. CASE near = {}
    <2>1. Joined(fs, p, e) = Append(fs, new)
      BY <1>4 DEF Joined
    <2> HIDE DEF new
    <2> QED BY <1>1, <1>2, <2>1
  <1>5. CASE near # {}
    <2>1. Joined(fs, p, e) = [fs EXCEPT ![m] = more]
      BY <1>5, Zenon DEF Joined
    <2>2. /\ more \in Findings /\ fs[m] \in Findings
          /\ more.sources = fs[m].sources \cup {p[2]} /\ more.claim = fs[m].claim
      <3>1. fs[m] \in Findings
        BY <1>3, <1>5
      <3> HIDE DEF m
      <3> QED BY <3>1 DEF Findings
    <2>3. <<p[2], p[1]>> \in said /\ Sourced(fs[m]) => Sourced(more)
      <3> HIDE DEF more, m
      <3> QED BY <1>3, <1>5, <2>2 DEF Sourced
    <2> HIDE DEF more, m
    <2> QED BY <1>3, <1>5, <2>1, <2>2, <2>3
  <1> QED BY <1>4, <1>5

\* corroborate() on claims that were said.
LEMMA CorroboratedLoop ==
  ASSUME NEW claims \in Seq(Claims \X Urls), NEW e \in BOOLEAN
  PROVE  /\ Corroborate(claims, e) \in Seq(Findings)
         /\ (\A i \in DOMAIN claims : <<claims[i][2], claims[i][1]>> \in said)
            => \A i \in DOMAIN Corroborate(claims, e) : Sourced(Corroborate(claims, e)[i])
  <1> DEFINE n == Len(claims)
             S == Seq(Findings)
             step == [i \in 1 .. n |-> [s \in S |-> Joined(s, claims[i], e)]]
             g == Corroborated(claims, e)
  <1>1. n \in Nat /\ <<>> \in S
    OBVIOUS
  <1>2. \A s \in S, i \in 1 .. n : Joined(s, claims[i], e) \in S
    <2>1. \A i \in 1 .. n : claims[i] \in Claims \X Urls
      OBVIOUS
    <2> QED BY <2>1, JoinedIs
  <1>3. step \in [1 .. n -> [S -> S]]
    <2> HIDE DEF S, n
    <2> QED BY <1>2
  <1>4. PICK f \in [0 .. n -> S] : f[0] = <<>> /\ \A i \in 1 .. n : f[i] = step[i][f[i - 1]]
    <2> HIDE DEF step, S, n
    <2>1. Runs(n, S, <<>>, step) # {}
      BY <1>1, <1>3, LoopRuns
    <2> QED BY <2>1 DEF Runs
  <1>5. f = [i \in 0 .. n |-> IF i = 0 THEN <<>> ELSE Joined(f[i - 1], claims[i], e)]
    <2>1. \A i \in 1 .. n : i - 1 \in 0 .. n
      BY <1>1
    <2>2. \A i \in 1 .. n : step[i][f[i - 1]] = Joined(f[i - 1], claims[i], e)
      <3> HIDE DEF S, n
      <3> QED BY <2>1
    <2> HIDE DEF S, step, n
    <2> QED BY <1>1, <1>4, <2>2
  <1>6. g = [i \in 0 .. n |-> IF i = 0 THEN <<>> ELSE Joined(g[i - 1], claims[i], e)]
    BY <1>5, Zenon DEF Corroborated
  <1> HIDE DEF g
  <1>7. g[0] = <<>> /\ \A i \in 1 .. n : g[i] = Joined(g[i - 1], claims[i], e)
    <2>1. \A i \in 1 .. n : i # 0 /\ i \in 0 .. n
      BY <1>1
    <2> HIDE DEF n
    <2> QED BY <1>1, <1>6, <2>1
  <1>8. \A i \in 0 .. n : g[i] \in S
    <2>1. Follows(g, n, S, <<>>, step)
      <3> HIDE DEF S, n
      <3> QED BY <1>7 DEF Follows
    <2> HIDE DEF step, S, n
    <2> QED BY <1>1, <1>3, <2>1, LoopStays
  <1>9. ASSUME \A i \in DOMAIN claims : <<claims[i][2], claims[i][1]>> \in said
        PROVE  \A i \in DOMAIN g[n] : Sourced(g[n][i])
    <2> DEFINE P == {k \in 0 .. n : \A i \in DOMAIN g[k] : Sourced(g[k][i])}
    <2>1. 0 \in P
      BY <1>1, <1>7
    <2>2. ASSUME NEW k \in 0 .. n, k < n, k \in P PROVE k + 1 \in P
      <3>1. k + 1 \in 1 .. n /\ (k + 1) - 1 = k /\ k + 1 \in DOMAIN claims /\ g[k] \in S
        BY <1>1, <1>8, <2>2
      <3>2. g[k + 1] = Joined(g[k], claims[k + 1], e) /\ claims[k + 1] \in Claims \X Urls
        BY <1>7, <3>1
      <3>3. \A i \in DOMAIN g[k + 1] : Sourced(g[k + 1][i])
        BY <1>9, <2>2, <3>1, <3>2, JoinedIs
      <3> QED BY <3>1, <3>3
    <2>3. 0 .. n \subseteq P
      <3> HIDE DEF P, n
      <3> QED BY <1>1, <2>1, <2>2, Counting
    <2> QED BY <1>1, <2>3
  <1>10. Corroborate(claims, e) = g[n]
    BY DEF Corroborate, g
  <1> QED BY <1>1, <1>8, <1>9, <1>10

-----------------------------------------------------------------------------
(* Invariants                                                              *)

WebTypes ==
  /\ cmd # None => cmd \in Commands
  /\ limiter \in [Hosts -> 0 .. Delay] /\ since \in [Hosts -> Nat]
  /\ mem \subseteq Facts /\ day \in Nat
  /\ asked \in Seq(Urls) /\ tried \in Seq(Hosts)
  /\ left \in [commands : Seq(Orders), days : Nat]

\* The limiter never believes more time has passed since a request than has.
Paced == PoliteHosts /\ \A h \in Hosts : limiter[h] <= since[h]

Distinct(s) == \A i, j \in DOMAIN s : i # j => s[i] # s[j]

\* The pages of the pool still to be read are new and differ.
NeverTwice ==
  cmd # None /\ cmd.kind = "deep" =>
    /\ Range1(asked) \subseteq cmd.seen /\ Distinct(asked)
    /\ Distinct(cmd.pooled)
    /\ \A i \in DOMAIN cmd.pooled : i > cmd.read => cmd.pooled[i] \notin cmd.seen
    /\ cmd.at = "search" => cmd.read = 0

\* The backends before the present one were tried, in order; none is under way but in a
\* search.
TriedBefore(s, k) == Len(s) = k - 1 /\ \A i \in DOMAIN s : s[i] = Backends[i]
InOrder ==
  /\ cmd # None => /\ cmd.backend \in DOMAIN Backends
                   /\ cmd.at # "search" => cmd.backend = 1
                   /\ cmd.backend # 1 => TriedBefore(tried, cmd.backend)
  /\ GivesUpLast /\ FreshAnswers

\* What is on its way into memory was said by its sources.
Earned ==
  /\ CorroborationIsEarned
  /\ cmd # None => /\ \A i \in DOMAIN cmd.claims : <<cmd.claims[i][2], cmd.claims[i][1]>> \in said
                   /\ \A i \in DOMAIN cmd.findings : Sourced(cmd.findings[i])

WebInv == WebTypes /\ Paced /\ NeverTwice /\ InOrder /\ Earned

-----------------------------------------------------------------------------
(* What the steps do to a command                                          *)

LEMMA WebConstants ==
  /\ Delay \in Nat /\ PagesPerRound \in Nat /\ MaxPages \in Nat /\ Rounds \in Nat
  /\ QueriesPerRound \in Nat /\ None \notin Commands
  /\ Backends \in Seq(Hosts) /\ Len(Backends) \in Nat \ {0} /\ Range1(Backends) \subseteq Hosts
  /\ \A u \in Urls : Lands[u] \subseteq Urls /\ Says[u] \in Seq(Claims) /\ Host[u] \in Hosts
  <1>1. Backends \in Seq(Range1(Backends)) \ {<<>>} /\ Range1(Backends) \subseteq Hosts
    BY WebAssumption DEF WebAssumption, Hosts
  <1>2. Backends \in Seq(Hosts) /\ Len(Backends) \in Nat \ {0}
    BY <1>1
  <1> QED BY <1>1, <1>2, WebAssumption DEF WebAssumption, Hosts

LEMMA Aging ==
  ASSUME NEW l \in Nat, NEW s \in Nat, NEW w \in Nat, NEW k \in Nat, l <= s
  PROVE  /\ Atmost(Delay, Atmost(Delay, l + w) + k) \in 0 .. Delay
         /\ Atmost(Delay, s + w + k) \in Nat
         /\ Atmost(Delay, Atmost(Delay, l + w) + k) <= Atmost(Delay, s + w + k)
  BY WebConstants DEF Atmost

LEMMA FetchStep ==
  ASSUME WebTypes, Paced, NEW h \in Hosts, NEW path, NEW took \in 0 .. 1, Fetch(h, path, took)
  PROVE  limiter' \in [Hosts -> 0 .. Delay] /\ since' \in [Hosts -> Nat] /\ Paced'
  <1> USE WebConstants DEF WebTypes, Paced, PoliteHosts
  <1>1. CASE UNCHANGED <<limiter, since, rude>>
    BY <1>1
  <1>2. CASE ~ UNCHANGED <<limiter, since, rude>>
    <2> DEFINE slept == Delay - limiter[h]
    <2>1. /\ limiter' = [g \in Hosts |-> Atmost(Delay, Wait(limiter, h)[g] + took)]
          /\ since' = [g \in Hosts |-> IF g = h THEN took
                                       ELSE Atmost(Delay, since[g] + slept + took)]
          /\ rude' = (rude \/ since[h] + slept < Delay)
      BY <1>2 DEF Fetch
    <2>0. limiter[h] \in 0 .. Delay /\ since[h] \in Nat /\ limiter[h] <= since[h]
      OBVIOUS
    <2>2. slept \in Nat /\ ~ rude'
      <3>1. slept \in Nat /\ ~ (since[h] + slept < Delay)
        BY <2>0
      <3> QED BY <2>1, <3>1
    <2>3. ASSUME NEW g \in Hosts
          PROVE  /\ limiter'[g] \in 0 .. Delay /\ since'[g] \in Nat /\ limiter'[g] <= since'[g]
      <3>1. CASE g = h
        BY <2>1, <3>1 DEF Wait, Atmost
      <3>2. CASE g # h
        <4>1. /\ limiter'[g] = Atmost(Delay, Atmost(Delay, limiter[g] + slept) + took)
              /\ since'[g] = Atmost(Delay, since[g] + slept + took)
          BY <2>1, <3>2 DEF Wait
        <4>2. /\ limiter[g] \in Nat /\ since[g] \in Nat /\ limiter[g] <= since[g]
              /\ took \in Nat
          OBVIOUS
        <4> HIDE DEF slept
        <4>3. PICK l \in Nat, s \in Nat, w \in Nat : l = limiter[g] /\ s = since[g] /\ w = slept /\ l <= s
          BY <2>2, <4>2
        <4>4. /\ Atmost(Delay, Atmost(Delay, l + w) + took) \in 0 .. Delay
              /\ Atmost(Delay, s + w + took) \in Nat
              /\ Atmost(Delay, Atmost(Delay, l + w) + took) <= Atmost(Delay, s + w + took)
          BY <4>2, <4>3, Aging
        <4> QED BY <4>1, <4>3, <4>4
      <3> QED BY <3>1, <3>2
    <2> QED BY <2>1, <2>2, <2>3
  <1> QED BY <1>1, <1>2

\* gather(): the pool grows by pages that are new and that it lacks.
LEMMA PoolStep ==
  ASSUME NEW c \in Commands, NEW urls \in Seq(Urls)
  PROVE  /\ Pool(c, urls).pooled \in Seq(Urls)
         /\ Distinct(c.pooled) /\ Range1(c.pooled) \cap c.seen = {}
            => /\ Distinct(Pool(c, urls).pooled)
               /\ Range1(Pool(c, urls).pooled) \cap c.seen = {}
  <1> DEFINE g == Pooled(c, urls)
             Good(s) == Distinct(s) /\ Range1(s) \cap c.seen = {}
  <1>1. PICK n \in Nat : n = Len(urls)
    OBVIOUS
  <1>2. /\ \A i \in 0 .. n : g[i] \in Seq(Urls)
        /\ g[0] = c.pooled
        /\ \A i \in 1 .. n : \/ g[i] = g[i - 1]
                             \/ /\ urls[i] \notin c.seen \cup Range1(g[i - 1])
                                /\ g[i] = Append(g[i - 1], urls[i])
    BY <1>1, PooledLoop, ZenonT(60)
  <1>3. ASSUME NEW s \in Seq(Urls), NEW u \in Urls, Good(s), u \notin c.seen \cup Range1(s)
        PROVE  Good(Append(s, u))
    BY <1>3 DEF Distinct, Range1
  <1> HIDE DEF g, Good
  <1>4. ASSUME Good(c.pooled) PROVE Good(g[n])
    <2> DEFINE P == {k \in 0 .. n : Good(g[k])}
    <2>1. 0 \in P
      BY <1>2, <1>4
    <2>2. ASSUME NEW k \in 0 .. n, k < n, k \in P PROVE k + 1 \in P
      <3>1. /\ k + 1 \in 1 .. n /\ (k + 1) - 1 = k /\ g[k] \in Seq(Urls) /\ Good(g[k])
            /\ urls[k + 1] \in Urls
        BY <1>1, <1>2, <2>2
      <3>2. CASE g[k + 1] = g[k]
        BY <3>1, <3>2
      <3>3. CASE /\ urls[k + 1] \notin c.seen \cup Range1(g[k])
                 /\ g[k + 1] = Append(g[k], urls[k + 1])
        <4>1. Good(Append(g[k], urls[k + 1]))
          BY <1>3, <3>1, <3>3
        <4>2. Good(g[k + 1])
          BY <3>3, <4>1, Zenon
        <4> QED BY <3>1, <4>2
      <3> QED BY <1>2, <3>1, <3>2, <3>3
    <2>3. 0 .. n \subseteq P
      <3> HIDE DEF P
      <3> QED BY <2>1, <2>2, Counting
    <2> QED BY <2>3
  <1>5. Pool(c, urls).pooled = g[n]
    BY <1>1 DEF Pool, Commands, g
  <1> QED BY <1>2, <1>4, <1>5 DEF Good

\* What of a command the invariants are about.
SameSources(c) == c.claims = cmd.claims /\ c.findings = cmd.findings
SameReading(c) == c.kind = cmd.kind /\ c.seen = cmd.seen /\ c.read = cmd.read

LEMMA NextBackendStep ==
  ASSUME cmd \in Commands
  PROVE  LET c == [cmd EXCEPT !.backend = cmd.backend + 1]
         IN  /\ c \in Commands /\ SameSources(c) /\ SameReading(c)
             /\ c.pooled = cmd.pooled /\ c.at = cmd.at /\ c.backend = cmd.backend + 1
  <1>1. cmd.backend + 1 \in Nat
    BY DEF Commands
  <1>2. \A n \in Nat :
          LET c == [cmd EXCEPT !.backend = n]
          IN  /\ c \in Commands /\ SameSources(c) /\ SameReading(c)
              /\ c.pooled = cmd.pooled /\ c.at = cmd.at /\ c.backend = n
    BY DEF Commands, SameSources, SameReading
  <1> QED BY <1>1, <1>2

LEMMA FoundStep ==
  ASSUME cmd \in Commands, cmd.todo # <<>>, cmd.at = "search", NEW urls \in Seq(Urls), Found(urls)
  PROVE  /\ cmd' \in Commands /\ SameSources(cmd') /\ SameReading(cmd') /\ cmd'.backend = 1
         /\ cmd'.at \in {"search", "read"}
         /\ cmd.kind = "deep" /\ Distinct(cmd.pooled) /\ Range1(cmd.pooled) \cap cmd.seen = {}
            => Distinct(cmd'.pooled) /\ Range1(cmd'.pooled) \cap cmd.seen = {}
  <1> DEFINE c == [cmd EXCEPT !.todo = Tail(cmd.todo), !.backend = 1]
             some == SubSeq(urls, 1, Atmost(Len(urls), PagesPerRound))
             few == SubSeq(urls, 1, Atmost(Len(urls), 2 * MaxPages))
             d == IF cmd.kind = "deep" THEN Pool(c, some) ELSE [c EXCEPT !.pooled = few]
  <1>1. /\ c \in Commands /\ SameSources(c) /\ SameReading(c) /\ c.pooled = cmd.pooled
        /\ c.backend = 1 /\ c.at = "search"
    <2>1. Tail(cmd.todo) \in Seq(Queries)
      BY DEF Commands
    <2> QED BY <2>1 DEF Commands, SameSources, SameReading
  <1>2. some \in Seq(Urls) /\ few \in Seq(Urls)
    BY WebConstants DEF Atmost
  <1>3. cmd' = IF d.todo = <<>> THEN [d EXCEPT !.at = "read"] ELSE d
    BY DEF Found
  <1> HIDE DEF c, some, few
  <1>4. PICK p \in Seq(Urls) :
          /\ d = [c EXCEPT !.pooled = p]
          /\ cmd.kind = "deep" /\ Distinct(cmd.pooled) /\ Range1(cmd.pooled) \cap cmd.seen = {}
             => Distinct(p) /\ Range1(p) \cap cmd.seen = {}
    <2>1. CASE cmd.kind = "deep"
      <3>1. d = [c EXCEPT !.pooled = Pool(c, some).pooled]
        BY <1>1, <2>1 DEF Pool, Commands
      <3> QED BY <1>1, <1>2, <3>1, PoolStep, ZenonT(60) DEF SameReading
    <2>2. CASE cmd.kind # "deep"
      BY <1>2, <2>2
    <2> QED BY <2>1, <2>2
  <1>5. /\ d \in Commands /\ SameSources(d) /\ SameReading(d) /\ d.pooled = p /\ d.backend = 1
        /\ d.at = "search"
    <2> HIDE DEF d
    <2> QED BY <1>1, <1>4 DEF Commands, SameSources, SameReading
  <1> HIDE DEF d
  <1>6. \A x \in Commands :
          LET y == [x EXCEPT !.at = "read"]
          IN  /\ y \in Commands /\ y.at = "read" /\ y.pooled = x.pooled /\ y.backend = x.backend
              /\ y.claims = x.claims /\ y.findings = x.findings /\ y.kind = x.kind /\ y.seen = x.seen
              /\ y.read = x.read
    BY DEF Commands
  <1>7. cmd' \in Commands /\ SameSources(cmd') /\ SameReading(cmd') /\ cmd'.pooled = p
        /\ cmd'.backend = 1 /\ cmd'.at \in {"search", "read"}
    <2>1. CASE d.todo = <<>>
      <3> DEFINE y == [d EXCEPT !.at = "read"]
      <3>1. /\ y \in Commands /\ y.at = "read" /\ y.pooled = d.pooled /\ y.backend = d.backend
            /\ y.claims = d.claims /\ y.findings = d.findings /\ y.kind = d.kind
            /\ y.seen = d.seen /\ y.read = d.read
        BY <1>5, <1>6, Zenon
      <3>2. cmd' = y
        BY <1>3, <2>1
      <3> HIDE DEF y
      <3> QED BY <1>5, <3>1, <3>2 DEF SameSources, SameReading
    <2>2. CASE d.todo # <<>>
      <3>1. cmd' = d
        BY <1>3, <2>2
      <3> QED BY <1>5, <3>1
    <2> QED BY <2>1, <2>2
  <1>8. cmd.kind = "deep" /\ Distinct(cmd.pooled) /\ Range1(cmd.pooled) \cap cmd.seen = {}
        => Distinct(cmd'.pooled) /\ Range1(cmd'.pooled) \cap cmd.seen = {}
    <2>1. cmd'.pooled = p
      BY <1>7
    <2> QED BY <1>4, <2>1
  <1> QED BY <1>7, <1>8 DEF SameSources, SameReading

\* One backend is asked: the next is to be asked, pages were found, or none is left.
LEMMA SearchOutcome ==
  ASSUME WebInv, Search
  PROVE  \/ /\ cmd.backend < Len(Backends)
            /\ cmd' = [cmd EXCEPT !.backend = cmd.backend + 1] /\ answer' = answer
         \/ \E urls \in Seq(Urls) : Found(urls) /\ answer' = answer
         \/ cmd.backend = Len(Backends) /\ Ending("no backend")
  <1> DEFINE b == Backends[cmd.backend]
             q == Head(cmd.todo)
  <1>1. cmd \in Commands /\ cmd.backend \in DOMAIN Backends /\ b \in Range1(Backends)
        /\ q \in Queries
    BY DEF WebInv, WebTypes, InOrder, Search, Commands, Range1
  <1>2. \A links \in Hits[b][q] : Parse(b, links) \in Seq(Urls)
    <2>1. Hits[b][q] \subseteq Seq([url : Urls, is : {"result", "advert", "internal", "untitled"}])
      BY <1>1, WebAssumption DEF WebAssumption
    <2> QED BY <2>1, ParsedLoop
  <1>3. <<>> \in Seq(Urls)
    OBVIOUS
  <1>4. NextBackend \/ \E links \in Hits[b][q] : Found(Parse(b, links)) /\ answer' = answer
    BY DEF Search
  <1>5. CASE NextBackend
    <2>1. CASE cmd.backend < Len(Backends)
      BY <1>5, <2>1 DEF NextBackend
    <2>2. CASE ~ (cmd.backend < Len(Backends))
      <3>1. cmd.backend = Len(Backends)
        BY <1>1, <2>2, WebConstants
      <3> QED BY <1>3, <1>5, <2>2, <3>1 DEF NextBackend, SearchFailed
    <2> QED BY <2>1, <2>2
  <1> QED BY <1>2, <1>4, <1>5

LEMMA SearchStep ==
  ASSUME WebInv, Search
  PROVE  WebInv'
  <1> DEFINE b == Backends[cmd.backend]
  <1>0. /\ cmd # None /\ cmd \in Commands /\ cmd.at = "search" /\ cmd.todo # <<>>
        /\ cmd.backend \in DOMAIN Backends /\ cmd.backend \in Nat /\ b \in Hosts
    <2>1. /\ cmd # None /\ cmd \in Commands /\ cmd.at = "search" /\ cmd.todo # <<>>
          /\ cmd.backend \in DOMAIN Backends
      BY DEF WebInv, WebTypes, InOrder, Search
    <2> QED BY <2>1, WebConstants
  <1>1. /\ UNCHANGED <<mem, day, said, asked, left>>
        /\ tried' = Append(IF cmd.backend = 1 THEN <<>> ELSE tried, b)
    BY DEF Search
  <1>2. limiter' \in [Hosts -> 0 .. Delay] /\ since' \in [Hosts -> Nat] /\ Paced'
    <2>1. CASE UNCHANGED fetcher
      BY <2>1 DEF fetcher, WebInv, WebTypes, Paced, PoliteHosts
    <2>2. CASE \E took \in 0 .. 1 : Fetch(b, b, took)
      BY <1>0, <2>2, FetchStep DEF WebInv
    <2> QED BY <2>1, <2>2 DEF Search
  <1>3. tried' \in Seq(Hosts) /\ TriedBefore(tried', cmd.backend + 1)
    <2> DEFINE before == IF cmd.backend = 1 THEN <<>> ELSE tried
    <2>1. before \in Seq(Hosts) /\ TriedBefore(before, cmd.backend)
      BY <1>0 DEF WebInv, WebTypes, InOrder, TriedBefore
    <2> HIDE DEF before
    <2>2. tried' = Append(before, b)
      BY <1>1 DEF before
    <2> QED BY <1>0, <2>1, <2>2 DEF TriedBefore
  <1>4. CASE /\ cmd.backend < Len(Backends)
             /\ cmd' = [cmd EXCEPT !.backend = cmd.backend + 1] /\ answer' = answer
    <2>1. /\ cmd' \in Commands /\ SameSources(cmd') /\ SameReading(cmd')
          /\ cmd'.pooled = cmd.pooled /\ cmd'.at = cmd.at /\ cmd'.backend = cmd.backend + 1
      BY <1>0, <1>4, NextBackendStep
    <2>2. cmd' # None
      BY <2>1, WebConstants
    <2>3. NeverTwice'
      BY <1>0, <1>1, <2>1 DEF WebInv, NeverTwice, SameReading
    <2>4. InOrder'
      <3>1. cmd'.backend \in DOMAIN Backends
        BY <1>0, <1>4, <2>1, WebConstants
      <3> QED BY <1>0, <1>3, <1>4, <2>1, <2>2, <3>1
              DEF WebInv, InOrder, GivesUpLast, FreshAnswers
    <2>5. Earned'
      BY <1>0, <1>1, <2>1 DEF WebInv, Earned, CorroborationIsEarned, Sourced, SameSources
    <2> QED BY <1>1, <1>2, <1>3, <2>1, <2>3, <2>4, <2>5 DEF WebInv, WebTypes
  <1>5. ASSUME NEW urls \in Seq(Urls), Found(urls), answer' = answer
        PROVE  WebInv'
    <2>1. /\ cmd' \in Commands /\ SameSources(cmd') /\ SameReading(cmd') /\ cmd'.backend = 1
          /\ cmd'.at \in {"search", "read"}
          /\ cmd.kind = "deep" /\ Distinct(cmd.pooled) /\ Range1(cmd.pooled) \cap cmd.seen = {}
             => Distinct(cmd'.pooled) /\ Range1(cmd'.pooled) \cap cmd.seen = {}
      BY <1>0, <1>5, FoundStep
    <2>2. cmd' # None
      BY <2>1, WebConstants
    <2>3. NeverTwice'
      <3> SUFFICES ASSUME cmd.kind = "deep" PROVE NeverTwice'
        BY <2>1 DEF NeverTwice, SameReading
      <3>1. Range1(cmd.pooled) \cap cmd.seen = {} /\ Distinct(cmd.pooled) /\ cmd.read = 0
        <4>1. \A i \in DOMAIN cmd.pooled : i > 0
          BY <1>0 DEF Commands
        <4> QED BY <1>0, <4>1 DEF WebInv, NeverTwice, Range1
      <3>2. Distinct(cmd'.pooled) /\ \A i \in DOMAIN cmd'.pooled : cmd'.pooled[i] \notin cmd.seen
        BY <2>1, <3>1 DEF Range1
      <3> QED BY <1>0, <1>1, <2>1, <3>1, <3>2 DEF WebInv, NeverTwice, SameReading
    <2>4. InOrder'
      <3>1. cmd'.backend \in DOMAIN Backends
        BY <2>1, WebConstants
      <3> QED BY <1>5, <2>1, <2>2, <3>1 DEF WebInv, InOrder, GivesUpLast, FreshAnswers
    <2>5. Earned'
      BY <1>0, <1>1, <2>1 DEF WebInv, Earned, CorroborationIsEarned, Sourced, SameSources
    <2> QED BY <1>1, <1>2, <1>3, <2>1, <2>3, <2>4, <2>5 DEF WebInv, WebTypes
  <1>6. CASE cmd.backend = Len(Backends) /\ Ending("no backend")
    <2>1. cmd' = None /\ answer'.from = "no backend"
      BY <1>6 DEF Ending
    <2>2. tried' = Backends
      <3>1. /\ tried' \in Seq(Hosts) /\ Backends \in Seq(Hosts) /\ Len(tried') = Len(Backends)
            /\ \A i \in DOMAIN tried' : tried'[i] = Backends[i]
        <4>1. \A k \in Nat : (k + 1) - 1 = k
          OBVIOUS
        <4> QED BY <1>0, <1>3, <1>6, <4>1, WebConstants DEF TriedBefore
      <3> QED BY <3>1
    <2> QED BY <1>1, <1>2, <1>3, <2>1, <2>2
            DEF WebInv, WebTypes, NeverTwice, InOrder, GivesUpLast, FreshAnswers, Earned,
                CorroborationIsEarned
  <1> QED BY <1>4, <1>5, <1>6, SearchOutcome

-----------------------------------------------------------------------------
(* Reading                                                                 *)

\* Memory and what is on its way there stay sound when more was said.
LEMMA MoreSaid ==
  ASSUME said \subseteq said'
  PROVE  \A f : Sourced(f) => Sourced(f)'
  BY DEF Sourced

LEMMA ReadFacts ==
  ASSUME WebInv, Read
  PROVE  LET url == cmd.pooled[cmd.read + 1]
         IN  /\ cmd # None /\ cmd \in Commands /\ cmd.at = "read" /\ cmd.read \in Nat
             /\ cmd.read + 1 \in DOMAIN cmd.pooled /\ url \in Urls
             /\ \A claims \in Distilled(url) : claims \in Seq(Claims)
  <1> DEFINE url == cmd.pooled[cmd.read + 1]
  <1>1. /\ cmd # None /\ cmd \in Commands /\ cmd.at = "read" /\ More(cmd)
        /\ cmd.read \in Nat /\ cmd.pooled \in Seq(Urls)
    BY DEF WebInv, WebTypes, Read, Commands
  <1>2. cmd.read < Len(cmd.pooled)
    BY <1>1, WebConstants DEF More, Atmost
  <1>3. cmd.read + 1 \in DOMAIN cmd.pooled /\ url \in Urls
    BY <1>1, <1>2
  <1>4. \A claims \in Distilled(url) : claims \in Seq(Claims)
    <2> HIDE DEF url
    <2> QED BY <1>3, WebConstants DEF Distilled
  <1> QED BY <1>1, <1>3, <1>4

\* The command after one more page, whatever was found on it.
HasRead(c, url) ==
  /\ c \in Commands /\ c.kind = cmd.kind /\ c.at = cmd.at
  /\ c.pooled = cmd.pooled /\ c.findings = cmd.findings /\ c.backend = cmd.backend
  /\ c.read = cmd.read + 1 /\ c.seen = cmd.seen \cup {url}

LEMMA ReadCommand ==
  ASSUME cmd \in Commands, NEW url \in Urls
  PROVE  LET c == [cmd EXCEPT !.read = cmd.read + 1, !.seen = cmd.seen \cup {url}]
         IN  HasRead(c, url) /\ c.claims = cmd.claims /\ c.kept = cmd.kept
  <1>1. PICK n \in Nat, s \in SUBSET Urls : n = cmd.read + 1 /\ s = cmd.seen \cup {url}
    <2>1. cmd.read + 1 \in Nat /\ cmd.seen \cup {url} \in SUBSET Urls
      BY DEF Commands
    <2> QED BY <2>1
  <1> DEFINE c == [cmd EXCEPT !.read = n, !.seen = s]
  <1>2. /\ c \in Commands /\ c.kind = cmd.kind /\ c.at = cmd.at
        /\ c.pooled = cmd.pooled /\ c.findings = cmd.findings /\ c.claims = cmd.claims
        /\ c.kept = cmd.kept /\ c.backend = cmd.backend /\ c.read = n /\ c.seen = s
    BY DEF Commands
  <1>3. c = [cmd EXCEPT !.read = cmd.read + 1, !.seen = cmd.seen \cup {url}]
    BY <1>1
  <1> HIDE DEF c
  <1> QED BY <1>1, <1>2, <1>3 DEF HasRead

LEMMA StoredCommand ==
  ASSUME NEW url, NEW c, HasRead(c, url), NEW k \in SUBSET Facts
  PROVE  LET q == [c EXCEPT !.pages = c.pages + 1, !.kept = k]
         IN  HasRead(q, url) /\ q.claims = c.claims
  <1>1. c.pages + 1 \in Nat
    BY DEF Commands, HasRead
  <1>2. \A n \in Nat :
          LET q == [c EXCEPT !.pages = n, !.kept = k]
          IN  HasRead(q, url) /\ q.claims = c.claims
    BY DEF Commands, HasRead
  <1> QED BY <1>1, <1>2

LEMMA GatheredCommand ==
  ASSUME NEW url, NEW c, HasRead(c, url), NEW l \in Seq(Claims \X Urls)
  PROVE  LET d == [c EXCEPT !.pages = c.pages + 1, !.claims = l]
         IN  HasRead(d, url) /\ d.claims = l
  <1>1. c.pages + 1 \in Nat
    BY DEF Commands, HasRead
  <1>2. \A n \in Nat :
          LET d == [c EXCEPT !.pages = n, !.claims = l]
          IN  HasRead(d, url) /\ d.claims = l
    BY DEF Commands, HasRead
  <1> QED BY <1>1, <1>2

LEMMA Joins ==
  ASSUME NEW S, NEW s \in Seq(S), NEW t \in Seq(S)
  PROVE  /\ s \o t \in Seq(S)
         /\ \A i \in DOMAIN (s \o t) : \/ i \in DOMAIN s /\ (s \o t)[i] = s[i]
                                       \/ \E j \in DOMAIN t : (s \o t)[i] = t[j]
  <1>1. /\ s \o t \in Seq(S) /\ Len(s \o t) = Len(s) + Len(t)
        /\ \A i \in 1 .. Len(s) + Len(t) : (s \o t)[i] = IF i <= Len(s) THEN s[i] ELSE t[i - Len(s)]
    OBVIOUS
  <1>2. ASSUME NEW i \in DOMAIN (s \o t), ~ (i <= Len(s))
        PROVE  \E j \in DOMAIN t : (s \o t)[i] = t[j]
    <2>1. i - Len(s) \in DOMAIN t /\ (s \o t)[i] = t[i - Len(s)]
      BY <1>1, <1>2
    <2> QED BY <2>1
  <1> QED BY <1>1, <1>2

\* A page is read without a claim, or its claims are stored, or gathered.
Learnt ==
  /\ said \subseteq said' /\ mem' \subseteq Facts
  /\ \A f \in mem' : f \in mem \/ (f.conf = 70 /\ Sourced(f)')
  /\ \A i \in DOMAIN cmd'.claims :
       \/ \E j \in DOMAIN cmd.claims : cmd'.claims[i] = cmd.claims[j]
       \/ <<cmd'.claims[i][2], cmd'.claims[i][1]>> \in said'

LEMMA ReadOutcome ==
  ASSUME WebInv, Read
  PROVE  \E url \in Urls :
           /\ url = cmd.pooled[cmd.read + 1] /\ asked' = Append(asked, url)
           /\ \E took \in 0 .. 1 : Fetch(Host[url], url, took)
           /\ HasRead(cmd', url) /\ Learnt
  <1>1. /\ cmd # None /\ cmd \in Commands /\ mem \subseteq Facts
        /\ cmd.question \in Questions /\ day \in Nat /\ cmd.claims \in Seq(Claims \X Urls)
        /\ cmd.kept \in SUBSET Facts
    BY ReadFacts DEF WebInv, WebTypes, Commands
  <1>2. PICK url \in Urls : /\ url = cmd.pooled[cmd.read + 1]
                            /\ \A claims \in Distilled(url) : claims \in Seq(Claims)
    BY ReadFacts
  <1> DEFINE c == [cmd EXCEPT !.read = cmd.read + 1, !.seen = cmd.seen \cup {url}]
  <1>3. /\ \/ cmd' = c /\ UNCHANGED <<said, mem>>
           \/ \E claims \in Distilled(url) :
                /\ said' = said \cup {<<url, claims[i]>> : i \in DOMAIN claims}
                /\ QuickLearns(c, url, claims) \/ DeepLearns(c, url, claims)
        /\ asked' = Append(asked, url) /\ \E took \in 0 .. 1 : Fetch(Host[url], url, took)
    BY <1>2 DEF Read
  <1>4. HasRead(c, url) /\ c.claims = cmd.claims /\ c.kept = cmd.kept
    BY <1>1, ReadCommand
  <1> HIDE DEF c
  <1>5. ASSUME cmd' = c, UNCHANGED <<said, mem>> PROVE HasRead(cmd', url) /\ Learnt
    BY <1>1, <1>4, <1>5 DEF Learnt
  <1>6. ASSUME NEW claims \in Distilled(url), QuickLearns(c, url, claims),
               said' = said \cup {<<url, claims[i]>> : i \in DOMAIN claims}
        PROVE  HasRead(cmd', url) /\ Learnt
    <2> DEFINE facts == {Provenance(url, claims[i]) : i \in DOMAIN claims}
    <2>1. claims \in Seq(Claims) /\ \A i \in DOMAIN claims : claims[i] \in Claims
      BY <1>2
    <2>2. ASSUME NEW f \in facts
          PROVE  f \in Facts /\ f.conf = 70 /\ Sourced(f)'
      <3>1. PICK i \in DOMAIN claims : f = Provenance(url, claims[i])
        OBVIOUS
      <3>2. f \in Facts /\ f.conf = 70 /\ f.sources = {url} /\ f.claim = claims[i]
        BY <1>1, <2>1, <3>1 DEF Provenance, Facts
      <3>3. <<url, claims[i]>> \in said' /\ Alike(claims[i], claims[i])
        BY <1>6 DEF Alike
      <3> QED BY <3>2, <3>3 DEF Sourced
    <2>3. facts \subseteq Facts
      BY <2>2
    <2> HIDE DEF facts
    <2>4. mem' = mem \cup facts /\ cmd' = [c EXCEPT !.pages = c.pages + 1, !.kept = c.kept \cup facts]
      BY <1>6 DEF QuickLearns, facts
    <2>5. c.kept \cup facts \in SUBSET Facts
      BY <1>1, <1>4, <2>3
    <2>6. HasRead(cmd', url) /\ cmd'.claims = cmd.claims
      BY <1>4, <2>4, <2>5, StoredCommand
    <2> QED BY <1>1, <1>6, <2>2, <2>3, <2>4, <2>6 DEF Learnt
  <1>7. ASSUME NEW claims \in Distilled(url), DeepLearns(c, url, claims),
               said' = said \cup {<<url, claims[i]>> : i \in DOMAIN claims}
        PROVE  HasRead(cmd', url) /\ Learnt
    <2> DEFINE new == [i \in DOMAIN claims |-> <<claims[i], url>>]
               l == cmd.claims \o new
    <2>1. claims \in Seq(Claims)
      BY <1>2
    <2>2. /\ new \in Seq(Claims \X Urls)
          /\ \A i \in DOMAIN new : i \in DOMAIN claims /\ new[i] = <<claims[i], url>>
      BY <2>1
    <2>3. \A i \in DOMAIN new : <<new[i][2], new[i][1]>> \in said'
      BY <1>7, <2>2
    <2> HIDE DEF new
    <2>4. /\ l \in Seq(Claims \X Urls)
          /\ \A i \in DOMAIN l : \/ i \in DOMAIN cmd.claims /\ l[i] = cmd.claims[i]
                                 \/ \E j \in DOMAIN new : l[i] = new[j]
      BY <1>1, <2>2, Joins
    <2>5. mem' = mem /\ cmd' = [c EXCEPT !.pages = c.pages + 1, !.claims = c.claims \o new]
      BY <1>7 DEF DeepLearns, new
    <2>6. cmd' = [c EXCEPT !.pages = c.pages + 1, !.claims = l]
      BY <1>4, <2>5
    <2> HIDE DEF l
    <2>7. HasRead(cmd', url) /\ cmd'.claims = l
      <3>1. l \in Seq(Claims \X Urls) /\ HasRead(c, url)
        BY <1>4, <2>4
      <3>2. PICK d : d = [c EXCEPT !.pages = c.pages + 1, !.claims = l] /\ HasRead(d, url) /\ d.claims = l
        BY <3>1, GatheredCommand, Zenon
      <3> QED BY <2>6, <3>2
    <2> QED BY <1>1, <1>7, <2>3, <2>4, <2>5, <2>7 DEF Learnt
  <1> QED BY <1>2, <1>3, <1>5, <1>6, <1>7

\* What memory and the command hold stays sound when it only gains what was said.
LEMMA LearntEarned ==
  ASSUME WebInv, cmd # None, cmd'.findings = cmd.findings, Learnt
  PROVE  Earned'
  <1>1. said \subseteq said' /\ \A f : Sourced(f) => Sourced(f)'
    BY MoreSaid DEF Learnt
  <1>2. CorroborationIsEarned'
    <2> SUFFICES ASSUME NEW f \in mem'
                 PROVE  /\ Sourced(f)'
                        /\ LET n == Cardinality({Site[s] : s \in f.sources})
                           IN (f.conf = 92 => n >= 3) /\ (f.conf = 80 => n >= 2)
      BY DEF CorroborationIsEarned, Sourced
    <2>1. CASE f \in mem
      BY <1>1, <2>1 DEF WebInv, Earned, CorroborationIsEarned, Sourced
    <2>2. CASE f.conf = 70 /\ Sourced(f)'
      BY <2>2
    <2> QED BY <2>1, <2>2 DEF Learnt
  <1>3. \A i \in DOMAIN cmd'.claims : <<cmd'.claims[i][2], cmd'.claims[i][1]>> \in said'
    BY <1>1 DEF WebInv, Earned, Learnt
  <1>4. \A i \in DOMAIN cmd'.findings : Sourced(cmd.findings[i])'
    BY <1>1 DEF WebInv, Earned
  <1> QED BY <1>2, <1>3, <1>4 DEF Earned

LEMMA ReadStep ==
  ASSUME WebInv, Read
  PROVE  WebInv'
  <1>1. /\ cmd # None /\ cmd \in Commands /\ cmd.at = "read" /\ cmd.read \in Nat
        /\ cmd.read + 1 \in DOMAIN cmd.pooled
    BY ReadFacts
  <1>2. PICK url \in Urls :
          /\ url = cmd.pooled[cmd.read + 1] /\ asked' = Append(asked, url)
          /\ \E took \in 0 .. 1 : Fetch(Host[url], url, took)
          /\ HasRead(cmd', url) /\ Learnt
    BY ReadOutcome
  <1>3. UNCHANGED <<day, answer, tried, left>> /\ cmd' # None
    BY <1>2, WebConstants DEF Read, HasRead
  <1>4. limiter' \in [Hosts -> 0 .. Delay] /\ since' \in [Hosts -> Nat] /\ Paced'
    BY <1>2, FetchStep, WebConstants DEF WebInv
  <1>5. WebTypes'
    BY <1>2, <1>3, <1>4 DEF WebInv, WebTypes, HasRead, Learnt
  <1>6. InOrder'
    BY <1>1, <1>2, <1>3 DEF WebInv, InOrder, HasRead, GivesUpLast, FreshAnswers
  <1>7. NeverTwice'
    <2> SUFFICES ASSUME cmd.kind = "deep" PROVE NeverTwice'
      BY <1>2 DEF NeverTwice, HasRead
    <2>1. /\ Range1(asked) \subseteq cmd.seen /\ Distinct(asked) /\ Distinct(cmd.pooled)
          /\ \A i \in DOMAIN cmd.pooled : i > cmd.read => cmd.pooled[i] \notin cmd.seen
          /\ asked \in Seq(Urls)
      BY <1>1 DEF WebInv, WebTypes, NeverTwice
    <2>2. url \notin cmd.seen
      BY <1>1, <1>2, <2>1
    <2>3. Range1(asked') \subseteq cmd.seen \cup {url} /\ Distinct(asked')
      BY <1>2, <2>1, <2>2 DEF Range1, Distinct
    <2>4. \A i \in DOMAIN cmd.pooled : i > cmd.read + 1 => cmd.pooled[i] \notin cmd.seen \cup {url}
      <3> SUFFICES ASSUME NEW i \in DOMAIN cmd.pooled, i > cmd.read + 1
                   PROVE  cmd.pooled[i] \notin cmd.seen /\ cmd.pooled[i] # url
        OBVIOUS
      <3>1. i \in Nat /\ i > cmd.read /\ i # cmd.read + 1
        BY <1>1 DEF Commands
      <3> QED BY <1>1, <1>2, <2>1, <3>1 DEF Distinct
    <2> QED BY <1>1, <1>2, <2>1, <2>3, <2>4 DEF NeverTwice, HasRead
  <1>8. Earned'
    BY <1>1, <1>2, LearntEarned DEF HasRead
  <1> QED BY <1>4, <1>5, <1>6, <1>7, <1>8 DEF WebInv

-----------------------------------------------------------------------------
(* Beginnings and ends                                                     *)

LEMMA BeginStep ==
  ASSUME WebInv, NEW kind, Begin(kind)
  PROVE  /\ Head(left.commands) \in Orders /\ Head(left.commands).kind = kind
         /\ left' \in [commands : Seq(Orders), days : Nat]
         /\ limiter' \in [Hosts -> 0 .. Delay] /\ since' \in [Hosts -> Nat] /\ Paced'
         /\ asked' = <<>> /\ tried' = <<>> /\ UNCHANGED <<mem, day, said>>
  <1>1. /\ left \in [commands : Seq(Orders), days : Nat] /\ left.commands # <<>>
        /\ left' = [left EXCEPT !.commands = Tail(left.commands)]
        /\ Head(left.commands).kind = kind
    BY DEF Begin, WebInv, WebTypes
  <1>2. Head(left.commands) \in Orders /\ Tail(left.commands) \in Seq(Orders)
    <2>1. left.commands \in Seq(Orders)
      BY <1>1
    <2> HIDE DEF Orders
    <2> QED BY <1>1, <2>1
  <1>3. left' \in [commands : Seq(Orders), days : Nat]
    BY <1>1, <1>2
  <1>4. /\ limiter' \in [Hosts -> 0 .. Delay] /\ since' \in [Hosts -> Nat] /\ Paced'
        /\ asked' = <<>> /\ tried' = <<>> /\ UNCHANGED <<mem, day, said>>
    BY WebConstants DEF Begin, Fresh, Paced, PoliteHosts, WebInv
  <1> QED BY <1>1, <1>2, <1>3, <1>4

\* A command that starts has nothing to show for yet.
Starts(c) == /\ c \in Commands /\ c.at = "search" /\ c.backend = 1 /\ c.read = 0
             /\ c.pooled = <<>> /\ c.claims = <<>> /\ c.findings = <<>>

LEMMA BlankCommand ==
  ASSUME NEW kind \in {"quick", "deep"}, NEW q \in Questions, NEW qs \in Seq(Queries)
  PROVE  Starts([Blank EXCEPT !.kind = kind, !.question = q, !.todo = qs])
  <1> DEFINE c == [Blank EXCEPT !.kind = kind, !.question = q, !.todo = qs]
  <1>1. /\ <<>> \in Seq(Urls) /\ <<>> \in Seq(Claims \X Urls) /\ <<>> \in Seq(Findings)
        /\ {} \in SUBSET Urls /\ {} \in SUBSET Facts /\ 0 \in Nat /\ 1 \in Nat
    OBVIOUS
  <1>2. PICK np \in Seq(Urls), nc \in Seq(Claims \X Urls), nf \in Seq(Findings),
             ns \in SUBSET Urls, nk \in SUBSET Facts :
          np = <<>> /\ nc = <<>> /\ nf = <<>> /\ ns = {} /\ nk = {}
    BY <1>1
  <1>3. c = [[kind |-> None, question |-> None, at |-> "search", round |-> 1, todo |-> <<>>,
              backend |-> 1, pooled |-> np, seen |-> ns, read |-> 0,
              pages |-> 0, claims |-> nc, findings |-> nf, kept |-> nk]
             EXCEPT !.kind = kind, !.question = q, !.todo = qs]
    BY <1>2 DEF Blank
  <1>4. /\ c \in Commands /\ c.kind = kind /\ c.at = "search" /\ c.backend = 1 /\ c.read = 0
        /\ c.pooled = np /\ c.claims = nc /\ c.findings = nf
    <2> HIDE DEF c
    <2> QED BY <1>1, <1>3 DEF Commands
  <1> QED BY <1>2, <1>4 DEF Starts

LEMMA StartStep ==
  ASSUME WebInv, Quick \/ Deep
  PROVE  WebInv'
  <1> DEFINE order == Head(left.commands)
  <1>1. PICK kind \in {"quick", "deep"} : Begin(kind) /\ (kind = "deep" <=> ~ Quick)
    BY DEF Quick, Deep
  <1>2. /\ order \in Orders /\ order.kind = kind
        /\ left' \in [commands : Seq(Orders), days : Nat]
        /\ limiter' \in [Hosts -> 0 .. Delay] /\ since' \in [Hosts -> Nat] /\ Paced'
        /\ asked' = <<>> /\ tried' = <<>> /\ UNCHANGED <<mem, day, said>>
    BY <1>1, BeginStep
  <1>3. order.question \in Questions /\ (kind = "quick" => order.query \in Queries)
    BY <1>2 DEF Orders
  <1> HIDE DEF order
  <1>4. CorroborationIsEarned'
    BY <1>2 DEF WebInv, Earned, CorroborationIsEarned
  <1>5. ASSUME NEW qs \in Seq(Queries), answer' = answer,
               cmd' = [Blank EXCEPT !.kind = kind, !.question = order.question, !.todo = qs]
        PROVE  WebInv'
    <2>1. /\ cmd' \in Commands /\ cmd'.at = "search" /\ cmd'.backend = 1 /\ cmd'.read = 0
          /\ cmd'.pooled = <<>> /\ cmd'.claims = <<>> /\ cmd'.findings = <<>>
      <3>1. PICK question \in Questions : question = order.question
        BY <1>3
      <3>2. Starts([Blank EXCEPT !.kind = kind, !.question = question, !.todo = qs])
        BY <3>1, BlankCommand
      <3>3. cmd' = [Blank EXCEPT !.kind = kind, !.question = question, !.todo = qs]
        BY <1>5, <3>1
      <3>4. Starts([Blank EXCEPT !.kind = kind, !.question = question, !.todo = qs]) => Starts(cmd')
        BY <3>3, Zenon
      <3> QED BY <3>2, <3>4 DEF Starts
    <2>2. cmd' # None
      BY <2>1, WebConstants
    <2>3. WebTypes'
      BY <1>2, <2>1 DEF WebInv, WebTypes
    <2>4. NeverTwice'
      BY <1>2, <2>1 DEF NeverTwice, Range1, Distinct
    <2>5. InOrder'
      <3>1. cmd'.backend \in DOMAIN Backends
        BY <2>1, WebConstants
      <3> QED BY <1>5, <2>1, <2>2, <3>1 DEF WebInv, InOrder, GivesUpLast, FreshAnswers
    <2>6. Earned'
      BY <1>4, <2>1 DEF Earned
    <2> QED BY <1>2, <2>3, <2>4, <2>5, <2>6 DEF WebInv
  <1>6. CASE Quick
    <2>1. PICK hits \in SUBSET mem :
            LET fresh == FreshFacts(order.question, hits)
            IN IF fresh # {}
               THEN /\ answer' = [from |-> "memory", question |-> order.question, day |-> day,
                                  facts |-> fresh]
                    /\ cmd' = None
               ELSE /\ cmd' = [Blank EXCEPT !.kind = "quick", !.question = order.question,
                                            !.todo = <<order.query>>]
                    /\ answer' = answer
      BY <1>6 DEF Quick, order
    <2>2. CASE FreshFacts(order.question, hits) = {}
      <3>1. <<order.query>> \in Seq(Queries) /\ kind = "quick"
        BY <1>1, <1>3, <1>6
      <3> QED BY <1>5, <2>1, <2>2, <3>1
    <2>3. CASE FreshFacts(order.question, hits) # {}
      <3>1. /\ cmd' = None /\ answer'.from = "memory" /\ answer'.question = order.question
            /\ answer'.day = day /\ answer'.facts = FreshFacts(order.question, hits)
        BY <2>1, <2>3
      <3>2. FreshAnswers'
        <4> SUFFICES ASSUME NEW f \in FreshFacts(order.question, hits)
                     PROVE  day - f.at <= Ttl[order.question]
          BY <3>1 DEF FreshAnswers
        <4>1. f \in Facts /\ f.at \in Nat /\ day \in Nat /\ ~ (day - f.at > Ttl[order.question])
          BY DEF FreshFacts, Stale, WebInv, WebTypes, Facts
        <4>2. Ttl[order.question] \in Nat
          BY <1>3, WebAssumption DEF WebAssumption
        <4> QED BY <4>1, <4>2
      <3>3. WebTypes'
        BY <1>2, <3>1 DEF WebInv, WebTypes
      <3>4. GivesUpLast'
        BY <3>1 DEF GivesUpLast
      <3>5. NeverTwice' /\ InOrder' /\ Earned'
        BY <1>4, <3>1, <3>2, <3>4 DEF NeverTwice, InOrder, Earned
      <3> QED BY <1>2, <3>3, <3>5 DEF WebInv
    <2> QED BY <2>2, <2>3
  <1>7. CASE ~ Quick
    <2>1. PICK n \in 1 .. QueriesPerRound : \E qs \in [1 .. n -> Queries] :
            /\ cmd' = [Blank EXCEPT !.kind = "deep", !.question = order.question, !.todo = qs]
            /\ answer' = answer
      BY <1>7 DEF Deep, order
    <2>2. PICK qs \in [1 .. n -> Queries] :
            /\ cmd' = [Blank EXCEPT !.kind = "deep", !.question = order.question, !.todo = qs]
            /\ answer' = answer
      BY <2>1
    <2>3. qs \in Seq(Queries) /\ kind = "deep"
      BY <1>1, <1>7, WebConstants
    <2> QED BY <1>5, <2>2, <2>3
  <1> QED BY <1>6, <1>7

\* A command is over, and what it leaves behind is sound.
LEMMA EndStep ==
  ASSUME WebInv, cmd' = None, answer'.from \notin {"memory", "no backend"},
         mem' \subseteq Facts, CorroborationIsEarned',
         UNCHANGED <<fetcher, day, said, asked, tried, left>>
  PROVE  WebInv'
  <1>1. WebTypes' /\ Paced'
    BY DEF WebInv, WebTypes, Paced, PoliteHosts, fetcher
  <1>2. NeverTwice' /\ InOrder' /\ Earned'
    BY DEF NeverTwice, InOrder, Earned, GivesUpLast, FreshAnswers
  <1> QED BY <1>1, <1>2 DEF WebInv

LEMMA QuickEndsStep ==
  ASSUME WebInv, QuickEnds
  PROVE  WebInv'
  <1>1. /\ cmd' = None /\ answer'.from \notin {"memory", "no backend"}
        /\ UNCHANGED <<fetcher, mem, day, said, asked, tried, left>>
    BY DEF QuickEnds, Ending
  <1>2. mem' \subseteq Facts /\ CorroborationIsEarned'
    BY <1>1 DEF WebInv, WebTypes, Earned, CorroborationIsEarned
  <1> QED BY <1>1, <1>2, EndStep

LEMMA DeepEndsStep ==
  ASSUME WebInv, DeepEnds
  PROVE  WebInv'
  <1> DEFINE fact(f) == [claim |-> f.claim, question |-> cmd.question, at |-> day,
                         conf |-> Confidence(f), sources |-> f.sources, first |-> f.first]
             facts == {fact(f) : f \in Range1(cmd.findings)}
  <1>1. /\ cmd # None /\ cmd \in Commands /\ cmd.question \in Questions /\ day \in Nat
        /\ cmd.findings \in Seq(Findings) /\ mem \subseteq Facts
    BY DEF DeepEnds, WebInv, WebTypes, Commands
  <1>2. /\ cmd' = None /\ mem' = mem \cup facts
        /\ answer'.from \notin {"memory", "no backend"}
        /\ UNCHANGED <<fetcher, day, said, asked, tried, left>>
    BY DEF DeepEnds
  <1>3. ASSUME NEW f \in Range1(cmd.findings)
        PROVE  /\ fact(f) \in Facts
               /\ \A s \in f.sources : \E p \in said : p[1] = s /\ Alike(p[2], f.claim)
               /\ (Confidence(f) = 92 => Support(f) >= 3) /\ (Confidence(f) = 80 => Support(f) >= 2)
    <2>1. f \in Findings /\ Sourced(f)
      BY <1>1, <1>3 DEF Range1, WebInv, Earned
    <2>2. /\ Confidence(f) \in {55, 70, 80, 92}
          /\ (Confidence(f) = 92 => Support(f) >= 3) /\ (Confidence(f) = 80 => Support(f) >= 2)
      BY DEF Confidence
    <2>3. fact(f) \in Facts
      <3>1. PICK k \in {55, 70, 80, 92} : k = Confidence(f)
        BY <2>2
      <3> QED BY <1>1, <2>1, <3>1 DEF Facts, Findings
    <2> QED BY <2>1, <2>2, <2>3 DEF Sourced
  <1>4. mem' \subseteq Facts
    BY <1>1, <1>2, <1>3
  <1>5. CorroborationIsEarned'
    <2> SUFFICES ASSUME NEW f \in mem'
                 PROVE  /\ \A s \in f.sources : \E p \in said : p[1] = s /\ Alike(p[2], f.claim)
                        /\ f.conf = 92 => Cardinality({Site[s] : s \in f.sources}) >= 3
                        /\ f.conf = 80 => Cardinality({Site[s] : s \in f.sources}) >= 2
      BY <1>2 DEF CorroborationIsEarned
    <2>1. CASE f \in mem
      BY <2>1 DEF WebInv, Earned, CorroborationIsEarned
    <2>2. CASE f \in facts
      <3>1. PICK g \in Range1(cmd.findings) : f = fact(g)
        BY <2>2
      <3>2. f.sources = g.sources /\ f.claim = g.claim /\ f.conf = Confidence(g)
        BY <3>1
      <3> QED BY <1>3, <3>2 DEF Support
    <2> QED BY <1>2, <2>1, <2>2
  <1> QED BY <1>2, <1>4, <1>5, EndStep

\* The command when a round is over: what it found, and what it asks next.
RoundOver(c, fs) ==
  /\ c \in Commands /\ c.kind = cmd.kind /\ c.backend = cmd.backend /\ c.claims = cmd.claims
  /\ c.findings = fs /\ c.pooled = <<>> /\ c.read = 0 /\ c.seen = cmd.seen

LEMMA RoundCommand ==
  ASSUME cmd \in Commands, NEW fs \in Seq(Findings), NEW at \in {"search", "answer"},
         NEW round \in Nat, NEW qs \in Seq(Queries)
  PROVE  RoundOver([cmd EXCEPT !.findings = fs, !.at = at, !.round = round, !.todo = qs,
                               !.pooled = <<>>, !.read = 0], fs)
  <1>1. PICK none \in Seq(Urls) : none = <<>>
    <2>1. <<>> \in Seq(Urls)
      OBVIOUS
    <2> QED BY <2>1
  <1>2. RoundOver([cmd EXCEPT !.findings = fs, !.at = at, !.round = round, !.todo = qs,
                              !.pooled = none, !.read = 0], fs)
    BY <1>1 DEF Commands, RoundOver
  <1> QED BY <1>1, <1>2

LEMMA RoundEndsStep ==
  ASSUME WebInv, RoundEnds
  PROVE  WebInv'
  <1>1. /\ cmd # None /\ cmd \in Commands /\ cmd.kind = "deep" /\ cmd.at = "read"
        /\ cmd.claims \in Seq(Claims \X Urls) /\ cmd.backend = 1 /\ cmd.round \in Nat
    BY DEF RoundEnds, WebInv, WebTypes, InOrder, Commands
  <1>2. UNCHANGED <<fetcher, mem, day, answer, said, asked, tried, left>>
    BY DEF RoundEnds
  <1>3. PICK embedded \in BOOLEAN, n \in 0 .. 1 : \E qs \in [1 .. n -> Queries] :
          LET fs == Corroborate(cmd.claims, embedded)
              over == cmd.round = Rounds \/ n = 0
          IN cmd' = [cmd EXCEPT !.findings = fs, !.at = IF over THEN "answer" ELSE "search",
                                !.round = IF over THEN cmd.round ELSE cmd.round + 1, !.todo = qs,
                                !.pooled = <<>>, !.read = 0]
    BY DEF RoundEnds
  <1>4. PICK qs \in Seq(Queries), at \in {"search", "answer"}, round \in Nat :
          cmd' = [cmd EXCEPT !.findings = Corroborate(cmd.claims, embedded), !.at = at,
                             !.round = round, !.todo = qs, !.pooled = <<>>, !.read = 0]
    <2>1. \A q \in [1 .. n -> Queries] : q \in Seq(Queries)
      <3>1. n \in Nat
        OBVIOUS
      <3> QED BY <3>1
    <2>2. cmd.round + 1 \in Nat
      BY <1>1
    <2> QED BY <1>1, <1>3, <2>1, <2>2
  <1>5. PICK fs \in Seq(Findings) :
          fs = Corroborate(cmd.claims, embedded) /\ \A i \in DOMAIN fs : Sourced(fs[i])
    <2>1. \A i \in DOMAIN cmd.claims : <<cmd.claims[i][2], cmd.claims[i][1]>> \in said
      BY <1>1 DEF WebInv, Earned
    <2> QED BY <1>1, <2>1, CorroboratedLoop
  <1>6. RoundOver(cmd', fs)
    <2>1. cmd' = [cmd EXCEPT !.findings = fs, !.at = at,
                             !.round = round, !.todo = qs, !.pooled = <<>>, !.read = 0]
      BY <1>4, <1>5
    <2>2. RoundOver([cmd EXCEPT !.findings = fs, !.at = at,
                             !.round = round, !.todo = qs, !.pooled = <<>>, !.read = 0], fs)
      BY <1>1, RoundCommand
    <2> QED BY <2>1, <2>2, Zenon
  <1> USE DEF RoundOver
  <1>7. cmd' # None /\ cmd'.backend \in DOMAIN Backends
    BY <1>1, <1>6, WebConstants
  <1>8. WebTypes' /\ Paced'
    BY <1>2, <1>6 DEF WebInv, WebTypes, Paced, PoliteHosts, fetcher
  <1>9. NeverTwice'
    BY <1>1, <1>2, <1>6 DEF WebInv, NeverTwice, Distinct, Range1
  <1>10. InOrder'
    BY <1>1, <1>2, <1>6, <1>7 DEF WebInv, InOrder, GivesUpLast, FreshAnswers
  <1>11. Earned'
    <2>1. CorroborationIsEarned'
      BY <1>2 DEF WebInv, Earned, CorroborationIsEarned
    <2>2. \A i \in DOMAIN cmd'.claims : <<cmd'.claims[i][2], cmd'.claims[i][1]>> \in said'
      BY <1>1, <1>2, <1>6 DEF WebInv, Earned
    <2>3. (\A i \in DOMAIN cmd.findings : Sourced(cmd.findings[i]))'
      BY <1>2, <1>5, <1>6 DEF Sourced
    <2> QED BY <2>1, <2>2, <2>3 DEF Earned
  <1> QED BY <1>8, <1>9, <1>10, <1>11 DEF WebInv

LEMMA NightStep ==
  ASSUME WebInv, Night
  PROVE  WebInv'
  <1>1. /\ cmd = None /\ cmd' = None /\ day' = day + 1 /\ day \in Nat
        /\ left' = [left EXCEPT !.days = left.days - 1] /\ left.days > 0
        /\ left \in [commands : Seq(Orders), days : Nat]
        /\ UNCHANGED <<fetcher, mem, answer, said, asked, tried>>
    BY DEF Night, WebInv, WebTypes
  <1>2. left' \in [commands : Seq(Orders), days : Nat]
    <2>1. left.days \in Nat /\ left.days - 1 \in Nat
      BY <1>1
    <2> HIDE DEF Orders
    <2> QED BY <1>1, <2>1
  <1>3. WebTypes' /\ Paced'
    BY <1>1, <1>2 DEF WebInv, WebTypes, Paced, PoliteHosts, fetcher
  <1>4. NeverTwice' /\ InOrder' /\ Earned'
    BY <1>1 DEF WebInv, NeverTwice, InOrder, Earned, GivesUpLast, FreshAnswers,
                CorroborationIsEarned
  <1> QED BY <1>3, <1>4 DEF WebInv

LEMMA InitWebInv == Init => WebInv
  <1> SUFFICES ASSUME Init PROVE WebInv
    OBVIOUS
  <1>1. WebTypes /\ Paced
    BY WebAssumption DEF Init, WebTypes, WebAssumption, Paced, PoliteHosts, Fresh
  <1>2. NeverTwice /\ InOrder /\ Earned
    BY DEF Init, NeverTwice, InOrder, Earned, GivesUpLast, FreshAnswers, CorroborationIsEarned
  <1> QED BY <1>1, <1>2 DEF WebInv

LEMMA NextWebInv == WebInv /\ [Next]_vars => WebInv'
  <1> SUFFICES ASSUME WebInv, [Next]_vars PROVE WebInv'
    OBVIOUS
  <1>1. CASE UNCHANGED vars
    BY <1>1, ZenonT(60) DEF vars, WebInv, WebTypes, Paced, PoliteHosts, NeverTwice, InOrder, Earned,
                GivesUpLast, FreshAnswers, CorroborationIsEarned, Sourced
  <1>2. CASE Next
    BY <1>2, StartStep, SearchStep, ReadStep, QuickEndsStep, RoundEndsStep, DeepEndsStep, NightStep
       DEF Next
  <1> QED BY <1>1, <1>2

-----------------------------------------------------------------------------
(* Theorems                                                                *)

\* For any pages and hosts and however long requests take: page requests of a command to one
\* host are at least Delay apart (RateLimiter.wait).
THEOREM HostsAreSpared == Spec => []PoliteHosts
  <1>1. WebInv => PoliteHosts
    BY DEF WebInv, Paced
  <1> QED BY <1>1, InitWebInv, NextWebInv, PTL DEF Spec

\* For any claims, scores and threshold, and any number of commands: every source a stored
\* fact names said something to its effect, and a confidence of 92 or 80 has as many sites
\* behind it (corroborate, Finding.support, remember).
THEOREM ConfidenceIsEarned == Spec => []CorroborationIsEarned
  <1>1. WebInv => CorroborationIsEarned
    BY DEF WebInv, Earned
  <1> QED BY <1>1, InitWebInv, NextWebInv, PTL DEF Spec

\* For any backends, queries, results, rounds and budgets: a deep run fetches no page twice,
\* an answer from memory is as fresh as its question demands, and no search is given up
\* before every backend was tried (gather, check_memory, search).
THEOREM NothingReadTwice == Spec => []ReadingIsCareful
  <1>1. WebInv => ReadingIsCareful
    BY DEF WebInv, WebTypes, NeverTwice, InOrder, Distinct, ReadingIsCareful, ReadOnce
  <1> QED BY <1>1, InitWebInv, NextWebInv, PTL DEF Spec
==============================================================================
