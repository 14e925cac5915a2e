--------------------------- MODULE MCWebResearch ---------------------------
(* A small web for TLC: three sites, one of them under two names and one   *)
(* with a page that redirects to another site's.                           *)
EXTENDS WebResearch

MCUrls == {"a1", "a2", "a3", "b1", "c1"}
MCSite == [a1 |-> "a", a2 |-> "a", a3 |-> "a", b1 |-> "b", c1 |-> "c"]
MCHost == [a1 |-> "a", a2 |-> "www.a", a3 |-> "a", b1 |-> "b", c1 |-> "c"]
MCLands == [u \in MCUrls |-> IF u = "c1" THEN {"c1", "b1"} ELSE {u}]
MCBackends == <<"ddg", "bing">>

R(url) == [url |-> url, is |-> "result"]
MCHits == [ddg |-> [q1 |-> {<<>>, <<R("a1"), R("a2"), R("b1")>>},
                    q2 |-> {<<R("a3"), R("a1"), R("c1")>>, <<[url |-> "a1", is |-> "untitled"]>>}],
           bing |-> [q1 |-> {<<[url |-> "c1", is |-> "advert"], R("b1"), R("b1")>>}, q2 |-> {<<>>}]]
MCScore == [p \in Claims \X Claims |->
              CASE p[1] = p[2] -> 100
                [] p \in {<<"x", "y">>, <<"y", "x">>} -> 90
                [] OTHER -> 50]
MCSays == [a1 |-> <<"x">>, a2 |-> <<"y", "z">>, a3 |-> <<"z">>, b1 |-> <<"y">>, c1 |-> <<>>]
MCTtl == [who |-> 2, latest |-> 1]

C(kind, question, query) == [kind |-> kind, question |-> question, query |-> query]

MCBudgets == {
  [commands |-> <<C("deep", "who", None)>>, days |-> 0],
  [commands |-> <<C("deep", "who", None), C("quick", "latest", "q1")>>, days |-> 2],
  [commands |-> <<C("quick", "who", "q1"), C("quick", "latest", "q2")>>, days |-> 3]}
=============================================================================
