----------------------------- MODULE MCReaders ------------------------------
(***************************************************************************)
(* TLC instance of Readers.                                                 *)
(***************************************************************************)
EXTENDS Readers, TLC

CONSTANTS s1, s2, w1, w2, b1, b2, p1, p2, l1, l2, o1, o2, o3

\* Two sessions of two wallets, their bids of one provider on two models.
UserChoice   == (s1 :> w1) @@ (s2 :> w2)
BidChoice    == (s1 :> b1) @@ (s2 :> b2)
StakeChoice  == (s1 :> 1) @@ (s2 :> 2)
TermChoice   == (s1 :> 1) @@ (s2 :> 1)
SellerChoice == (b1 :> p1) @@ (b2 :> p1)
ModelChoice  == (b1 :> l1) @@ (b2 :> l2)

\* A bid, the one that replaces it, and one on a second model.
MakerChoice   == (o1 :> p1) @@ (o2 :> p1) @@ (o3 :> p1)
OfferedChoice == (o1 :> l1) @@ (o2 :> l1) @@ (o3 :> l2)
AskChoice     == (o1 :> 1) @@ (o2 :> 2) @@ (o3 :> 1)

Name(org, word, joint, caps, rank) ==
  [org |-> org, word |-> word, joint |-> joint, caps |-> caps, rank |-> rank]

\* Two spellings of one model, and a third whose slug is the same and whose key is not.
SpeltNames   == {Name("", "kimi", " ", TRUE, 1), Name("slash", "kimi", "-", FALSE, 3),
                 Name("", "kimi", "+", FALSE, 2)}
CuratedNames == {Name("", "kimi", "+", TRUE, 2), Name("word", "glm", " ", TRUE, 4)}

\* One wallet holds all, or two share it: a meaningful balance, and dust.
Holdings == {<<2, 0, 0>>, <<0, 1, 1>>}
=============================================================================
