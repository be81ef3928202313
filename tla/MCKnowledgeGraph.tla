-------------------------- MODULE MCKnowledgeGraph --------------------------
(***************************************************************************)
(* Instances of KnowledgeGraph for TLC: two documents, of which one is the *)
(* tenant's; two wordings of one fact, and noise.                          *)
(***************************************************************************)
EXTENDS KnowledgeGraph, TLC

TheSays == [d \in Docs |-> IF d = 1 THEN {"a1", "b"} ELSE {"a2", "noise"}]
TheMeans == "a1" :> "a" @@ "a2" :> "a" @@ "b" :> "b" @@ "noise" :> None
=============================================================================
