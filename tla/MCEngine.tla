------------------------------ MODULE MCEngine ------------------------------
(* Two workers, two cards, one caller of each kind and an invalid batch. *)
EXTENDS Engine, TLC

CONSTANTS b, s, h, bad, w1, w2, hot, cold, t1, t2, t3, t4, t5, t6, t7, t8, t9

MCWork == (b :> <<t1, t2, t3>>) @@ (s :> <<t4>>) @@ (h :> <<t5, t6, t7>>) @@ (bad :> <<t8, t9>>)
MCCardOf == [t \in Txs |-> IF t \in {t3, t6, t9} THEN cold ELSE hot]
MCHashOf == (hot :> w1) @@ (cold :> w2)
MCCapacity == (w1 :> 2) @@ (w2 :> 1)
=============================================================================
