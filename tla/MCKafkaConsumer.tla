-------------------------- MODULE MCKafkaConsumer --------------------------
(* Small instances of KafkaConsumer for TLC. *)
EXTENDS KafkaConsumer, TLC

CONSTANTS c1, c2, p1, p2

(* The first record of p1 never decodes. *)
FirstIsPoison == {<<p1, 0>>}

ConsumerSymmetry == Permutations(Consumers)
=============================================================================
