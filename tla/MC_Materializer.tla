--------------------------- MODULE MC_Materializer ---------------------------
(* TLC instance of Materializer: a four-byte element buffer (the code's is *)
(* 1024) so that an element longer than three characters is cut, datums   *)
(* nested two deep with two elements, and one text per scalar type shaped *)
(* like what the backend sends, plus timestamps with a short fraction and  *)
(* with none.                                                              *)
EXTENDS Materializer

MCTextsOf ==
  [t \in ScalarTypes |->
     CASE t = "STRING"    -> {"a", "abcd"}
       [] t = "DOUBLE"    -> {"515.0"}
       [] t = "BOOLEAN"   -> {"true", "false"}
       [] t = "INT"       -> {"42"}
       [] t = "TIMESTAMP" -> {"2022-11-09 23:52:51.554000000",
                              "2022-11-09 23:52:51.5",
                              "2022-11-09 23:52:51"}
       [] OTHER           -> {"x"}]

MCEpochOf == [d \in {"2022-11-09 23:52:51"} |-> 1668037971]

MCUninitialized == {-1, 32767}
=============================================================================
