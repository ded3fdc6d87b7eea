---------------------------- MODULE MCKvServer -----------------------------
(* Instances of KvServer for TLC. *)
EXTENDS KvServer

NoTerminator == <<>>
Line         == <<Newline>>

\* Connections are alike: nothing in the model orders them.
Alike == Permutations(Conn)
=============================================================================
