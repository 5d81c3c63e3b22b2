---------------------------- MODULE AtomicStore ----------------------------
(***************************************************************************)
(* What a store of trusted devices promises: a set that changes by one     *)
(* requested operation at a time, and keeps what it has when nobody asks.  *)
(***************************************************************************)
VARIABLES trusted,  \* the devices in the store
          wanted    \* the operations that are under way: [op, peer]

Effect(w) ==
  CASE w.op = "upsert" -> trusted \cup {w.peer}
    [] w.op = "remove" -> trusted \ {w.peer}

Apply == \E w \in wanted : trusted' = Effect(w)

StoreNext == Apply \/ UNCHANGED trusted
=============================================================================
