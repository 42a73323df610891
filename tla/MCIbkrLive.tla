----------------------------- MODULE MCIbkrLive -----------------------------
(***************************************************************************)
(* Instances of IbkrLive: "nas" is streamed, "tse" is listed where quotes  *)
(* need a permission.  One account may hold both, either, or two accounts  *)
(* the gated one.                                                          *)
(***************************************************************************)
EXTENDS IbkrLive

CONSTANTS u1, u2, nas, tse

MCDisjoint == {<<u1, nas>>, <<u1, tse>>}
MCShared == {<<u1, tse>>, <<u2, tse>>}

(* Valuations with a market price, one that says nothing, and one of a      *)
(* worthless holding without a market price.                                *)
MCTwoItems == {[price |-> 2, worth |-> 2], [price |-> 0, worth |-> None]}
MCItems == MCTwoItems \cup {[price |-> 0, worth |-> 0]}

(* Bound on the days: midnights pass only where "tse" was never held.       *)
StreamedAlone ==
    /\ mark[<<u1, tse>>] = None
    /\ tse \notin named
    /\ cache[tse] = None /\ missed[tse] = None

MCSpec == Init /\ [][Next /\ (day' > 0 => StreamedAlone')]_vars

(* The close of every other day is the same.                                *)
MCCloseOf == [d \in 0..MaxDay |-> 1 + (d % 2)]

=============================================================================
