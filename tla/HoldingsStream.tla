--------------------------- MODULE HoldingsStream ---------------------------
(***************************************************************************)
(* LivePositions and the SSE generator stream_events that pushes it to the *)
(* open pages (app/core/live_positions.py, GET /stream/holdings).          *)
(*                                                                         *)
(* Producers are the broker adapters: the streaming one sets rows one at a *)
(* time, the polling ones replace all the rows of their broker.  Consumers *)
(* are the clients of /stream/holdings: they share one asyncio.Event, the  *)
(* generator of each awaits it, sleeps off the throttle, compares the      *)
(* hashes of all rows with those it last sent and yields when they differ. *)
(***************************************************************************)
EXTENDS Naturals

CONSTANTS
    Brokers,   \* the first component of a row's key
    Symbols,   \* the rest of the key: account and canonical symbol
    Hashed,    \* values of the fields hash_position covers
    Unhashed,  \* values of the displayed fields it does not cover
    Clients    \* open pages

VARIABLES
    rows,     \* _positions: from keys to positions
    changed,  \* the flag of the Event _changed
    woken,    \* waiters of the Event whose future is resolved
    pc,       \* where each client's generator is suspended
    sent      \* the rows last rendered to each client (hence last_hashes)

vars == <<rows, changed, woken, pc, sent>>

Keys == Brokers \X Symbols

Position == [hashed : Hashed, unhashed : Unhashed]

RowsOver(K) == UNION {[D -> Position] : D \in SUBSET K}

NoRows == [k \in {} |-> 0]

(* hash_position of every row; SHA-1 is taken as injective on the payload.  *)
Hashes(r) == [k \in DOMAIN r |-> r[k].hashed]

Waiting == {c \in Clients : pc[c] = "waiting"}

TypeOK ==
    /\ rows \in RowsOver(Keys)
    /\ changed \in BOOLEAN
    /\ woken \subseteq Waiting
    /\ pc \in [Clients -> {"closed", "sending", "waiting", "throttling"}]
    /\ sent \in [Clients -> RowsOver(Keys)]

Init ==
    /\ rows = NoRows
    /\ changed = FALSE
    /\ woken = {}
    /\ pc = [c \in Clients |-> "closed"]
    /\ sent = [c \in Clients |-> NoRows]

-----------------------------------------------------------------------------
(* Producers.                                                               *)

(* Mutation of Notify: only the flag of the Event is set.                   *)
NotifyNobody ==
    /\ changed' = TRUE
    /\ UNCHANGED woken

(* Event.set(): the flag, and the future of every present waiter.           *)
Notify ==
    /\ changed' = TRUE
    /\ woken' = Waiting

SetPosition(k, p) ==
    /\ ~(k \in DOMAIN rows /\ rows[k] = p)
    /\ rows' = [x \in DOMAIN rows \cup {k} |-> IF x = k THEN p ELSE rows[x]]
    /\ Notify
    /\ UNCHANGED <<pc, sent>>

ReplaceAll(new) ==
    /\ new # rows
    /\ rows' = new
    /\ Notify
    /\ UNCHANGED <<pc, sent>>

(* The rows of the other brokers stay, those of b become "new".             *)
Merged(b, new) ==
    [x \in {k \in DOMAIN rows : k[1] # b} \cup DOMAIN new |->
        IF x \in DOMAIN new THEN new[x] ELSE rows[x]]

ReplaceBroker(b, new) ==
    /\ Merged(b, new) # rows
    /\ rows' = Merged(b, new)
    /\ Notify
    /\ UNCHANGED <<pc, sent>>

-----------------------------------------------------------------------------
(* The generator of client c.                                               *)

(* The client connects: the snapshot is rendered and yielded.               *)
Open(c) ==
    /\ pc[c] = "closed"
    /\ pc' = [pc EXCEPT ![c] = "sending"]
    /\ sent' = [sent EXCEPT ![c] = rows]
    /\ UNCHANGED <<rows, changed, woken>>

(* The page goes away; the generator is cancelled where it is suspended.    *)
Close(c) ==
    /\ pc[c] # "closed"
    /\ pc' = [pc EXCEPT ![c] = "closed"]
    /\ sent' = [sent EXCEPT ![c] = NoRows]
    /\ woken' = woken \ {c}
    /\ UNCHANGED <<rows, changed>>

(* The top of the loop, wait_for_change(): with the flag set, wait()        *)
(* returns at once and the flag is cleared; otherwise the client suspends.  *)
AwaitChange(c) ==
    /\ changed' = FALSE
    /\ pc' = [pc EXCEPT ![c] = IF changed THEN "throttling" ELSE "waiting"]

(* Mutation of Sent: the Event is cleared when the generator resumes.       *)
SentThenCleared(c) ==
    /\ pc[c] = "sending"
    /\ changed' = FALSE
    /\ pc' = [pc EXCEPT ![c] = "waiting"]
    /\ UNCHANGED <<rows, woken, sent>>

(* The yielded event has been sent and the generator is resumed.            *)
Sent(c) ==
    /\ pc[c] = "sending"
    /\ AwaitChange(c)
    /\ UNCHANGED <<rows, woken, sent>>

(* The waiter resumes: wait_for_change() clears the flag and returns.       *)
Wake(c) ==
    /\ c \in woken
    /\ changed' = FALSE
    /\ woken' = woken \ {c}
    /\ pc' = [pc EXCEPT ![c] = "throttling"]
    /\ UNCHANGED <<rows, sent>>

(* Mutation of Heartbeat: the cancelled waiter stays registered.            *)
HeartbeatKeepsWaiter(c) ==
    /\ pc[c] = "waiting"
    /\ pc' = [pc EXCEPT ![c] = "sending"]
    /\ UNCHANGED <<rows, changed, woken, sent>>

(* wait_for times out, maybe in the very iteration that resolved the future: *)
(* the wait is cancelled before it clears the flag; a heartbeat is yielded. *)
Heartbeat(c) ==
    /\ pc[c] = "waiting"
    /\ woken' = woken \ {c}
    /\ pc' = [pc EXCEPT ![c] = "sending"]
    /\ UNCHANGED <<rows, changed, sent>>

(* The throttle is over: a "positions" event if the hashes differ.          *)
Push(c) ==
    /\ pc[c] = "throttling"
    /\ Hashes(rows) # Hashes(sent[c])
    /\ sent' = [sent EXCEPT ![c] = rows]
    /\ pc' = [pc EXCEPT ![c] = "sending"]
    /\ UNCHANGED <<rows, changed, woken>>

NothingNew(c) ==
    /\ pc[c] = "throttling"
    /\ Hashes(rows) = Hashes(sent[c])
    /\ AwaitChange(c)
    /\ UNCHANGED <<rows, woken, sent>>

-----------------------------------------------------------------------------
Produce ==
    \/ \E k \in Keys, p \in Position : SetPosition(k, p)
    \/ \E new \in RowsOver(Keys) : ReplaceAll(new)
    \/ \E b \in Brokers : \E new \in RowsOver({b} \X Symbols) : ReplaceBroker(b, new)

ClientStep(c) ==
    \/ Sent(c)
    \/ Wake(c)
    \/ Heartbeat(c)
    \/ Push(c)
    \/ NothingNew(c)

Next ==
    \/ Produce
    \/ \E c \in Clients : Open(c)
    \/ \E c \in Clients : Close(c)
    \/ \E c \in Clients : ClientStep(c)

(* The event loop runs every generator that can go on.  Pages come and go,  *)
(* and rows change, as they please.                                         *)
Spec == Init /\ [][Next]_vars /\ \A c \in Clients : WF_vars(ClientStep(c))

-----------------------------------------------------------------------------
(* Properties.                                                              *)

UpToDate(c) == Hashes(sent[c]) = Hashes(rows)

(* The docstring of wait_for_change: "Block until at least one change has   *)
(* happened since the last call".  A client that is suspended with nothing  *)
(* to resume it has been sent the hashed fields of the current rows: the    *)
(* changes that came while it was rendering, sending or throttled count.    *)
NoLostWakeup ==
    \A c \in Clients : pc[c] = "waiting" /\ c \notin woken => UpToDate(c)

(* Every change of a hashed field reaches every open page, unless it is     *)
(* reverted first or the page is closed.                                    *)
ChangesDelivered ==
    \A c \in Clients :
        pc[c] # "closed" /\ ~UpToDate(c) ~> pc[c] = "closed" \/ UpToDate(c)

=============================================================================
