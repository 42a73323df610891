--------------------------- MODULE IbkrLiveProofs ---------------------------
(***************************************************************************)
(* Proofs about IbkrLive, for any accounts, holdings, prices and days.     *)
(* The rows have six writers; the invariants say what each may assume of   *)
(* the rows, of the entries of _streaming and of the positions that        *)
(* _start_streaming still has to write.                                    *)
(***************************************************************************)
EXTENDS IbkrLive, TLAPS

(* Where connect() awaits there is what it goes on with, and the state is   *)
(* RECONNECTING all along.                                                  *)
ConnectInv ==
    /\ phase \in {"dialled", "closes", "seeding"} => state = "RECONNECTING"
    /\ phase = "closes" => call \in Calls
    /\ phase = "seeding" => current \in Positions

(* An entry is filed under its contract, and it has a row.                  *)
EntriesInv ==
    /\ \A c \in Streamed :
          streaming[c].key[2] = c /\ rows[streaming[c].key] # None
    /\ phase = "seeding" => rows[current.key] # None

(* Only holdings whose name is cached have or get a row.                    *)
NamesInv ==
    /\ \A k \in Holdings : rows[k] # None => k[2] \in named
    /\ \A p \in todo : p.key[2] \in named

(* Nothing that is yet to be written is stale; of what a session was told   *)
(* of, the rows that are stale while it is being seeded are still to be     *)
(* written, and afterwards none is stale.                                   *)
FreshInv ==
    /\ \A p \in todo : ~p.stale
    /\ phase = "seeding" => ~current.stale
    /\ \A c \in Streamed : ~streaming[c].stale
    /\ phase = "seeding" =>
          \A k \in listed : rows[k] # None /\ rows[k].stale =>
                               \E p \in todo : p.key = k
    /\ state = "CONNECTED" =>
          \A k \in Keys : rows[k] # None /\ rows[k].stale =>
                             k \in Holdings \ listed

LiveInv == TypeOK /\ ConnectInv /\ EntriesInv /\ NamesInv /\ FreshInv

(* No contract is held by two accounts.                                     *)
OneHolder == \A j, k \in Holdings : j[2] = k[2] => j = k

(* The contracts being seeded have no entry yet, each has one position, and *)
(* the row of the one being looked up is that position if it shows a live   *)
(* price.                                                                   *)
SeedInv ==
    /\ phase \in {"dialled", "closes"} => Streamed = {}
    /\ phase = "seeding" =>
          /\ \A p \in todo : /\ streaming[p.key[2]] = None
                             /\ p.key # current.key
                             /\ \A q \in todo : p.key = q.key => p = q
          /\ streaming[current.key[2]] = None
          /\ rows[current.key].src = "live" /\ ~rows[current.key].stale =>
                rows[current.key] = current

StreamInv == LiveInv /\ SeedInv /\ RowsFollowStream

-----------------------------------------------------------------------------
(* Facts about the operators.                                               *)

(* The key of a cash row is no holding, and None is no row.                 *)
LEMMA KeyFacts ==
    /\ None \notin Positions /\ None \notin CashPositions /\ None \notin Int
    /\ \A a \in Accounts : <<a, Cash>> \notin Holdings
    /\ Holdings \subseteq Keys /\ \A a \in Accounts : <<a, Cash>> \in Keys
    /\ \A k \in Holdings : k[2] \in Contracts
    /\ \A p \in Positions : p.key \in Holdings
    /\ \A p \in CashPositions :
          p.key \in Keys /\ p.key \notin Holdings /\ ~p.stale
  <1>1. None \notin Positions /\ None \notin CashPositions /\ None \notin Int
    BY NoneAssumption
  <1>2. /\ \A a \in Accounts : <<a, Cash>> \notin Holdings
        /\ Holdings \subseteq Keys /\ \A a \in Accounts : <<a, Cash>> \in Keys
        /\ \A k \in Holdings : k[2] \in Contracts
    BY HoldingsAssumption, CashAssumption DEF Keys
  <1>3. \A p \in Positions : p.key \in Holdings
    BY DEF Positions
  <1>4. \A p \in CashPositions :
           p.key \in Keys /\ p.key \notin Holdings /\ ~p.stale
    BY <1>2 DEF CashPositions, CashPosition
  <1> QED
    BY <1>1, <1>2, <1>3, <1>4

(* The rows by their keys: a holding's is a position, and the rest is cash, *)
(* which is never stale.                                                    *)
LEMMA RowFacts ==
    ASSUME TypeOK, NEW k \in Keys, rows[k] # None
    PROVE  /\ rows[k].key = k
           /\ k \in Holdings => rows[k] \in Positions
           /\ k \notin Holdings => rows[k] \in CashPositions /\ ~rows[k].stale
  BY KeyFacts DEF TypeOK

(* What the fetchers return is a day that is not in the future.             *)
LEMMA FetchedFacts ==
    ASSUME NEW k \in Calls, NEW fresh \in Fetched(k), day \in Days,
           NEW c \in Contracts
    PROVE  /\ CloseDay(k, fresh, c) \in Days \cup {None}
           /\ c \in k.misses /\ fresh[c] # None =>
                 fresh[c] \in Days /\ fresh[c] >= k.today
  <1>1. /\ k.today \in Days /\ k.found[c] \in Days \cup {None}
        /\ k.misses \subseteq Contracts
    BY DEF Calls
  <1>2. k.today..day \subseteq Days /\ \A x \in k.today..day : x >= k.today
    BY <1>1, MaxDayAssumption DEF Days
  <1>3. c \in k.misses => fresh[c] \in {None} \cup k.today..day
    BY DEF Fetched
  <1> QED
    BY <1>1, <1>2, <1>3 DEF CloseDay

(* _fetch_previous_closes_cached keeps its caches of their types.           *)
LEMMA CachedType ==
    ASSUME NEW k \in Calls, NEW fresh \in Fetched(k), TypeOK, Cached(k, fresh)
    PROVE  /\ cache' \in [Contracts -> {None} \cup [label : Days, of : Days]]
           /\ missed' \in [Contracts -> {None} \cup Days]
  <1>1. k.today \in Days /\ day \in Days
    BY DEF Calls, TypeOK
  <1>2. \A c \in Contracts : c \in k.misses /\ fresh[c] # None =>
           [label |-> k.today, of |-> fresh[c]] \in [label : Days, of : Days]
    BY <1>1, FetchedFacts
  <1>3. cache' \in [Contracts -> {None} \cup [label : Days, of : Days]]
    BY <1>2 DEF Cached, TypeOK
  <1>4. missed' \in [Contracts -> {None} \cup Days]
    BY <1>1 DEF Cached, TypeOK
  <1> QED
    BY <1>3, <1>4

(* A lookup in the caches gives a well-formed call.                         *)
LEMMA LookupType ==
    ASSUME TypeOK, NEW cs \in SUBSET Contracts
    PROVE  Lookup(cs) \in Calls
  <1>1. \A c \in Contracts : cache[c] # None => cache[c].of \in Days
    BY DEF TypeOK
  <1> QED
    BY <1>1 DEF Lookup, Calls, TypeOK

(* A position just built has the key of its holding and is not stale.       *)
LEMMA PositionFacts ==
    ASSUME NEW k \in Holdings, NEW quote \in Prices \cup {0},
           NEW item \in {None} \cup (Holdings \X Items),
           NEW prev \in Days \cup {None}
    PROVE  /\ Position(k, quote, item, prev) \in Positions
           /\ Position(k, quote, item, prev).key = k
           /\ Position(k, quote, item, prev).stale = FALSE
  <1> DEFINE p(src, price, of) ==
                [key |-> k, src |-> src, price |-> price, stale |-> FALSE,
                 prev |-> prev, of |-> of]
             priced == item # None /\ DisplayPrice(item[2]) # None
  <1>1. ASSUME NEW src \in Sources, NEW price \in Prices \cup {0},
               NEW of \in Holdings
        PROVE  p(src, price, of) \in Positions /\ p(src, price, of).key = k
               /\ p(src, price, of).stale = FALSE
    BY DEF Positions
  <1>2. priced => item[1] \in Holdings /\ DisplayPrice(item[2]) \in Prices \cup {0}
    <2>1. priced => item[1] \in Holdings
                    /\ item[2] \in [price : Prices \cup {0},
                                    worth : Prices \cup {0, None}]
      BY ItemsAssumption
    <2> QED
      BY <2>1 DEF DisplayPrice
  <1>3. prev # None => CloseOf[prev] \in Prices
    BY CloseOfAssumption DEF Days
  <1>4. \/ Position(k, quote, item, prev) = p("live", quote, k)
        \/ /\ priced
           /\ Position(k, quote, item, prev)
                = p("mark", DisplayPrice(item[2]), item[1])
        \/ /\ prev # None
           /\ Position(k, quote, item, prev) = p("close", CloseOf[prev], k)
        \/ Position(k, quote, item, prev) = p("none", 0, k)
    BY DEF Position
  <1> QED
    BY <1>1, <1>2, <1>3, <1>4 DEF Sources

(* A row that takes a mark keeps its key, and loses its dimming if it       *)
(* changes.                                                                 *)
LEMMA MarkedFacts ==
    ASSUME NEW row \in Positions, NEW k \in Holdings, NEW item \in Items,
           NEW new \in Marked(row, k, item)
    PROVE  /\ new \in Positions /\ new.key = row.key
           /\ new # row => ~new.stale /\ new.src = "mark"
  <1>1. item \in [price : Prices \cup {0}, worth : Prices \cup {0, None}]
    BY ItemsAssumption
  <1>2. DisplayPrice(item) \in Prices \cup {0, None}
    BY <1>1 DEF DisplayPrice
  <1> DEFINE price == DisplayPrice(item)
             marked == [row EXCEPT !.src = "mark", !.stale = FALSE, !.of = k,
                           !.price = IF price = None THEN @ ELSE price]
  <1>3. new = row \/ new = marked
    BY DEF Marked
  <1>4. marked \in Positions /\ marked.key = row.key /\ ~marked.stale
        /\ marked.src = "mark"
    BY <1>2 DEF Positions, Sources
  <1> QED
    BY <1>3, <1>4

(* A tick's position.                                                       *)
LEMMA TickedFacts ==
    ASSUME NEW old \in Positions, NEW price \in Prices
    PROVE  LET new == [old EXCEPT !.src = "live", !.price = price,
                                  !.stale = FALSE, !.of = old.key]
           IN  new \in Positions /\ new.key = old.key /\ ~new.stale
  BY DEF Positions, Sources

(* The for loop of _start_streaming writes one row of a holding, or the     *)
(* rows of cash.                                                            *)
LEMMA SeedNextFacts ==
    ASSUME TypeOK, NEW rest \in SUBSET Positions,
           NEW cash \in SUBSET CashPositions, SeedNext(rest, cash)
    PROVE  \/ \E p \in rest :
                 /\ \A k \in Keys : rows'[k] = IF k = p.key THEN p ELSE rows[k]
                 /\ current' = p /\ todo' = rest \ {p} /\ cashRows' = cash
                 /\ phase' = "seeding" /\ UNCHANGED <<state, refresh>>
                 /\ rows' \in [Keys -> {None} \cup Positions \cup CashPositions]
           \/ /\ rest = {}
              /\ \A k \in Holdings : rows'[k] = rows[k]
              /\ \A k \in Keys : \/ rows'[k] = rows[k]
                                 \/ /\ rows'[k] \in CashPositions
                                    /\ rows'[k].key = k
              /\ current' = None /\ todo' = {} /\ cashRows' = {}
              /\ phase' = "idle" /\ state' = "CONNECTED"
              /\ refresh' = [at |-> "sleeping", due |-> day + 1]
              /\ rows' \in [Keys -> {None} \cup Positions \cup CashPositions]
  <1>1. ASSUME NEW p \in rest, rows' = [rows EXCEPT ![p.key] = p]
        PROVE  /\ \A k \in Keys : rows'[k] = IF k = p.key THEN p ELSE rows[k]
               /\ rows' \in [Keys -> {None} \cup Positions \cup CashPositions]
    BY <1>1, KeyFacts DEF TypeOK
  <1>2. ASSUME rows' = [k \in Keys |->
                          IF \E p \in cash : p.key = k
                          THEN CHOOSE p \in cash : p.key = k ELSE rows[k]]
        PROVE  /\ \A k \in Holdings : rows'[k] = rows[k]
               /\ \A k \in Keys : \/ rows'[k] = rows[k]
                                  \/ /\ rows'[k] \in CashPositions
                                     /\ rows'[k].key = k
               /\ rows' \in [Keys -> {None} \cup Positions \cup CashPositions]
    <2>1. \A k \in Holdings : rows'[k] = rows[k]
      BY <1>2, KeyFacts
    <2>2. ASSUME NEW k \in Keys
          PROVE  \/ rows'[k] = rows[k]
                 \/ rows'[k] \in CashPositions /\ rows'[k].key = k
      <3>1. CASE \E p \in cash : p.key = k
        <4>1. rows'[k] = CHOOSE p \in cash : p.key = k
          BY <1>2, <3>1
        <4>2. rows'[k] \in cash /\ rows'[k].key = k
          BY <3>1, <4>1
        <4> QED
          BY <4>2
      <3>2. CASE ~\E p \in cash : p.key = k
        BY <1>2, <3>2
      <3> QED
        BY <3>1, <3>2
    <2>3. /\ rows' = [k \in Keys |-> rows'[k]]
          /\ \A k \in Keys : rows[k] \in {None} \cup Positions \cup CashPositions
      BY <1>2 DEF TypeOK
    <2> QED
      BY <2>1, <2>2, <2>3
  <1> QED
    BY <1>1, <1>2, Zenon DEF SeedNext

(* A portfolio update leaves rows and entries alone, or writes a marked     *)
(* position to a row of the contract and, if it has one, to the entry.      *)
LEMMA PortfolioUpdateFacts ==
    ASSUME TypeOK, NEW k \in Holdings, NEW item \in Items,
           PortfolioUpdate(k, item)
    PROVE  \/ UNCHANGED <<rows, streaming>>
           \/ \E h \in Holdings : \E new \in Positions :
                 /\ h[2] = k[2] /\ rows[h] # None
                 /\ new.key = h /\ ~new.stale /\ new.src = "mark"
                 /\ rows' = [rows EXCEPT ![h] = new]
                 /\ streaming' = IF streaming[k[2]] # None
                                 THEN [streaming EXCEPT ![k[2]] = new]
                                 ELSE streaming
  <1>1. CASE UNCHANGED <<rows, streaming>>
    BY <1>1
  <1>2. ASSUME NEW row \in RowsOf(k[2]), NEW new \in Marked(row, k, item),
               rows' = [rows EXCEPT ![row.key] = new],
               streaming' = IF new # row /\ streaming[k[2]] # None
                            THEN [streaming EXCEPT ![k[2]] = new]
                            ELSE streaming
        PROVE  \/ UNCHANGED <<rows, streaming>>
               \/ \E h \in Holdings : \E n \in Positions :
                     /\ h[2] = k[2] /\ rows[h] # None
                     /\ n.key = h /\ ~n.stale /\ n.src = "mark"
                     /\ rows' = [rows EXCEPT ![h] = n]
                     /\ streaming' = IF streaming[k[2]] # None
                                     THEN [streaming EXCEPT ![k[2]] = n]
                                     ELSE streaming
    <2>1. PICK h \in Holdings : h[2] = k[2] /\ rows[h] # None /\ row = rows[h]
      BY DEF RowsOf
    <2>2. row \in Positions /\ row.key = h /\ h \in Keys
      BY <2>1, RowFacts, KeyFacts
    <2>3. /\ new \in Positions /\ new.key = h
          /\ new # row => ~new.stale /\ new.src = "mark"
      BY <2>2, MarkedFacts
    <2>4. CASE new = row
      <3>1. rows' = rows
        BY <1>2, <2>1, <2>2, <2>4 DEF TypeOK
      <3> QED
        BY <1>2, <2>4, <3>1
    <2>5. CASE new # row
      BY <1>2, <2>1, <2>2, <2>3, <2>5
    <2> QED
      BY <2>4, <2>5
  <1> QED
    BY <1>1, <1>2, Zenon DEF PortfolioUpdate

(* A tick writes one live position to an entry and to the entry's row.      *)
LEMMA TickFacts ==
    ASSUME TypeOK, NEW c \in Contracts, Tick(c)
    PROVE  \E new \in Positions :
              /\ streaming[c] \in Positions /\ streaming[c] # None
              /\ new.key = streaming[c].key /\ ~new.stale
              /\ streaming' = [streaming EXCEPT ![c] = new]
              /\ rows' = [rows EXCEPT ![new.key] = new]
  <1>1. streaming[c] # None /\ streaming[c] \in Positions
    BY DEF Tick, TypeOK
  <1>2. PICK price \in Prices : Ticked(c, price)
    BY DEF Tick
  <1>3. LET new == [streaming[c] EXCEPT !.src = "live", !.price = price,
                                        !.stale = FALSE, !.of = streaming[c].key]
        IN  /\ new \in Positions /\ new.key = streaming[c].key /\ ~new.stale
            /\ streaming' = [streaming EXCEPT ![c] = new]
            /\ rows' = [rows EXCEPT ![new.key] = new]
    BY <1>1, <1>2, TickedFacts DEF Ticked
  <1> QED
    BY <1>1, <1>3

(* The re-seed writes an entry and its row alike, or neither.               *)
LEMMA ReseedFacts ==
    ASSUME TypeOK, EntriesInv, Reseed
    PROVE  \E renewed \in SUBSET Streamed :
              /\ \A c \in renewed : /\ streaming'[c] \in Positions
                                    /\ streaming'[c].key = streaming[c].key
                                    /\ streaming'[c].stale = streaming[c].stale
              /\ \A c \in Contracts \ renewed : streaming'[c] = streaming[c]
              /\ \A k \in Keys : rows'[k] =
                    IF k \in Holdings /\ k[2] \in renewed
                       /\ streaming[k[2]].key = k
                    THEN streaming'[k[2]] ELSE rows[k]
              /\ streaming' \in [Contracts -> {None} \cup Positions]
              /\ rows' \in [Keys -> {None} \cup Positions \cup CashPositions]
              /\ cache' \in [Contracts -> {None} \cup [label : Days, of : Days]]
              /\ missed' \in [Contracts -> {None} \cup Days]
  <1>1. refresh.at = "fetching" /\ refresh.call \in Calls
    BY DEF Reseed, TypeOK
  <1>2. PICK fresh \in Fetched(refresh.call) :
        LET d(c) == CloseDay(refresh.call, fresh, c)
            renewed == {c \in Streamed :
                          /\ d(c) # None
                          /\ streaming[c].prev # None =>
                                CloseOf[streaming[c].prev] # CloseOf[d(c)]}
            new(c) == [streaming[c] EXCEPT !.prev = d(c)]
        IN  /\ Cached(refresh.call, fresh)
            /\ streaming' = [c \in Contracts |->
                               IF c \in renewed THEN new(c) ELSE streaming[c]]
            /\ rows' = [k \in Keys |->
                          IF \E c \in renewed : streaming[c].key = k
                          THEN new(k[2]) ELSE rows[k]]
    BY DEF Reseed
  <1> DEFINE d(c) == CloseDay(refresh.call, fresh, c)
             renewed == {c \in Streamed :
                           /\ d(c) # None
                           /\ streaming[c].prev # None =>
                                 CloseOf[streaming[c].prev] # CloseOf[d(c)]}
             new(c) == [streaming[c] EXCEPT !.prev = d(c)]
  <1>3. /\ renewed \subseteq Streamed /\ Streamed \subseteq Contracts
        /\ \A c \in Streamed : /\ streaming[c] \in Positions
                               /\ streaming[c].key[2] = c
                               /\ streaming[c].key \in Holdings
    BY KeyFacts DEF Streamed, TypeOK, EntriesInv
  <1>4. \A c \in renewed : /\ new(c) \in Positions
                           /\ new(c).key = streaming[c].key
                           /\ new(c).stale = streaming[c].stale
    <2>1. ASSUME NEW c \in renewed
          PROVE  d(c) \in Days \cup {None} /\ streaming[c] \in Positions
      BY <1>1, <1>3, FetchedFacts DEF TypeOK
    <2> QED
      BY <2>1 DEF Positions
  <1>5. /\ \A c \in renewed : streaming'[c] = new(c)
        /\ \A c \in Contracts \ renewed : streaming'[c] = streaming[c]
        /\ streaming' \in [Contracts -> {None} \cup Positions]
    <2>1. streaming' = [c \in Contracts |->
                          IF c \in renewed THEN new(c) ELSE streaming[c]]
      BY <1>2
    <2> HIDE DEF renewed, new
    <2> QED
      BY <1>3, <1>4, <2>1 DEF TypeOK
  <1>6. \A k \in Keys : rows'[k] =
           IF k \in Holdings /\ k[2] \in renewed /\ streaming[k[2]].key = k
           THEN streaming'[k[2]] ELSE rows[k]
    <2>1. rows' = [k \in Keys |-> IF \E c \in renewed : streaming[c].key = k
                                  THEN new(k[2]) ELSE rows[k]]
      BY <1>2
    <2> HIDE DEF renewed, new
    <2>2. ASSUME NEW k \in Keys
          PROVE  (\E c \in renewed : streaming[c].key = k) <=>
                 (k \in Holdings /\ k[2] \in renewed /\ streaming[k[2]].key = k)
      BY <1>3
    <2> QED
      BY <1>3, <1>5, <2>1, <2>2
  <1>7. rows' \in [Keys -> {None} \cup Positions \cup CashPositions]
    <2>1. rows' = [k \in Keys |-> rows'[k]]
      BY <1>2
    <2> HIDE DEF renewed, new
    <2>2. \A k \in Keys : rows'[k] \in {None} \cup Positions \cup CashPositions
      BY <1>3, <1>5, <1>6 DEF TypeOK
    <2> QED
      BY <2>1, <2>2
  <1>8. /\ cache' \in [Contracts -> {None} \cup [label : Days, of : Days]]
        /\ missed' \in [Contracts -> {None} \cup Days]
    BY <1>1, <1>2, CachedType
  <1> HIDE DEF renewed, new
  <1>9. \A c \in renewed : /\ streaming'[c] \in Positions
                           /\ streaming'[c].key = streaming[c].key
                           /\ streaming'[c].stale = streaming[c].stale
    BY <1>4, <1>5
  <1>10. renewed \in SUBSET Streamed
    BY <1>3
  <1> WITNESS renewed \in SUBSET Streamed
  <1> QED
    BY <1>5, <1>6, <1>7, <1>8, <1>9

-----------------------------------------------------------------------------
(* The invariant LiveInv, one lemma for each group of actions.              *)

(* The steps that leave the rows alone.                                     *)
LEMMA QuietStep ==
    ASSUME LiveInv, \/ Attempt \/ DialFails \/ FetchPositions \/ SeedingFails
                    \/ RefreshDue \/ Disconnect \/ Midnight \/ UNCHANGED vars
                    \/ \E o \in Others : Poll(o)
    PROVE  LiveInv'
  <1>1. CASE Attempt \/ DialFails
    <2>1. /\ streaming' = [c \in Contracts |-> None]
          /\ phase' # "seeding" /\ phase' # "closes"
          /\ phase' \in {"idle", "dialled"}
          /\ session' \in {"up", "none"} /\ state' \in States
          /\ state' # "CONNECTED" /\ (phase' = "dialled" => state' = "RECONNECTING")
          /\ UNCHANGED <<seedVars, named, rows, polled, closeVars, refresh, mark,
                         day>>
      BY <1>1 DEF Attempt, DialFails, States
    <2>2. TypeOK'
      BY <2>1 DEF LiveInv, TypeOK, seedVars, closeVars
    <2>3. Streamed' = {}
      BY <2>1 DEF Streamed
    <2> QED
      BY <2>1, <2>2, <2>3 DEF LiveInv, ConnectInv, EntriesInv, NamesInv,
         FreshInv, seedVars
  <1>2. CASE FetchPositions
    <2>1. /\ snap' \in [Contracts -> {None} \cup (Holdings \X Items)]
          /\ call' = Lookup({k[2] : k \in Held}) /\ listed' = Held
          /\ phase = "dialled" /\ phase' = "closes" /\ state = "RECONNECTING"
          /\ UNCHANGED <<state, session, todo, current, cashRows, named, rows,
                         polled, streaming, cache, missed, refresh, mark, day>>
      BY <1>2 DEF FetchPositions, PortfolioItems, closeVars, LiveInv, ConnectInv
    <2>2. call' \in Calls
      <3>1. {k[2] : k \in Held} \in SUBSET Contracts
        BY KeyFacts DEF Held
      <3> QED
        BY <2>1, <3>1, LookupType DEF LiveInv
    <2>3. TypeOK'
      BY <2>1, <2>2 DEF LiveInv, TypeOK, Held
    <2> QED
      BY <2>1, <2>2, <2>3 DEF LiveInv, ConnectInv, EntriesInv, NamesInv,
         FreshInv, Streamed
  <1>3. CASE SeedingFails
    <2>1. /\ snap' = [c \in Contracts |-> None] /\ call' = None
          /\ phase' = "idle" /\ session' = "none"
          /\ state' \in States /\ state' # "CONNECTED"
          /\ UNCHANGED <<listed, todo, current, cashRows, named, rows, polled,
                         streaming, cache, missed, refresh, mark, day>>
      BY <1>3 DEF SeedingFails, closeVars, States
    <2>2. TypeOK'
      BY <2>1 DEF LiveInv, TypeOK
    <2> QED
      BY <2>1, <2>2 DEF LiveInv, ConnectInv, EntriesInv, NamesInv, FreshInv,
         Streamed
  <1>4. CASE RefreshDue
    <2>1. /\ UNCHANGED <<state, session, phase, snap, listed, call, todo,
                         current, cashRows, named, rows, polled, streaming,
                         cache, missed, mark, day>>
          /\ \/ refresh' = [at |-> "sleeping", due |-> day + 1]
             \/ refresh' = [at |-> "fetching", call |-> Lookup(Streamed)]
      BY <1>4 DEF RefreshDue, seedVars, closeVars
    <2>2. day + 1 \in 0..MaxDay + 1
      BY MaxDayAssumption DEF LiveInv, TypeOK, Days
    <2>3. Lookup(Streamed) \in Calls
      BY LookupType DEF LiveInv, Streamed
    <2>4. TypeOK'
      BY <2>1, <2>2, <2>3 DEF LiveInv, TypeOK
    <2> QED
      BY <2>1, <2>4 DEF LiveInv, ConnectInv, EntriesInv, NamesInv, FreshInv,
         Streamed
  <1>5. CASE Disconnect
    <2>1. /\ phase' = "off" /\ state' = "DISCONNECTED" /\ session' = "none"
          /\ snap' = [c \in Contracts |-> None] /\ call' = None
          /\ todo' = {} /\ current' = None /\ cashRows' = {}
          /\ UNCHANGED <<listed, named, rows, polled, cache, missed, mark, day>>
          /\ \/ UNCHANGED <<streaming, refresh>>
             \/ /\ streaming' = [c \in Contracts |-> None]
                /\ refresh' = [at |-> "none", due |-> 0]
      BY <1>5 DEF Disconnect, closeVars
    <2>2. TypeOK'
      BY <2>1, MaxDayAssumption DEF LiveInv, TypeOK, States
    <2>3. Streamed' \subseteq Streamed
          /\ \A c \in Streamed' : streaming'[c] = streaming[c]
      BY <2>1 DEF Streamed
    <2> QED
      BY <2>1, <2>2, <2>3 DEF LiveInv, ConnectInv, EntriesInv, NamesInv,
         FreshInv
  <1>6. CASE Midnight
    <2>1. /\ day' \in Days
          /\ UNCHANGED <<state, session, phase, snap, listed, call, todo,
                         current, cashRows, named, rows, polled, streaming,
                         cache, missed, refresh, mark>>
      BY <1>6, MaxDayAssumption DEF Midnight, LiveInv, TypeOK, Days, seedVars,
         closeVars
    <2>2. TypeOK'
      BY <2>1 DEF LiveInv, TypeOK
    <2> QED
      BY <2>1, <2>2 DEF LiveInv, ConnectInv, EntriesInv, NamesInv, FreshInv,
         Streamed
  <1>7. CASE UNCHANGED vars
    <2>1. TypeOK'
      BY <1>7 DEF LiveInv, TypeOK, vars
    <2> QED
      BY <1>7, <2>1 DEF LiveInv, ConnectInv, EntriesInv, NamesInv, FreshInv,
         Streamed, vars
  <1>8. ASSUME NEW o \in Others, Poll(o) PROVE LiveInv'
    <2>1. /\ polled' \in [Others -> {"none", "fresh", "stale"}]
          /\ UNCHANGED <<state, session, phase, snap, listed, call, todo,
                         current, cashRows, named, rows, streaming, cache,
                         missed, refresh, mark, day>>
      BY <1>8 DEF Poll, LiveInv, TypeOK, seedVars, closeVars
    <2>2. TypeOK'
      BY <2>1 DEF LiveInv, TypeOK
    <2> QED
      BY <2>1, <2>2 DEF LiveInv, ConnectInv, EntriesInv, NamesInv, FreshInv,
         Streamed
  <1> QED
    BY <1>1, <1>2, <1>3, <1>4, <1>5, <1>6, <1>7, <1>8

(* Ticks and portfolio updates: a fresh position goes to a row that is      *)
(* there and to the entry of its contract.                                  *)
LEMMA UpdateStep ==
    ASSUME LiveInv, mark' \in [Holdings -> {None} \cup Items],
           UNCHANGED <<state, session, phase, seedVars, named, polled,
                       closeVars, refresh, day>>,
           NEW h \in Holdings, NEW new \in Positions,
           rows[h] # None, new.key = h, ~new.stale,
           rows' = [rows EXCEPT ![h] = new],
           \/ streaming' = [streaming EXCEPT ![h[2]] = new]
           \/ streaming' = streaming
    PROVE  LiveInv'
  <1>1. /\ h \in Keys /\ h[2] \in Contracts /\ new # None
    BY KeyFacts
  <1>2. \A k \in Keys : rows'[k] = IF k = h THEN new ELSE rows[k]
    BY <1>1 DEF LiveInv, TypeOK
  <1>3. \A c \in Contracts :
           streaming'[c] = streaming[c] \/ (c = h[2] /\ streaming'[c] = new)
    BY <1>1 DEF LiveInv, TypeOK
  <1>4. TypeOK'
    <2>1. /\ rows' \in [Keys -> {None} \cup Positions \cup CashPositions]
          /\ \A k \in Keys : rows'[k] # None => rows'[k].key = k
      BY <1>1, <1>2 DEF LiveInv, TypeOK
    <2>2. streaming' \in [Contracts -> {None} \cup Positions]
      BY <1>1 DEF LiveInv, TypeOK
    <2> QED
      BY <2>1, <2>2 DEF LiveInv, TypeOK, seedVars, closeVars
  <1>5. ConnectInv'
    BY DEF LiveInv, ConnectInv, seedVars
  <1>6. EntriesInv'
    <2>1. \A k \in Keys : rows[k] # None => rows'[k] # None
      BY <1>1, <1>2
    <2>2. ASSUME NEW c \in Streamed'
          PROVE  streaming'[c].key[2] = c /\ rows'[streaming'[c].key] # None
      <3>1. CASE streaming'[c] = streaming[c]
        <4>1. c \in Streamed /\ streaming[c].key \in Keys
          BY <2>2, <3>1, KeyFacts DEF Streamed, LiveInv, TypeOK
        <4> QED
          BY <2>1, <3>1, <4>1 DEF LiveInv, EntriesInv
      <3>2. CASE c = h[2] /\ streaming'[c] = new
        BY <1>1, <1>2, <3>2
      <3> QED
        BY <1>3, <2>2, <3>1, <3>2 DEF Streamed
    <2>3. phase = "seeding" => current.key \in Keys
      BY KeyFacts DEF LiveInv, ConnectInv
    <2> QED
      BY <2>1, <2>2, <2>3 DEF LiveInv, EntriesInv, seedVars
  <1>7. NamesInv'
    BY <1>1, <1>2 DEF LiveInv, NamesInv, seedVars, Keys
  <1>8. FreshInv'
    <2>1. \A c \in Streamed' : ~streaming'[c].stale
      BY <1>3 DEF LiveInv, FreshInv, Streamed
    <2>2. phase = "seeding" =>
             \A k \in listed : rows'[k] # None /\ rows'[k].stale =>
                                  \E p \in todo : p.key = k
      BY <1>2 DEF LiveInv, TypeOK, FreshInv, Keys
    <2>3. state = "CONNECTED" =>
             \A k \in Keys : rows'[k] # None /\ rows'[k].stale =>
                                k \in Holdings \ listed
      BY <1>2 DEF LiveInv, FreshInv
    <2> QED
      BY <2>1, <2>2, <2>3 DEF LiveInv, FreshInv, seedVars
  <1> QED
    BY <1>4, <1>5, <1>6, <1>7, <1>8 DEF LiveInv

(* IB values a holding anew, or its owner trades it.                        *)
LEMMA PortfolioStep ==
    ASSUME LiveInv, mark' \in [Holdings -> {None} \cup Items],
           UNCHANGED <<state, session, phase, seedVars, named, polled,
                       closeVars, refresh, day>>,
           NEW k \in Holdings, NEW item \in Items,
           PortfolioUpdate(k, item) \/ UNCHANGED <<rows, streaming>>
    PROVE  LiveInv'
  <1>1. CASE UNCHANGED <<rows, streaming>>
    <2>1. TypeOK'
      BY <1>1 DEF LiveInv, TypeOK, seedVars, closeVars
    <2> QED
      BY <1>1, <2>1 DEF LiveInv, ConnectInv, EntriesInv, NamesInv, FreshInv,
         Streamed, seedVars
  <1>2. CASE PortfolioUpdate(k, item) /\ ~UNCHANGED <<rows, streaming>>
    <2>1. PICK h \in Holdings, new \in Positions :
             /\ h[2] = k[2] /\ rows[h] # None
             /\ new.key = h /\ ~new.stale /\ new.src = "mark"
             /\ rows' = [rows EXCEPT ![h] = new]
             /\ streaming' = IF streaming[k[2]] # None
                             THEN [streaming EXCEPT ![k[2]] = new]
                             ELSE streaming
      <3>1. TypeOK
        BY DEF LiveInv
      <3> QED
        BY <1>2, <3>1, PortfolioUpdateFacts
    <2> QED
      BY <2>1, UpdateStep
  <1> QED
    BY <1>1, <1>2

(* The daily re-seed.                                                       *)
LEMMA ReseedStep == ASSUME LiveInv, Reseed PROVE LiveInv'
  <1>1. PICK renewed \in SUBSET Streamed :
              /\ \A c \in renewed : /\ streaming'[c] \in Positions
                                    /\ streaming'[c].key = streaming[c].key
                                    /\ streaming'[c].stale = streaming[c].stale
              /\ \A c \in Contracts \ renewed : streaming'[c] = streaming[c]
              /\ \A k \in Keys : rows'[k] =
                    IF k \in Holdings /\ k[2] \in renewed
                       /\ streaming[k[2]].key = k
                    THEN streaming'[k[2]] ELSE rows[k]
              /\ streaming' \in [Contracts -> {None} \cup Positions]
              /\ rows' \in [Keys -> {None} \cup Positions \cup CashPositions]
              /\ cache' \in [Contracts -> {None} \cup [label : Days, of : Days]]
              /\ missed' \in [Contracts -> {None} \cup Days]
    BY ReseedFacts DEF LiveInv
  <1>2. /\ refresh' = [at |-> "sleeping", due |-> day + 1]
        /\ UNCHANGED <<state, session, phase, snap, listed, call, todo, current,
                       cashRows, named, polled, mark, day>>
    BY DEF Reseed, seedVars
  <1>3. Streamed' = Streamed /\ Streamed \subseteq Contracts
    BY <1>1, KeyFacts DEF Streamed
  <1>4. \A k \in Keys :
           \/ rows'[k] = rows[k]
           \/ /\ k \in Holdings /\ k[2] \in renewed /\ streaming[k[2]].key = k
              /\ rows'[k] = streaming'[k[2]]
    BY <1>1
  <1>5. TypeOK'
    <2>1. day + 1 \in 0..MaxDay + 1
      BY MaxDayAssumption DEF LiveInv, TypeOK, Days
    <2>2. \A k \in Keys : rows'[k] # None => rows'[k].key = k
      BY <1>1, <1>4 DEF LiveInv, TypeOK
    <2> QED
      BY <1>1, <1>2, <2>1, <2>2 DEF LiveInv, TypeOK
  <1>6. \A k \in Keys : rows[k] # None <=> rows'[k] # None
    <2>1. \A c \in Streamed : rows[streaming[c].key] # None
      BY DEF LiveInv, EntriesInv
    <2> QED
      BY <1>1, <1>3, <1>4, <2>1, KeyFacts
  <1>7. \A c \in Streamed : streaming'[c].key = streaming[c].key
                            /\ streaming'[c].stale = streaming[c].stale
    BY <1>1, <1>3
  <1>8. ConnectInv' /\ EntriesInv' /\ NamesInv'
    <2>1. \A c \in Streamed : streaming[c].key \in Keys
      BY KeyFacts DEF LiveInv, TypeOK, Streamed
    <2>2. phase = "seeding" => current.key \in Keys
      BY KeyFacts DEF LiveInv, ConnectInv
    <2>3. EntriesInv'
      BY <1>2, <1>3, <1>6, <1>7, <2>1, <2>2 DEF LiveInv, EntriesInv
    <2>4. NamesInv'
      BY <1>2, <1>6, KeyFacts DEF LiveInv, NamesInv
    <2> QED
      BY <1>2, <2>3, <2>4 DEF LiveInv, ConnectInv
  <1>9. FreshInv'
    <2>1. \A k \in Keys : rows'[k] # None /\ rows'[k].stale =>
             rows[k] # None /\ rows[k].stale
      BY <1>1, <1>4, <1>7 DEF LiveInv, FreshInv
    <2>2. \A c \in Streamed' : ~streaming'[c].stale
      BY <1>3, <1>7 DEF LiveInv, FreshInv
    <2> QED
      BY <1>2, <2>1, <2>2, KeyFacts DEF LiveInv, TypeOK, FreshInv
  <1> QED
    BY <1>5, <1>8, <1>9 DEF LiveInv

(* A row that is marked stale is the same row otherwise.                    *)
LEMMA StaleFacts ==
    ASSUME NEW row \in Positions
    PROVE  LET new == [row EXCEPT !.stale = TRUE]
           IN  new \in Positions /\ new.key = row.key
  BY DEF Positions

(* A lost session, and the operator's retry, mark rows stale: the state is  *)
(* RECONNECTING afterwards, and no session is being seeded.                 *)
LEMMA StaleStep == ASSUME LiveInv, Drop \/ RetryNow PROVE LiveInv'
  <1>1. /\ UNCHANGED <<phase, snap, listed, call, todo, current, cashRows, named,
                       streaming, cache, missed, refresh, mark, day>>
        /\ session' \in {"none", "up", "down"} /\ state' = "RECONNECTING"
        /\ \/ UNCHANGED <<rows, polled>>
           \/ MarkStale /\ phase # "seeding"
    BY DEF LiveInv, TypeOK, ConnectInv, Drop, RetryNow, seedVars, closeVars
  <1>2. CASE UNCHANGED <<rows, polled>>
    <2>1. TypeOK'
      BY <1>1, <1>2 DEF LiveInv, TypeOK, States
    <2> QED
      BY <1>1, <1>2, <2>1 DEF LiveInv, ConnectInv, EntriesInv, NamesInv,
         FreshInv, Streamed
  <1>3. CASE MarkStale /\ phase # "seeding"
    <2>1. \A k \in Keys :
             rows'[k] = IF k \in Holdings /\ rows[k] # None
                        THEN [rows[k] EXCEPT !.stale = TRUE] ELSE rows[k]
      BY <1>3 DEF MarkStale
    <2>2. ASSUME NEW k \in Keys, k \in Holdings, rows[k] # None
          PROVE  rows'[k] \in Positions /\ rows'[k].key = k
      <3>1. rows[k] \in Positions /\ rows[k].key = k
        BY <2>2, RowFacts DEF LiveInv
      <3>2. rows'[k] = [rows[k] EXCEPT !.stale = TRUE]
        BY <2>1, <2>2
      <3> QED
        BY <3>1, <3>2, StaleFacts
    <2>3. ASSUME NEW k \in Keys
          PROVE  (rows'[k] # None) <=> (rows[k] # None)
      <3>1. CASE k \in Holdings /\ rows[k] # None
        BY <2>2, <3>1, KeyFacts
      <3>2. CASE ~(k \in Holdings /\ rows[k] # None)
        BY <2>1, <3>2
      <3> QED
        BY <3>1, <3>2
    <2>4. TypeOK'
      <3>1. rows' = [k \in Keys |-> rows'[k]]
        BY <1>3 DEF MarkStale
      <3>2. \A k \in Keys :
               /\ rows'[k] \in {None} \cup Positions \cup CashPositions
               /\ rows'[k] # None => rows'[k].key = k
        BY <2>1, <2>2 DEF LiveInv, TypeOK
      <3>3. rows' \in [Keys -> {None} \cup Positions \cup CashPositions]
        BY <3>1, <3>2
      <3>4. polled' \in [Others -> {"none", "fresh", "stale"}]
        BY <1>3 DEF MarkStale, LiveInv, TypeOK
      <3> QED
        BY <1>1, <3>2, <3>3, <3>4 DEF LiveInv, TypeOK, States
    <2>5. EntriesInv'
      <3>1. \A c \in Streamed : streaming[c].key \in Keys
        BY KeyFacts DEF LiveInv, TypeOK, Streamed
      <3> QED
        BY <1>1, <1>3, <2>3, <3>1 DEF LiveInv, EntriesInv, Streamed
    <2>6. NamesInv'
      BY <1>1, <2>3, KeyFacts DEF LiveInv, NamesInv
    <2> QED
      BY <1>1, <1>3, <2>4, <2>5, <2>6 DEF LiveInv, ConnectInv, FreshInv, Streamed
  <1> QED
    BY <1>1, <1>2, <1>3

(* The for loop of _start_streaming goes on: the positions still to be      *)
(* written include one for every stale row of what was listed.              *)
LEMMA SeedStep ==
    ASSUME LiveInv, state = "RECONNECTING",
           NEW rest \in SUBSET Positions, NEW cash \in SUBSET CashPositions,
           SeedNext(rest, cash),
           UNCHANGED <<session, listed, polled, mark, day>>,
           snap' \in [Contracts -> {None} \cup (Holdings \X Items)],
           call' \in {None} \cup Calls,
           cache' \in [Contracts -> {None} \cup [label : Days, of : Days]],
           missed' \in [Contracts -> {None} \cup Days],
           named' \in SUBSET Contracts, named \subseteq named',
           \A p \in rest : p.key[2] \in named' /\ ~p.stale,
           \A k \in listed : rows[k] # None /\ rows[k].stale =>
              \E p \in rest : p.key = k,
           streaming' \in [Contracts -> {None} \cup Positions],
           \A c \in Contracts : streaming'[c] # None =>
              /\ streaming'[c].key[2] = c /\ ~streaming'[c].stale
              /\ rows[streaming'[c].key] # None
    PROVE  LiveInv'
  <1>1. CASE \E p \in rest :
                 /\ \A k \in Keys : rows'[k] = IF k = p.key THEN p ELSE rows[k]
                 /\ current' = p /\ todo' = rest \ {p} /\ cashRows' = cash
                 /\ phase' = "seeding" /\ UNCHANGED <<state, refresh>>
                 /\ rows' \in [Keys -> {None} \cup Positions \cup CashPositions]
    <2>1. PICK p \in rest :
                 /\ \A k \in Keys : rows'[k] = IF k = p.key THEN p ELSE rows[k]
                 /\ current' = p /\ todo' = rest \ {p} /\ cashRows' = cash
                 /\ phase' = "seeding" /\ UNCHANGED <<state, refresh>>
                 /\ rows' \in [Keys -> {None} \cup Positions \cup CashPositions]
      BY <1>1
    <2>2. p \in Positions /\ p # None /\ p.key \in Keys /\ p.key \in Holdings
      BY KeyFacts
    <2>3. \A k \in Keys : rows[k] # None => rows'[k] # None
      BY <2>1, <2>2
    <2>4. TypeOK'
      <3>1. \A k \in Keys : rows'[k] # None => rows'[k].key = k
        BY <2>1 DEF LiveInv, TypeOK
      <3> QED
        BY <2>1, <2>2, <3>1 DEF LiveInv, TypeOK
    <2>5. ConnectInv'
      BY <2>1, <2>2 DEF ConnectInv
    <2>6. EntriesInv'
      <3>1. \A c \in Contracts : streaming'[c] # None => streaming'[c].key \in Keys
        BY KeyFacts
      <3> QED
        BY <2>1, <2>2, <2>3, <3>1 DEF EntriesInv, Streamed
    <2>7. NamesInv'
      BY <2>1, KeyFacts DEF LiveInv, NamesInv
    <2>8. FreshInv'
      <3>1. ASSUME NEW k \in listed, rows'[k] # None, rows'[k].stale
            PROVE  \E q \in todo' : q.key = k
        <4>1. k # p.key /\ rows'[k] = rows[k]
          BY <2>1, <3>1, KeyFacts DEF LiveInv, TypeOK
        <4>2. PICK q \in rest : q.key = k
          BY <3>1, <4>1
        <4> QED
          BY <2>1, <4>1, <4>2
      <3>2. \A c \in Streamed' : ~streaming'[c].stale
        BY DEF Streamed
      <3> QED
        BY <2>1, <3>1, <3>2 DEF FreshInv
    <2> QED
      BY <2>4, <2>5, <2>6, <2>7, <2>8 DEF LiveInv
  <1>2. CASE  /\ rest = {}
              /\ \A k \in Holdings : rows'[k] = rows[k]
              /\ \A k \in Keys : \/ rows'[k] = rows[k]
                                 \/ /\ rows'[k] \in CashPositions
                                    /\ rows'[k].key = k
              /\ current' = None /\ todo' = {} /\ cashRows' = {}
              /\ phase' = "idle" /\ state' = "CONNECTED"
              /\ refresh' = [at |-> "sleeping", due |-> day + 1]
              /\ rows' \in [Keys -> {None} \cup Positions \cup CashPositions]
    <2>1. TypeOK'
      <3>1. day + 1 \in 0..MaxDay + 1
        BY MaxDayAssumption DEF LiveInv, TypeOK, Days
      <3>2. \A k \in Keys : rows'[k] # None => rows'[k].key = k
        BY <1>2 DEF LiveInv, TypeOK
      <3> QED
        BY <1>2, <3>1, <3>2 DEF LiveInv, TypeOK, States
    <2>2. EntriesInv'
      <3>1. \A c \in Contracts : streaming'[c] # None =>
               streaming'[c].key \in Holdings
        BY KeyFacts
      <3> QED
        BY <1>2, <3>1 DEF EntriesInv, Streamed
    <2>3. NamesInv'
      BY <1>2 DEF LiveInv, NamesInv
    <2>4. FreshInv'
      <3>1. \A k \in Keys : rows'[k] # None /\ rows'[k].stale =>
                                k \in Holdings \ listed
        <4>1. \A k \in Keys : k \notin Holdings /\ rows[k] # None => ~rows[k].stale
          BY RowFacts DEF LiveInv
        <4> QED
          BY <1>2, <4>1, KeyFacts
      <3>2. \A c \in Streamed' : ~streaming'[c].stale
        BY DEF Streamed
      <3> QED
        BY <1>2, <3>1, <3>2 DEF FreshInv
    <2> QED
      BY <1>2, <2>1, <2>2, <2>3, <2>4 DEF LiveInv, ConnectInv
  <1>3. TypeOK
    BY DEF LiveInv
  <1> QED
    BY <1>1, <1>2, <1>3, SeedNextFacts

(* What BuildPositions hands to the for loop: one fresh position for each   *)
(* one listed under a name.                                                 *)
Built(fresh, quote, cs) ==
    {Position(k, quote[k[2]], snap[k[2]], CloseDay(call, fresh, k[2])) :
        k \in {h \in listed : h[2] \in cs}}

LEMMA BuildFacts ==
    ASSUME LiveInv, NEW fresh \in Fetched(call), NEW quote \in Quotes,
           NEW cs \in SUBSET Contracts, call \in Calls
    PROVE  /\ Built(fresh, quote, cs) \in SUBSET Positions
           /\ \A p \in Built(fresh, quote, cs) : p.key[2] \in cs /\ ~p.stale
           /\ \A k \in listed : k[2] \in cs =>
                 \E p \in Built(fresh, quote, cs) : p.key = k
           /\ \A p, q \in Built(fresh, quote, cs) : p.key = q.key => p = q
  <1> DEFINE pos(k) == Position(k, quote[k[2]], snap[k[2]],
                                CloseDay(call, fresh, k[2]))
  <1>1. ASSUME NEW k \in Holdings
        PROVE  pos(k) \in Positions /\ pos(k).key = k /\ ~pos(k).stale
    <2>1. /\ k[2] \in Contracts /\ quote[k[2]] \in Prices \cup {0}
          /\ snap[k[2]] \in {None} \cup (Holdings \X Items)
      BY KeyFacts DEF Quotes, LiveInv, TypeOK
    <2>2. CloseDay(call, fresh, k[2]) \in Days \cup {None}
      BY <2>1, FetchedFacts DEF LiveInv, TypeOK
    <2> DEFINE price == quote[k[2]]
               item  == snap[k[2]]
               prev  == CloseDay(call, fresh, k[2])
    <2>3. /\ price \in Prices \cup {0} /\ prev \in Days \cup {None}
          /\ item \in {None} \cup (Holdings \X Items)
      BY <2>1, <2>2
    <2> HIDE DEF price, item, prev
    <2>4. /\ Position(k, price, item, prev) \in Positions
          /\ Position(k, price, item, prev).key = k
          /\ Position(k, price, item, prev).stale = FALSE
      BY <2>3, PositionFacts
    <2> QED
      BY <2>4 DEF price, item, prev
  <1> DEFINE rest == Built(fresh, quote, cs)
  <1>0. listed \subseteq Holdings
    BY DEF LiveInv, TypeOK
  <1>2. rest = {pos(k) : k \in {h \in listed : h[2] \in cs}}
    BY DEF Built
  <1> HIDE DEF pos, rest
  <1>3. \A p \in rest : \E k \in listed : k[2] \in cs /\ p = pos(k)
    BY <1>2
  <1>4. \A k \in listed : k[2] \in cs => pos(k) \in rest
    BY <1>2
  <1>5. rest \subseteq Positions /\ \A p \in rest : p.key[2] \in cs /\ ~p.stale
    BY <1>0, <1>1, <1>3
  <1>6. \A k \in listed : k[2] \in cs => \E p \in rest : p.key = k
    BY <1>0, <1>1, <1>4
  <1>7. \A p, q \in rest : p.key = q.key => p = q
    BY <1>0, <1>1, <1>3
  <1> QED
    BY <1>5, <1>6, <1>7 DEF rest

(* The cash positions of either set of accounts.                            *)
LEMMA CashFacts ==
    ASSUME NEW cash \in CashAccounts
    PROVE  {CashPosition(a) : a \in cash} \in SUBSET CashPositions
  BY CashAccountsAssumption DEF CashAccounts, CashPositions

(* Seeding a session.                                                       *)
LEMMA SeedingStep == ASSUME LiveInv, BuildPositions \/ LookedUp PROVE LiveInv'
  <1>1. CASE BuildPositions
    <2>1. /\ phase = "closes" /\ call \in Calls /\ state = "RECONNECTING"
          /\ snap' = [c \in Contracts |-> None] /\ call' = None
          /\ UNCHANGED <<session, listed, polled, streaming, mark, day>>
      BY <1>1 DEF BuildPositions, LiveInv, ConnectInv
    <2>2. PICK fresh \in Fetched(call), quote \in Quotes,
               cs \in SUBSET Contracts, cash \in CashAccounts :
             /\ Resolved(cs)
             /\ Cached(call, fresh)
             /\ named' = cs
             /\ SeedNext({Position(k, quote[k[2]], snap[k[2]],
                                   CloseDay(call, fresh, k[2])) :
                             k \in {h \in listed : h[2] \in cs}},
                         {CashPosition(a) : a \in cash})
      BY <1>1 DEF BuildPositions
    <2> DEFINE rest == Built(fresh, quote, cs)
               coins == {CashPosition(a) : a \in cash}
    <2>3. /\ rest \in SUBSET Positions
          /\ \A p \in rest : p.key[2] \in cs /\ ~p.stale
          /\ \A k \in listed : k[2] \in cs => \E p \in rest : p.key = k
      BY <2>1, BuildFacts
    <2>4. coins \in SUBSET CashPositions
      BY CashFacts
    <2>5. SeedNext(rest, coins) /\ named' = cs /\ named \subseteq cs
      BY <2>2, Zenon DEF Resolved, Built
    <2> HIDE DEF rest, coins
    <2>6. /\ cache' \in [Contracts -> {None} \cup [label : Days, of : Days]]
          /\ missed' \in [Contracts -> {None} \cup Days]
      BY <2>1, <2>2, CachedType DEF LiveInv
    <2>7. \A k \in listed : rows[k] # None /\ rows[k].stale =>
              \E p \in rest : p.key = k
      BY <2>3, <2>5 DEF LiveInv, TypeOK, NamesInv
    <2>8. /\ streaming' \in [Contracts -> {None} \cup Positions]
          /\ \A c \in Contracts : streaming'[c] # None =>
                /\ streaming'[c].key[2] = c /\ ~streaming'[c].stale
                /\ rows[streaming'[c].key] # None
      BY <2>1 DEF LiveInv, TypeOK, EntriesInv, FreshInv, Streamed
    <2>9. /\ snap' \in [Contracts -> {None} \cup (Holdings \X Items)]
          /\ call' \in {None} \cup Calls
      BY <2>1
    <2> QED
      BY <2>1, <2>3, <2>4, <2>5, <2>6, <2>7, <2>8, <2>9, SeedStep
  <1>2. CASE LookedUp
    <2>1. /\ phase = "seeding" /\ state = "RECONNECTING" /\ current \in Positions
          /\ SeedNext(todo, cashRows)
          /\ \/ UNCHANGED streaming
             \/ streaming' = [streaming EXCEPT ![current.key[2]] = current]
          /\ UNCHANGED <<session, snap, listed, call, named, polled, cache,
                         missed, mark, day>>
      BY <1>2 DEF LookedUp, LiveInv, ConnectInv, closeVars
    <2>2. current.key \in Holdings /\ current.key[2] \in Contracts
          /\ rows[current.key] # None /\ ~current.stale
      BY <2>1, KeyFacts DEF LiveInv, EntriesInv, FreshInv
    <2>3. /\ streaming' \in [Contracts -> {None} \cup Positions]
          /\ \A c \in Contracts : streaming'[c] = streaming[c]
                \/ (c = current.key[2] /\ streaming'[c] = current)
      BY <2>1, <2>2 DEF LiveInv, TypeOK
    <2>4. \A c \in Contracts : streaming'[c] # None =>
                /\ streaming'[c].key[2] = c /\ ~streaming'[c].stale
                /\ rows[streaming'[c].key] # None
      BY <2>2, <2>3 DEF LiveInv, EntriesInv, FreshInv, Streamed
    <2>5. /\ todo \in SUBSET Positions /\ cashRows \in SUBSET CashPositions
          /\ snap' \in [Contracts -> {None} \cup (Holdings \X Items)]
          /\ call' \in {None} \cup Calls
          /\ cache' \in [Contracts -> {None} \cup [label : Days, of : Days]]
          /\ missed' \in [Contracts -> {None} \cup Days]
          /\ named' \in SUBSET Contracts
      BY <2>1 DEF LiveInv, TypeOK
    <2>6. /\ \A p \in todo : p.key[2] \in named' /\ ~p.stale
          /\ \A k \in listed : rows[k] # None /\ rows[k].stale =>
                \E p \in todo : p.key = k
          /\ named \subseteq named'
      BY <2>1 DEF LiveInv, NamesInv, FreshInv
    <2> QED
      BY <2>1, <2>3, <2>4, <2>5, <2>6, SeedStep
  <1> QED
    BY <1>1, <1>2

(* Every step keeps LiveInv.                                                *)
LEMMA LiveStep == ASSUME LiveInv, [Next]_vars PROVE LiveInv'
  <1>1. ASSUME NEW c \in Contracts, Tick(c) PROVE LiveInv'
    <2>1. TypeOK
      BY DEF LiveInv
    <2>2. PICK new \in Positions :
              /\ streaming[c] \in Positions /\ streaming[c] # None
              /\ new.key = streaming[c].key /\ ~new.stale
              /\ streaming' = [streaming EXCEPT ![c] = new]
              /\ rows' = [rows EXCEPT ![new.key] = new]
      BY <1>1, <2>1, TickFacts
    <2>3. /\ new.key \in Holdings /\ new.key[2] = c /\ rows[new.key] # None
      BY <2>2, KeyFacts DEF LiveInv, EntriesInv, Streamed
    <2>4. /\ UNCHANGED <<state, session, phase, seedVars, named, polled,
                         closeVars, refresh, day>>
          /\ mark' \in [Holdings -> {None} \cup Items]
      BY <1>1, <2>1 DEF Tick, TypeOK
    <2> QED
      BY <2>2, <2>3, <2>4, UpdateStep
  <1>2. ASSUME NEW k \in Holdings, Revalue(k) \/ Buy(k) \/ Sell(k)
        PROVE  LiveInv'
    <2>1. PICK item \in Items : PortfolioEvent(k, item)
      BY <1>2 DEF Revalue, Buy, Sell
    <2>2. /\ mark' \in [Holdings -> {None} \cup Items]
          /\ UNCHANGED <<state, session, phase, seedVars, named, polled,
                         closeVars, refresh, day>>
          /\ PortfolioUpdate(k, item) \/ UNCHANGED <<rows, streaming>>
      BY <1>2, <2>1 DEF LiveInv, TypeOK, Revalue, Buy, Sell, PortfolioEvent
    <2> QED
      BY <2>2, PortfolioStep
  <1> QED
    BY <1>1, <1>2, QuietStep, ReseedStep, StaleStep, SeedingStep DEF Next

(* Rows, entries, names and the progress of _start_streaming agree.         *)
THEOREM LiveInvariant == Spec => []LiveInv
  <1>1. Init => LiveInv
    <2> SUFFICES ASSUME Init PROVE LiveInv
      OBVIOUS
    <2>1. TypeOK
      BY MaxDayAssumption DEF Init, TypeOK, States, Days
    <2>2. Streamed = {} /\ todo = {} /\ phase = "idle" /\ state = "RECONNECTING"
          /\ \A k \in Keys : rows[k] = None
      BY DEF Init, Streamed
    <2> QED
      BY <2>1, <2>2, KeyFacts DEF LiveInv, ConnectInv, EntriesInv, NamesInv,
         FreshInv
  <1> QED
    BY <1>1, LiveStep, PTL DEF Spec

(* Every variable of the live rows keeps its type.                          *)
THEOREM TypeCorrect == Spec => []TypeOK
  <1>1. LiveInv => TypeOK
    BY DEF LiveInv
  <1> QED
    BY <1>1, LiveInvariant, PTL

(* Of the positions reqPositions last reported, an adapter that is          *)
(* CONNECTED on a session that is up shows no row that the drop before has  *)
(* dimmed, whatever was traded, lost, left out for want of a name, or       *)
(* updated while the session was seeded.  The rows of positions sold before *)
(* that report stay dimmed.                                                 *)
THEOREM ConnectedRowsAreFresh == Spec => []FreshWhenConnected
  <1>1. LiveInv => FreshWhenConnected
    BY DEF LiveInv, FreshInv, FreshWhenConnected
  <1> QED
    BY <1>1, LiveInvariant, PTL

(* A close that the cache gives out as today's was fetched today or later,  *)
(* for any number of midnights during a fetch.                              *)
THEOREM CloseLabelsAreHonest == Spec => []CloseLabelHonest
  <1>1. Init => CloseLabelHonest
    BY DEF Init, CloseLabelHonest
  <1>2. ASSUME LiveInv, CloseLabelHonest, [Next]_vars PROVE CloseLabelHonest'
    <2>1. CASE UNCHANGED cache
      BY <1>2, <2>1 DEF CloseLabelHonest
    <2>2. ASSUME NEW k \in Calls, NEW fresh \in Fetched(k), Cached(k, fresh)
          PROVE  CloseLabelHonest'
      <3>1. ASSUME NEW c \in Contracts, cache'[c] # None
            PROVE  cache'[c].of >= cache'[c].label
        <4>1. CASE c \in k.misses /\ fresh[c] # None
          <5>1. cache'[c] = [label |-> k.today, of |-> fresh[c]]
            BY <2>2, <4>1 DEF Cached
          <5>2. fresh[c] >= k.today
            BY <1>2, <4>1, FetchedFacts DEF LiveInv, TypeOK
          <5> QED
            BY <5>1, <5>2
        <4>2. CASE ~(c \in k.misses /\ fresh[c] # None)
          BY <1>2, <2>2, <3>1, <4>2 DEF Cached, CloseLabelHonest
        <4> QED
          BY <4>1, <4>2
      <3> QED
        BY <3>1 DEF CloseLabelHonest
    <2>3. ASSUME BuildPositions PROVE CloseLabelHonest'
      <3>1. call \in Calls
        BY <1>2, <2>3 DEF BuildPositions, LiveInv, ConnectInv
      <3> QED
        BY <2>2, <2>3, <3>1 DEF BuildPositions
    <2>4. ASSUME Reseed PROVE CloseLabelHonest'
      <3>1. refresh.call \in Calls
        BY <1>2, <2>4 DEF Reseed, LiveInv, TypeOK
      <3> QED
        BY <2>2, <2>4, <3>1 DEF Reseed
    <2>5. ASSUME \/ Attempt \/ DialFails \/ FetchPositions \/ SeedingFails
                 \/ LookedUp \/ RefreshDue \/ Drop \/ RetryNow \/ Disconnect
                 \/ Midnight \/ UNCHANGED vars
                 \/ \E c \in Contracts : Tick(c)
                 \/ \E k \in Holdings : Revalue(k) \/ Buy(k) \/ Sell(k)
                 \/ \E o \in Others : Poll(o)
          PROVE  UNCHANGED cache
      BY <2>5 DEF Attempt, DialFails, FetchPositions, SeedingFails, LookedUp,
         RefreshDue, Drop, RetryNow, Disconnect, Midnight, vars, Tick, Revalue,
         Buy, Sell, PortfolioEvent, Poll, closeVars
    <2> QED
      BY <1>2, <2>1, <2>3, <2>4, <2>5 DEF Next
  <1> QED
    BY <1>1, <1>2, LiveInvariant, PTL DEF Spec

-----------------------------------------------------------------------------
(* Rows and entries, if no contract is held by two accounts.  Otherwise     *)
(* they part: the update of one account's row may take over the entry while *)
(* the other's contract is looked up.                                       *)

(* A position written to a row, and to the entry of its contract if there   *)
(* is one: a live one is written to both.                                   *)
LEMMA UpdateFollows ==
    ASSUME StreamInv, UNCHANGED <<phase, current, todo>>,
           NEW h \in Holdings, NEW new \in Positions, new.key = h,
           rows' = [rows EXCEPT ![h] = new],
           \/ /\ streaming[h[2]] # None
              /\ streaming' = [streaming EXCEPT ![h[2]] = new]
           \/ /\ streaming[h[2]] = None /\ new.src = "mark"
              /\ streaming' = streaming
    PROVE  SeedInv' /\ RowsFollowStream'
  <1>1. /\ h \in Keys /\ h[2] \in Contracts /\ new # None /\ Streamed' = Streamed
        /\ \A k \in Keys : rows'[k] = IF k = h THEN new ELSE rows[k]
        /\ \A c \in Contracts : c # h[2] => streaming'[c] = streaming[c]
    BY KeyFacts DEF StreamInv, LiveInv, TypeOK, Streamed
  <1>2. \A c \in Streamed : streaming[c].key[2] = c /\ streaming[c].key \in Keys
    BY KeyFacts DEF StreamInv, LiveInv, TypeOK, EntriesInv, Streamed
  <1>3. RowsFollowStream'
    <2>1. ASSUME NEW c \in Streamed
          PROVE  /\ rows'[streaming'[c].key] # None
                 /\ rows'[streaming'[c].key].src = "live"
                    /\ ~rows'[streaming'[c].key].stale =>
                       rows'[streaming'[c].key] = streaming'[c]
      <3>1. CASE c = h[2]
        <4>1. streaming'[c] = new
          BY <1>1, <2>1, <3>1 DEF StreamInv, LiveInv, TypeOK, Streamed
        <4> QED
          BY <1>1, <4>1
      <3>2. CASE c # h[2]
        <4>1. streaming'[c] = streaming[c] /\ streaming[c].key # h
          BY <1>1, <1>2, <2>1, <3>2 DEF Streamed
        <4> QED
          BY <1>1, <1>2, <2>1, <4>1 DEF StreamInv, RowsFollowStream
      <3> QED
        BY <3>1, <3>2
    <2> QED
      BY <1>1, <2>1 DEF RowsFollowStream
  <1>4. SeedInv'
    <2>1. ASSUME phase = "seeding"
          PROVE  /\ streaming'[current.key[2]] = None
                 /\ \A p \in todo : streaming'[p.key[2]] = None
                 /\ rows'[current.key].src = "live" /\ ~rows'[current.key].stale
                    => rows'[current.key] = current
      <3>1. /\ current \in Positions /\ todo \subseteq Positions
        BY <2>1 DEF StreamInv, LiveInv, ConnectInv, TypeOK
      <3>2. /\ current.key \in Keys /\ current.key[2] \in Contracts
            /\ \A p \in todo : p.key[2] \in Contracts
        BY <3>1, KeyFacts
      <3>3. /\ streaming[current.key[2]] = None
            /\ \A p \in todo : streaming[p.key[2]] = None
            /\ rows[current.key].src = "live" /\ ~rows[current.key].stale
               => rows[current.key] = current
        BY <2>1 DEF StreamInv, SeedInv
      <3>4. \A c \in Contracts : streaming[c] = None => streaming'[c] = None
        BY <1>1
      <3>5. CASE current.key = h
        <4>1. rows'[current.key] = new /\ new.src = "mark"
          BY <1>1, <3>2, <3>3, <3>5
        <4> QED
          BY <3>2, <3>3, <3>4, <4>1
      <3>6. CASE current.key # h
        BY <1>1, <3>2, <3>3, <3>4, <3>6
      <3> QED
        BY <3>5, <3>6
    <2> QED
      BY <1>1, <2>1 DEF StreamInv, SeedInv
  <1> QED
    BY <1>3, <1>4

(* The for loop of _start_streaming: the contracts it still has to write    *)
(* have no entry, and the entry just made, if any, has its row.             *)
LEMMA SeedFollows ==
    ASSUME OneHolder, TypeOK, NEW rest \in SUBSET Positions,
           NEW cash \in SUBSET CashPositions, SeedNext(rest, cash),
           \A p, q \in rest : p.key = q.key => p = q,
           \A p \in rest : streaming'[p.key[2]] = None,
           \A c \in Contracts : streaming'[c] # None =>
              /\ streaming'[c].key \in Holdings /\ streaming'[c].key[2] = c
              /\ rows[streaming'[c].key] # None
              /\ rows[streaming'[c].key].src = "live"
                 /\ ~rows[streaming'[c].key].stale =>
                    rows[streaming'[c].key] = streaming'[c]
    PROVE  SeedInv' /\ RowsFollowStream'
  <1>1. CASE \E p \in rest :
                 /\ \A k \in Keys : rows'[k] = IF k = p.key THEN p ELSE rows[k]
                 /\ current' = p /\ todo' = rest \ {p} /\ cashRows' = cash
                 /\ phase' = "seeding" /\ UNCHANGED <<state, refresh>>
                 /\ rows' \in [Keys -> {None} \cup Positions \cup CashPositions]
    <2>1. PICK p \in rest :
                 /\ \A k \in Keys : rows'[k] = IF k = p.key THEN p ELSE rows[k]
                 /\ current' = p /\ todo' = rest \ {p} /\ phase' = "seeding"
      BY <1>1
    <2>2. p.key \in Holdings /\ p.key \in Keys /\ p.key[2] \in Contracts
      BY KeyFacts
    <2>3. SeedInv'
      <3>1. rows'[current'.key] = current'
        BY <2>1, <2>2
      <3> QED
        BY <2>1, <3>1 DEF SeedInv
    <2>4. ASSUME NEW c \in Streamed'
          PROVE  rows'[streaming'[c].key] = rows[streaming'[c].key]
                 /\ c \in Contracts /\ streaming'[c] # None
      <3>1. c \in Contracts /\ streaming'[c] # None
        BY DEF Streamed
      <3>2. streaming'[c].key # p.key /\ streaming'[c].key \in Keys
        BY <3>1, KeyFacts
      <3> QED
        BY <2>1, <3>1, <3>2
    <2>5. RowsFollowStream'
      BY <2>4 DEF RowsFollowStream
    <2> QED
      BY <2>3, <2>5
  <1>2. CASE \A k \in Holdings : rows'[k] = rows[k]
    <2>1. RowsFollowStream'
      BY <1>2 DEF RowsFollowStream, Streamed
    <2>2. CASE phase' = "idle"
      BY <2>1, <2>2 DEF SeedInv
    <2> QED
      BY <1>1, <2>2, SeedNextFacts
  <1> QED
    BY <1>1, <1>2, SeedNextFacts

(* Every step keeps the rows with their entries.                            *)
LEMMA StreamStep ==
    ASSUME OneHolder, StreamInv, [Next]_vars
    PROVE  SeedInv' /\ RowsFollowStream'
  <1>0. /\ LiveInv /\ TypeOK /\ SeedInv /\ RowsFollowStream
        /\ \A c \in Streamed : /\ c \in Contracts /\ streaming[c] \in Positions
                               /\ streaming[c].key \in Holdings
                               /\ streaming[c].key[2] = c
    BY KeyFacts DEF StreamInv, LiveInv, TypeOK, EntriesInv, Streamed
  <1>1. CASE \/ Attempt \/ DialFails \/ SeedingFails \/ Disconnect
    <2>1. /\ phase' \notin {"closes", "seeding"} /\ UNCHANGED rows
          /\ \/ streaming' = [c \in Contracts |-> None]
             \/ UNCHANGED streaming /\ phase' # "dialled"
      BY <1>1 DEF Attempt, DialFails, SeedingFails, Disconnect
    <2> QED
      BY <1>0, <2>1 DEF SeedInv, RowsFollowStream, Streamed
  <1>2. CASE \/ FetchPositions \/ RefreshDue \/ Midnight \/ UNCHANGED vars
             \/ \E o \in Others : Poll(o)
    <2>1. /\ UNCHANGED <<rows, streaming, current, todo>>
          /\ UNCHANGED phase \/ (phase = "dialled" /\ phase' = "closes")
      BY <1>2 DEF FetchPositions, RefreshDue, Midnight, Poll, vars, seedVars
    <2> QED
      BY <1>0, <2>1 DEF SeedInv, RowsFollowStream, Streamed
  <1>3. ASSUME NEW c \in Contracts, Tick(c) PROVE SeedInv' /\ RowsFollowStream'
    <2>1. PICK new \in Positions :
              /\ streaming[c] \in Positions /\ streaming[c] # None
              /\ new.key = streaming[c].key /\ ~new.stale
              /\ streaming' = [streaming EXCEPT ![c] = new]
              /\ rows' = [rows EXCEPT ![new.key] = new]
      BY <1>0, <1>3, TickFacts
    <2>2. new.key \in Holdings /\ new.key[2] = c
      BY <1>0, <2>1 DEF Streamed
    <2>3. UNCHANGED <<phase, current, todo>>
      BY <1>3 DEF Tick, seedVars
    <2> QED
      BY <2>1, <2>2, <2>3, UpdateFollows
  <1>4. ASSUME NEW k \in Holdings, Revalue(k) \/ Buy(k) \/ Sell(k)
        PROVE  SeedInv' /\ RowsFollowStream'
    <2>0. PICK item \in Items : PortfolioEvent(k, item)
      BY <1>4 DEF Revalue, Buy, Sell
    <2>1. /\ UNCHANGED <<phase, current, todo>>
          /\ PortfolioUpdate(k, item) \/ UNCHANGED <<rows, streaming>>
      BY <2>0 DEF PortfolioEvent, seedVars
    <2>2. CASE UNCHANGED <<rows, streaming>>
      BY <1>0, <2>1, <2>2 DEF SeedInv, RowsFollowStream, Streamed
    <2>3. CASE PortfolioUpdate(k, item) /\ ~UNCHANGED <<rows, streaming>>
      <3>1. PICK h \in Holdings, new \in Positions :
               /\ h[2] = k[2] /\ rows[h] # None
               /\ new.key = h /\ ~new.stale /\ new.src = "mark"
               /\ rows' = [rows EXCEPT ![h] = new]
               /\ streaming' = IF streaming[k[2]] # None
                               THEN [streaming EXCEPT ![k[2]] = new]
                               ELSE streaming
        BY <1>0, <2>3, PortfolioUpdateFacts
      <3> QED
        BY <2>1, <3>1, UpdateFollows
    <2> QED
      BY <2>1, <2>2, <2>3
  <1>5. CASE Reseed
    <2>1. PICK renewed \in SUBSET Streamed :
              /\ \A c \in renewed : /\ streaming'[c] \in Positions
                                    /\ streaming'[c].key = streaming[c].key
                                    /\ streaming'[c].stale = streaming[c].stale
              /\ \A c \in Contracts \ renewed : streaming'[c] = streaming[c]
              /\ \A k \in Keys : rows'[k] =
                    IF k \in Holdings /\ k[2] \in renewed
                       /\ streaming[k[2]].key = k
                    THEN streaming'[k[2]] ELSE rows[k]
      BY <1>5, ReseedFacts DEF StreamInv, LiveInv
    <2>2. UNCHANGED <<phase, current, todo>>
      BY <1>5 DEF Reseed, seedVars
    <2>3. Streamed' = Streamed
      BY <1>0, <2>1, KeyFacts DEF Streamed
    <2>4. RowsFollowStream'
      <3>1. ASSUME NEW c \in Streamed
            PROVE  \/ rows'[streaming'[c].key] = streaming'[c]
                      /\ streaming'[c] # None
                   \/ /\ streaming'[c] = streaming[c]
                      /\ rows'[streaming'[c].key] = rows[streaming[c].key]
        <4>1. streaming[c].key \in Keys
          BY <1>0, KeyFacts
        <4>2. CASE c \in renewed
          BY <1>0, <2>1, <4>1, <4>2, KeyFacts
        <4>3. CASE c \notin renewed
          BY <1>0, <2>1, <4>1, <4>3
        <4> QED
          BY <4>2, <4>3
      <3> QED
        BY <1>0, <2>3, <3>1 DEF RowsFollowStream
    <2>5. SeedInv'
      <3>1. ASSUME phase = "seeding"
            PROVE  /\ rows'[current.key] = rows[current.key]
                   /\ streaming'[current.key[2]] = streaming[current.key[2]]
                   /\ \A p \in todo : streaming'[p.key[2]] = streaming[p.key[2]]
        <4>1. /\ current \in Positions /\ todo \subseteq Positions
          BY <3>1 DEF StreamInv, LiveInv, ConnectInv, TypeOK
        <4>2. /\ current.key \in Keys /\ current.key[2] \in Contracts
              /\ \A p \in todo : p.key[2] \in Contracts
          BY <4>1, KeyFacts
        <4>3. /\ current.key[2] \notin Streamed
              /\ \A p \in todo : p.key[2] \notin Streamed
          BY <1>0, <3>1 DEF SeedInv, Streamed
        <4> QED
          BY <2>1, <4>2, <4>3
      <3> QED
        BY <1>0, <2>2, <2>3, <3>1 DEF SeedInv
    <2> QED
      BY <2>4, <2>5
  <1>6. CASE Drop \/ RetryNow
    <2>1. /\ UNCHANGED <<phase, current, todo, streaming>>
          /\ UNCHANGED rows \/ (MarkStale /\ phase # "seeding")
      BY <1>6 DEF StreamInv, LiveInv, ConnectInv, Drop, RetryNow, seedVars
    <2>2. CASE UNCHANGED rows
      BY <1>0, <2>1, <2>2 DEF SeedInv, RowsFollowStream, Streamed
    <2>3. CASE MarkStale /\ phase # "seeding"
      <3>1. ASSUME NEW c \in Streamed
            PROVE  rows'[streaming[c].key] # None /\ rows'[streaming[c].key].stale
        <4>1. streaming[c].key \in Keys /\ rows[streaming[c].key] # None
          BY <1>0, KeyFacts DEF RowsFollowStream
        <4>2. rows[streaming[c].key] \in Positions
          BY <1>0, <4>1, RowFacts
        <4>3. rows'[streaming[c].key]
                = [rows[streaming[c].key] EXCEPT !.stale = TRUE]
          BY <1>0, <2>3, <4>1 DEF MarkStale
        <4>4. rows'[streaming[c].key] \in Positions
              /\ rows'[streaming[c].key].stale = TRUE
          BY <4>2, <4>3 DEF Positions
        <4> QED
          BY <4>4, KeyFacts
      <3>2. RowsFollowStream'
        BY <2>1, <3>1 DEF RowsFollowStream, Streamed
      <3> QED
        BY <1>0, <2>1, <2>3, <3>2 DEF SeedInv, Streamed
    <2> QED
      BY <2>1, <2>2, <2>3
  <1>7. CASE BuildPositions
    <2>1. phase = "closes" /\ call \in Calls /\ UNCHANGED streaming
      BY <1>7 DEF BuildPositions, StreamInv, LiveInv, ConnectInv
    <2>2. PICK fresh \in Fetched(call), quote \in Quotes,
               cs \in SUBSET Contracts, cash \in CashAccounts :
             SeedNext(Built(fresh, quote, cs), {CashPosition(a) : a \in cash})
      BY <1>7, Zenon DEF BuildPositions, Built
    <2> DEFINE rest == Built(fresh, quote, cs)
               coins == {CashPosition(a) : a \in cash}
    <2>3. /\ rest \in SUBSET Positions
          /\ \A p, q \in rest : p.key = q.key => p = q
      BY <1>0, <2>1, BuildFacts
    <2>4. coins \in SUBSET CashPositions /\ SeedNext(rest, coins)
      BY <2>2, CashFacts
    <2> HIDE DEF rest, coins
    <2>5. \A c \in Contracts : streaming'[c] = None
      BY <1>0, <2>1 DEF SeedInv, Streamed
    <2>6. \A p \in rest : p.key[2] \in Contracts
      BY <2>3, KeyFacts
    <2> QED
      BY <1>0, <2>3, <2>4, <2>5, <2>6, SeedFollows
  <1>8. CASE LookedUp
    <2>1. /\ phase = "seeding" /\ current \in Positions
          /\ SeedNext(todo, cashRows)
          /\ \/ UNCHANGED streaming
             \/ streaming' = [streaming EXCEPT ![current.key[2]] = current]
      BY <1>8 DEF LookedUp, StreamInv, LiveInv, ConnectInv
    <2>2. /\ current.key \in Holdings /\ current.key[2] \in Contracts
          /\ rows[current.key] # None
          /\ todo \in SUBSET Positions /\ cashRows \in SUBSET CashPositions
      BY <2>1, KeyFacts DEF StreamInv, LiveInv, EntriesInv, TypeOK
    <2>3. /\ \A p, q \in todo : p.key = q.key => p = q
          /\ \A p \in todo : streaming[p.key[2]] = None /\ p.key # current.key
          /\ rows[current.key].src = "live" /\ ~rows[current.key].stale
             => rows[current.key] = current
      BY <1>0, <2>1 DEF SeedInv
    <2>4. \A c \in Contracts : streaming'[c] = streaming[c]
             \/ (c = current.key[2] /\ streaming'[c] = current)
      BY <1>0, <2>1, <2>2 DEF TypeOK
    <2>5. \A p \in todo : streaming'[p.key[2]] = None
      <3>1. \A p \in todo : p.key \in Holdings /\ p.key[2] \in Contracts
        BY <2>2, KeyFacts
      <3> QED
        BY <2>2, <2>3, <2>4, <3>1 DEF OneHolder
    <2>6. \A c \in Contracts : streaming'[c] # None =>
              /\ streaming'[c].key \in Holdings /\ streaming'[c].key[2] = c
              /\ rows[streaming'[c].key] # None
              /\ rows[streaming'[c].key].src = "live"
                 /\ ~rows[streaming'[c].key].stale =>
                    rows[streaming'[c].key] = streaming'[c]
      BY <1>0, <2>2, <2>3, <2>4 DEF RowsFollowStream, Streamed
    <2> QED
      BY <1>0, <2>1, <2>2, <2>3, <2>5, <2>6, SeedFollows
  <1> QED
    BY <1>1, <1>2, <1>3, <1>4, <1>5, <1>6, <1>7, <1>8 DEF Next

(* If no contract is held by two accounts, the row of a streamed holding    *)
(* that shows a live price is the position of its entry: ticks, updates,    *)
(* re-seeds, drops and seedings may come in any order.                      *)
THEOREM StreamedRowsFollow == OneHolder => (Spec => []RowsFollowStream)
  <1> SUFFICES ASSUME OneHolder PROVE Spec => []RowsFollowStream
    OBVIOUS
  <1>1. Init => SeedInv /\ RowsFollowStream
    BY DEF Init, SeedInv, RowsFollowStream, Streamed
  <1>2. LiveInv /\ SeedInv /\ RowsFollowStream /\ [Next]_vars =>
           SeedInv' /\ RowsFollowStream'
    BY StreamStep DEF StreamInv
  <1> QED
    BY <1>1, <1>2, LiveInvariant, PTL DEF Spec

=============================================================================
