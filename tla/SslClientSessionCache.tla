------------------------ MODULE SslClientSessionCache ------------------------
(***************************************************************************)
(* SSLClientSessionCache of net/ssl/ssl_client_session_cache.cc.  Each     *)
(* cache key holds an Entry of two session slots: sessions[0] is the one   *)
(* Lookup hands out, sessions[1] keeps the previous session while          *)
(* sessions[0] is single-use (TLS 1.3 tickets).  The entries live in an    *)
(* MRUCache of config.max_entries (base/containers/mru_cache.h, not in the *)
(* repository): Get moves a key to the front, Put shrinks the cache to     *)
(* max_entries - 1 before it inserts at the front.  Every public method    *)
(* runs under lock_, so each is one step.  The clock is the wall clock and *)
(* may be set back.                                                        *)
(***************************************************************************)
EXTENDS Integers, Sequences
LOCAL INSTANCE SequencesExt

CONSTANTS
  Keys,                     \* cache keys (server host and port)
  max_entries,              \* config_.max_entries
  expiration_check_count,   \* config_.expiration_check_count
  ClockValues,              \* the values clock_->Now().ToTimeT() may take
  Timeouts,                 \* SSL_SESSION_get_timeout of new sessions
  MaxInserts                \* bound on sessions inserted

\* An SSL_SESSION: an id, SSL_SESSION_should_be_single_use, and its time and
\* timeout; Null is the nullptr of an empty slot or of a Lookup miss.
Null == [id |-> 0, single |-> FALSE, time |-> 0, timeout |-> 0]

VARIABLES
  cache,                \* cache_: <<key, entry>> pairs, most recent first
  lookups_since_flush,  \* lookups_since_flush_
  now,                  \* clock_->Now()
  issued,               \* the sessions Insert was given, in order (history)
  served                \* how often Lookup returned each issued session,
                        \* counted up to ServedCap

vars == <<cache, lookups_since_flush, now, issued, served>>

\* The served counts saturate here: twice is already one too many for a
\* single-use session, and a reusable one may be served without end.
ServedCap == 2

-----------------------------------------------------------------------------
\* The MRUCache calls the cache makes.

Slot(c, key) == IF \E i \in 1..Len(c) : c[i].key = key
                THEN CHOOSE i \in 1..Len(c) : c[i].key = key ELSE 0

\* cache_.Get(key): a hit moves the pair to the front.
MruGet(c, key) ==
  LET i == Slot(c, key) IN IF i = 0 THEN c ELSE <<c[i]>> \o RemoveAt(c, i)

\* cache_.Put(key, entry) for a key not in the cache.
MruPut(c, key, e) ==
  <<[key |-> key, entry |-> e]>> \o SubSeq(c, 1, Min({Len(c), max_entries - 1}))

\* cache_.Erase of the pair at the front (the one Get just moved there).
MruEraseFront(c) == Tail(c)

-----------------------------------------------------------------------------

\* SSLClientSessionCache::IsExpired: a clock before 1970, a session from the
\* future, or past its timeout.
IsExpired(s, t) == t < 0 \/ t < s.time \/ t >= s.time + s.timeout

EmptyEntry == [s0 |-> Null, s1 |-> Null]

\* Entry::Push: a single-use session in sessions[0] moves to sessions[1].
Push(e, s) ==
  IF e.s0 # Null /\ e.s0.single THEN [s0 |-> s, s1 |-> e.s0]
  ELSE [e EXCEPT !.s0 = s]

\* Mutant: Pop hands out sessions[0] without taking a single-use one out.
PopKeepsSingleUse(e) == [session |-> e.s0, entry |-> e]

\* Entry::Pop: returns sessions[0]; a single-use one is taken out and
\* sessions[1] moves up.  The result and the entry left behind.
Pop(e) ==
  IF e.s0 # Null /\ e.s0.single
    THEN [session |-> e.s0, entry |-> [s0 |-> e.s1, s1 |-> Null]]
    ELSE [session |-> e.s0, entry |-> e]

\* Entry::ExpireSessions: TRUE when the entry is to be erased (sessions[0]
\* null or expired); otherwise an expired sessions[1] is dropped.
ExpireSessions(e, t) ==
  [erase |-> e.s0 = Null \/ IsExpired(e.s0, t),
   entry |-> IF e.s1 # Null /\ IsExpired(e.s1, t) THEN [e EXCEPT !.s1 = Null]
             ELSE e]

\* SSLClientSessionCache::FlushExpiredSessions over the whole cache.
FlushExpiredSessions(c, t) ==
  LET kept == SelectSeq(c, LAMBDA p : ~ExpireSessions(p.entry, t).erase)
  IN  [i \in 1..Len(kept) |->
         [kept[i] EXCEPT !.entry = ExpireSessions(@, t).entry]]

\* A Lookup's result: the session handed out (Null for none) and the cache.
Served(s, c) == [session |-> s, cache |-> c]

\* The part of SSLClientSessionCache::Lookup after the periodic flush:
\* Get, Pop, erase the entry if ExpireSessions says so, and hand out the
\* popped session only if it has not expired.
LookupEntry(c, key, t) ==
  LET g == MruGet(c, key)
  IN  IF Slot(c, key) = 0 THEN Served(Null, c)
      ELSE LET p == Pop(g[1].entry)
               x == ExpireSessions(p.entry, t)
               c2 == IF x.erase THEN MruEraseFront(g)
                     ELSE [g EXCEPT ![1].entry = x.entry]
           IN  Served(IF p.session # Null /\ IsExpired(p.session, t)
                        THEN Null ELSE p.session, c2)

-----------------------------------------------------------------------------

\* The constructor: an empty cache_ and lookups_since_flush_ 0.
Init ==
  /\ cache = << >>
  /\ lookups_since_flush = 0
  /\ now \in ClockValues
  /\ issued = << >>
  /\ served = << >>

\* SSLClientSessionCache::Lookup: count the lookup and flush expired
\* sessions every expiration_check_count lookups, then look the key up.
Lookup(key) ==
  LET n  == lookups_since_flush + 1
      c1 == IF n >= expiration_check_count THEN FlushExpiredSessions(cache, now)
            ELSE cache
      r  == LookupEntry(c1, key, now)
      s  == r.session
  IN  /\ lookups_since_flush' = IF n >= expiration_check_count THEN 0 ELSE n
      /\ cache' = r.cache
      /\ served' = IF s = Null THEN served ELSE [served EXCEPT ![s.id] =
                                                    IF @ < ServedCap THEN @ + 1 ELSE @]
      /\ UNCHANGED <<now, issued>>

\* SSLClientSessionCache::ResetLookupCount: only the Get, which refreshes
\* the key's place in the MRU order.
ResetLookupCount(key) ==
  /\ cache' = MruGet(cache, key)
  /\ UNCHANGED <<lookups_since_flush, now, issued, served>>

\* SSLClientSessionCache::Insert of a new session from a handshake: Get the
\* key, Put an empty Entry if it is missing, and Push the session.
Insert(key) ==
  /\ Len(issued) < MaxInserts
  /\ \E single \in BOOLEAN, timeout \in Timeouts :
       LET s  == [id |-> Len(issued) + 1, single |-> single, time |-> now,
                  timeout |-> timeout]
           g  == IF Slot(cache, key) = 0 THEN MruPut(cache, key, EmptyEntry)
                 ELSE MruGet(cache, key)
       IN  /\ cache' = [g EXCEPT ![1].entry = Push(@, s)]
           /\ issued' = Append(issued, s)
           /\ served' = Append(served, 0)
  /\ UNCHANGED <<lookups_since_flush, now>>

\* SSLClientSessionCache::Flush (also the destructor): cache_.Clear().
Flush ==
  /\ cache' = << >>
  /\ UNCHANGED <<lookups_since_flush, now, issued, served>>

\* The wall clock moves, forwards or back.
SetClock ==
  /\ \E t \in ClockValues \ {now} : now' = t
  /\ UNCHANGED <<cache, lookups_since_flush, issued, served>>

Next ==
  \/ \E key \in Keys : Lookup(key) \/ ResetLookupCount(key) \/ Insert(key)
  \/ Flush
  \/ SetClock

Spec == Init /\ [][Next]_vars

-----------------------------------------------------------------------------

\* A single-use session is handed out at most once, however Inserts of the
\* same key, Lookups, flushes and evictions interleave: Push must keep it in
\* a slot Pop takes it out of.
SingleUseServedOnce ==
  \A i \in 1..Len(issued) : issued[i].single => served[i] <= 1
====
