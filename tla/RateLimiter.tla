----------------------------- MODULE RateLimiter -----------------------------
(***************************************************************************)
(* The rate limiting middleware of the MCP server: one token bucket per    *)
(* session, made when the session first calls, dropped when it has been    *)
(* idle for long, and all of them discarded when the settings change.      *)
(*                                                                         *)
(* A call reads the settings, takes its bucket under the mutex, and spends *)
(* a token after it has let go of the mutex; reloads, other calls and the  *)
(* reaper come in between.  Time passes in ticks; what has an age counts   *)
(* the ticks, up to the bound that matters.                                *)
(***************************************************************************)
EXTENDS Naturals, FiniteSets

CONSTANTS
  Sessions, Calls,  \* sessions, and goroutines that handle their requests
  Configured,       \* the values of [http] rate_limit_rps and rate_limit_burst
  DefaultBurst,     \* config.DefaultRateLimitBurst
  ReapAfter,        \* ticks a session may idle (ten minutes)
  ReapEvery         \* ticks between two runs of the reaper (five minutes)

Setting == [limit: Nat, burst: Nat]   \* limit: tokens a tick

\* What the middleware is given: an unset burst has a default.
Effective(s) == IF s.burst = 0 THEN [s EXCEPT !.burst = DefaultBurst] ELSE s

\* A full bucket has been refilled by the time its session counts as idle.
ASSUME RateAssumption ==
  /\ IsFiniteSet(Sessions) /\ IsFiniteSet(Calls)
  /\ Configured \subseteq Setting /\ DefaultBurst \in Nat \ {0}
  /\ ReapAfter \in Nat /\ ReapEvery \in Nat \ {0}
  /\ \A s \in Configured : s.limit > 0 => s.limit * ReapAfter >= Effective(s).burst

Unset == [limit |-> 0, burst |-> 0]
Settings == {Effective(s) : s \in Configured} \cup {Unset}

\* As many buckets as can be referred to at a time.
Buckets == 1 .. (Cardinality(Sessions) + Cardinality(Calls))
None == 0

VARIABLES
  settings,   \* what a call would read
  current,    \* currentLimit and currentBurst
  limiters,   \* the bucket of each session, or None
  bucket,     \* the rate.Limiter objects: their setting, and the tokens in them
  idle,       \* ticks since the session was last seen
  ticker,     \* ticks since the reaper last ran
  closed,     \* rateLimitDone
  call,       \* what each call has: its place, session, settings read, bucket
  spent       \* what an ideal bucket of the session, never dropped, is short of

limiterVars == <<settings, current, limiters, bucket, idle, ticker, closed, call, spent>>

NoCall(s) == [at |-> "idle", session |-> s, read |-> Unset, entry |-> None]

LimiterTypeOK ==
  /\ settings \in Settings /\ current \in Settings
  /\ limiters \in [Sessions -> Buckets \cup {None}]
  /\ bucket \in [Buckets -> [setting: Settings, tokens: Nat]]
  /\ idle \in [Sessions -> 0 .. (ReapAfter + ReapEvery + 1)]
  /\ ticker \in 0 .. ReapEvery
  /\ closed \in BOOLEAN
  /\ call \in [Calls -> [at: {"idle", "lock", "allow"}, session: Sessions,
                         read: Settings, entry: Buckets \cup {None}]]
  /\ spent \in [Sessions -> Nat]

LimiterInit ==
  /\ settings \in Settings \ {Unset}
  /\ current = Unset
  /\ limiters = [s \in Sessions |-> None]
  /\ bucket = [b \in Buckets |-> [setting |-> Unset, tokens |-> 0]]
  /\ idle = [s \in Sessions |-> 0]
  /\ ticker = 0
  /\ closed = FALSE
  /\ call \in [Calls -> {NoCall(s) : s \in Sessions}]
  /\ spent = [s \in Sessions |-> 0]

Least(a, b) == IF a < b THEN a ELSE b
Less(a, b) == IF a < b THEN 0 ELSE a - b

\* A reload puts new settings in force.
Configure ==
  /\ settings' \in Settings \ {Unset, settings}
  /\ UNCHANGED <<current, limiters, bucket, idle, ticker, closed, call, spent>>

\* A request of a session arrives, and reads the settings under s.mu.  With
\* the limit off it passes.
Read(c, s) ==
  /\ call[c].at = "idle" /\ settings.limit > 0
  /\ call' = [call EXCEPT ![c] = [NoCall(s) EXCEPT !.at = "lock", !.read = settings]]
  /\ UNCHANGED <<settings, current, limiters, bucket, idle, ticker, closed, spent>>

\* The buckets nobody refers to, when the sessions have those of left.
Free(left) ==
  Buckets \ ({left[s] : s \in Sessions} \cup
             {call[c].entry : c \in {d \in Calls : call[d].at = "allow"}})

\* rate.NewLimiter: the session gets a new bucket, and it is full.
NewLimiter(s, setting, left) ==
  LET b == CHOOSE a \in Free(left) : TRUE
  IN /\ limiters' = [left EXCEPT ![s] = b]
     /\ bucket' = [bucket EXCEPT ![b] = [setting |-> setting, tokens |-> setting.burst]]

\* A defect: only the first call of a session counts as a sign of life.
LockUnseen(c) ==
  LET s == call[c].session
      changed == call[c].read # current
      left == IF changed THEN [q \in Sessions |-> None] ELSE limiters
  IN /\ call[c].at = "lock"
     /\ current' = call[c].read
     /\ spent' = IF changed THEN [q \in Sessions |-> 0] ELSE spent
     /\ IF left[s] = None
        THEN NewLimiter(s, call[c].read, left) /\ idle' = [idle EXCEPT ![s] = 0]
        ELSE limiters' = left /\ UNCHANGED <<bucket, idle>>
     /\ call' = [call EXCEPT ![c].at = "allow", ![c].entry = limiters'[s]]
     /\ UNCHANGED <<settings, ticker, closed>>

\* Under mu: settings other than the last call's discard every bucket; the
\* session's bucket is found or made, and its last sign of life noted.
Lock(c) ==
  LET s == call[c].session
      changed == call[c].read # current
      left == IF changed THEN [q \in Sessions |-> None] ELSE limiters
  IN /\ call[c].at = "lock"
     /\ current' = call[c].read
     /\ spent' = IF changed THEN [q \in Sessions |-> 0] ELSE spent
     /\ IF left[s] = None THEN NewLimiter(s, call[c].read, left)
        ELSE limiters' = left /\ UNCHANGED bucket
     /\ idle' = [idle EXCEPT ![s] = 0]
     /\ call' = [call EXCEPT ![c].at = "allow", ![c].entry = limiters'[s]]
     /\ UNCHANGED <<settings, ticker, closed>>

\* Limiter.Allow, with the mutex free: a bucket that has been discarded since
\* is spent from all the same.
Allow(c) ==
  LET b == call[c].entry
      s == call[c].session
      granted == IF bucket[b].tokens > 0 THEN 1 ELSE 0
  IN /\ call[c].at = "allow"
     /\ bucket' = [bucket EXCEPT ![b].tokens = @ - granted]
     /\ spent' = [spent EXCEPT ![s] = IF limiters[s] = b THEN @ + granted ELSE @]
     /\ call' = [call EXCEPT ![c] = NoCall(s)]
     /\ UNCHANGED <<settings, current, limiters, idle, ticker, closed>>

\* A tick: buckets fill, ideal ones too, and the ticker goes on.  The reaper,
\* when it is due, runs before the next tick.  Ticks are minutes: no call takes
\* one to get from the mutex to its bucket.
Tick ==
  /\ \A c \in Calls : call[c].at # "allow"
  /\ closed \/ ticker < ReapEvery
  /\ ticker' = IF closed THEN ticker ELSE ticker + 1
  /\ bucket' = [b \in Buckets |-> [bucket[b] EXCEPT
       !.tokens = Least(@ + bucket[b].setting.limit, bucket[b].setting.burst)]]
  /\ spent' = [s \in Sessions |-> Less(spent[s], current.limit)]
  /\ idle' = [s \in Sessions |-> Least(idle[s] + 1, ReapAfter + ReapEvery + 1)]
  /\ UNCHANGED <<settings, current, limiters, closed, call>>

\* A defect: the reaper forgets to let idle sessions go.
ReapNone ==
  /\ ~closed /\ ticker = ReapEvery
  /\ ticker' = 0
  /\ UNCHANGED <<settings, current, limiters, bucket, idle, closed, call, spent>>

\* The reaper, under mu.
Reap ==
  /\ ~closed /\ ticker = ReapEvery
  /\ ticker' = 0
  /\ limiters' = [s \in Sessions |-> IF idle[s] > ReapAfter THEN None ELSE limiters[s]]
  /\ UNCHANGED <<settings, current, bucket, idle, closed, call, spent>>

\* Server.Close: the reaper returns; calls may still come.
Close ==
  /\ ~closed /\ closed' = TRUE
  /\ UNCHANGED <<settings, current, limiters, bucket, idle, ticker, call, spent>>

LimiterNext ==
  \/ Configure \/ Tick \/ Reap \/ Close
  \/ \E c \in Calls : Lock(c) \/ Allow(c) \/ \E s \in Sessions : Read(c, s)

LimiterSpec == LimiterInit /\ [][LimiterNext]_limiterVars

-----------------------------------------------------------------------------

\* A session that is dropped and comes back with a full bucket gains nothing by
\* it: since the settings last changed it has been granted no more than one
\* bucket that was never dropped would have granted (lastSeen and the reaper).
RateHeld == \A s \in Sessions : spent[s] <= current.burst

\* While the server is open no idle session is kept for longer than the two
\* periods of the reaper together, so the map is bounded by the sessions seen
\* lately.
IdleDropped ==
  \A s \in Sessions :
    ~closed /\ limiters[s] # None => idle[s] <= ReapAfter + ReapEvery

(* The two, made inductive.                                                *)

\* A bucket belongs to one session, also while a call has yet to spend from it.
OneOwner ==
  /\ \A s, q \in Sessions : limiters[s] = limiters[q] /\ limiters[s] # None => s = q
  /\ \A c \in Calls, q \in Sessions :
       call[c].at = "allow" /\ limiters[q] = call[c].entry => q = call[c].session

\* What a call read had the limit on; one that has its bucket was seen just now.
CallsSeen ==
  /\ \A c \in Calls : call[c].at = "lock" => call[c].read.limit > 0
  /\ \A c \in Calls : call[c].at = "allow" => idle[call[c].session] = 0 /\ call[c].entry # None

\* What is left in a session's bucket is never more than what an ideal one would
\* have left, and the ideal one is full again ReapAfter ticks after the session
\* was last seen.
NothingGained ==
  \A s \in Sessions :
    /\ limiters[s] = None => spent[s] = 0
    /\ limiters[s] # None => /\ bucket[limiters[s]].setting = current /\ current.limit > 0
                             /\ bucket[limiters[s]].tokens + spent[s] <= current.burst
    /\ spent[s] > 0 => spent[s] + idle[s] * current.limit <= current.burst

\* The reaper is never late.
ReaperOnTime ==
  \A s \in Sessions : ~closed /\ limiters[s] # None => idle[s] <= ReapAfter + ticker

LimiterInv == OneOwner /\ CallsSeen /\ NothingGained /\ ReaperOnTime
=============================================================================
