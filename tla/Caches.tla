------------------------------- MODULE Caches -------------------------------
(***************************************************************************)
(* The caches behind the replay guard, the tokens and the rate limits: the *)
(* maps of one process (MemoryCacheProvider), which sweeps what has run    *)
(* out when it is asked, and Redis, which drops a key when its time is up. *)
(* One nonce, one token and one rate window are followed.                  *)
(***************************************************************************)
EXTENDS Integers

CONSTANTS
  Ttl,         \* the time a nonce, a token and a window are kept
  MaxRate,     \* requests a window allows
  MaxHits,     \* bound: requests counted by one window
  MaxTime,     \* bound of the clock
  MaxLost,     \* bound: answers lost between Redis and the process
  MaxLives     \* bound: restarts of the process

ASSUME CacheAssumption ==
  /\ Ttl \in Nat \ {0} /\ MaxRate \in Nat \ {0} /\ MaxHits \in Nat
  /\ MaxTime \in Nat /\ MaxLost \in Nat /\ MaxLives \in Nat

VARIABLES
  backing,   \* "memory" or "redis"
  clock,
  nonce,     \* when the nonce runs out, or Never
  token,     \* when the token runs out, or Never
  window,    \* [count, until] of the rate limit; count 0 when there is none
  accepted,  \* when the nonce was last registered as fresh, or Never
  minted,    \* when the token was put, or Never
  redeemed,  \* the token was given out for good
  opened,    \* when the first request of the present window was counted
  allowed,   \* requests it allowed
  lost,
  lives

caVars == <<backing, clock, nonce, token, window, accepted, minted, redeemed, opened, allowed, lost, lives>>

Never == -1
NoWindow == [count |-> 0, until |-> 0]

CaInit ==
  /\ backing \in {"memory", "redis"}
  /\ clock = 0
  /\ nonce = Never /\ token = Never /\ window = NoWindow
  /\ accepted = Never /\ minted = Never /\ redeemed = FALSE
  /\ opened = Never /\ allowed = 0
  /\ lost = 0 /\ lives = 0

-----------------------------------------------------------------------------

\* sweep(): what has run out; a key of Redis is gone when its time is up.
Swept(until) == IF until # Never /\ until < clock THEN Never ELSE until

SweptWindow == IF window.count > 0 /\ window.until <= clock THEN NoWindow ELSE window

\* A command was carried out, and Redis's answer is lost.
Loses == backing = "redis" /\ lost < MaxLost /\ lost' = lost + 1

\* registerNonce: SET NX PX, or the map after a sweep.
RegisterNonce ==
  LET found == IF backing = "memory" THEN Swept(nonce) ELSE nonce
  IN  /\ nonce' = IF found = Never THEN clock + Ttl ELSE found
      /\ \/ accepted' = (IF found = Never THEN clock ELSE accepted) /\ UNCHANGED lost
         \/ found = Never /\ Loses /\ UNCHANGED accepted
      /\ token' = IF backing = "memory" THEN Swept(token) ELSE token
      /\ window' = IF backing = "memory" THEN SweptWindow ELSE window
  /\ UNCHANGED <<backing, clock, minted, redeemed, opened, allowed, lives>>

\* putToken: every token is a new random name; here one is put once.
PutToken ==
  /\ minted = Never
  /\ token' = clock + Ttl
  /\ minted' = clock
  /\ UNCHANGED <<backing, clock, nonce, window, accepted, redeemed, opened, allowed, lost, lives>>

\* peekToken: the value stays.
PeekToken ==
  /\ backing = "memory"
  /\ nonce' = Swept(nonce) /\ token' = Swept(token) /\ window' = SweptWindow
  /\ UNCHANGED <<backing, clock, accepted, minted, redeemed, opened, allowed, lost, lives>>

\* What a peek is answered now.
Peeks == IF backing = "memory" THEN Swept(token) # Never ELSE token # Never

\* Variant with a bug: GET without DEL.
ConsumeTokenKeeping ==
  /\ Peeks
  /\ ~redeemed \/ token # Never
  /\ redeemed' = TRUE
  /\ UNCHANGED <<backing, clock, nonce, token, window, accepted, minted, opened, allowed, lost, lives>>

\* consumeToken: GETDEL, or the map's entry, deleted before its time is looked at.
ConsumeToken ==
  /\ token # Never
  /\ token' = Never
  /\ \/ redeemed' = (IF backing = "memory" THEN token >= clock ELSE TRUE) /\ UNCHANGED lost
     \/ Loses /\ UNCHANGED redeemed
  /\ UNCHANGED <<backing, clock, nonce, window, accepted, minted, opened, allowed, lives>>

\* What the callers see: the window they are in, and how many of them it allowed.
Sees(count) ==
  LET isNew == opened = Never \/ clock >= opened + Ttl
      past == IF isNew THEN 0 ELSE allowed
  IN  /\ opened' = IF isNew THEN clock ELSE opened
      /\ allowed' = IF count <= MaxRate THEN past + 1 ELSE past

\* rateLimit: INCR with PEXPIRE on the first hit, in one script; or the map's window, begun anew when it
\* has ended.
RateLimit ==
  /\ SweptWindow.count < MaxHits
  /\ window' = [count |-> SweptWindow.count + 1,
                until |-> IF SweptWindow.count = 0 THEN clock + Ttl ELSE window.until]
  /\ Sees(window'.count)
  /\ Loses \/ UNCHANGED lost
  /\ UNCHANGED <<backing, clock, nonce, token, accepted, minted, redeemed, lives>>

\* Time passes; Redis drops the keys whose time is up.
Passes ==
  /\ clock < MaxTime
  /\ clock' = clock + 1
  /\ IF backing = "redis"
       THEN /\ nonce' = IF nonce = clock + 1 THEN Never ELSE nonce
            /\ token' = IF token = clock + 1 THEN Never ELSE token
            /\ window' = IF window.until = clock + 1 THEN NoWindow ELSE window
       ELSE UNCHANGED <<nonce, token, window>>
  /\ UNCHANGED <<backing, accepted, minted, redeemed, opened, allowed, lost, lives>>

\* The process ends: the maps are gone with all they promised, Redis keeps what it has.
Restarts ==
  /\ lives < MaxLives
  /\ lives' = lives + 1
  /\ IF backing = "memory"
       THEN /\ nonce' = Never /\ token' = Never /\ window' = NoWindow
            /\ accepted' = Never /\ opened' = Never /\ allowed' = 0
       ELSE UNCHANGED <<nonce, token, window, accepted, opened, allowed>>
  /\ UNCHANGED <<backing, clock, minted, redeemed, lost>>

CaNext ==
  \/ RegisterNonce \/ PutToken \/ PeekToken \/ ConsumeToken \/ RateLimit
  \/ Passes \/ Restarts

CaSpec == CaInit /\ [][CaNext]_caVars

-----------------------------------------------------------------------------
(* Properties *)

CaTypeOK ==
  /\ backing \in {"memory", "redis"} /\ clock \in 0..MaxTime
  /\ nonce \in Nat \cup {Never} /\ token \in Nat \cup {Never}
  /\ window \in [count : 0..MaxHits, until : Nat]
  /\ accepted \in Nat \cup {Never} /\ minted \in Nat \cup {Never} /\ redeemed \in BOOLEAN
  /\ opened \in Nat \cup {Never} /\ allowed \in Nat
  /\ lost \in 0..MaxLost /\ lives \in 0..MaxLives

\* What is promised once is given once, by the map and by Redis, though an answer is lost on the way:
\* a nonce is fresh again only when its time is up, and a token that was consumed is given to nobody
\* after (redis-cache.ts:79-99, providers.ts:346-379).  And a window allows its budget, no more
\* however many ask, and the whole budget again when its time is over, though the process died (the
\* script counts and sets the time in one step: redis-cache.ts:43-51).
OnceWithinItsTime ==
  [][/\ accepted' # accepted /\ accepted # Never /\ accepted' # Never => accepted' >= accepted + Ttl
     /\ redeemed => ~Peeks'
     /\ allowed' <= MaxRate /\ (opened' # Never /\ clock' < opened' + Ttl => allowed' >= 1)]_caVars

=============================================================================
