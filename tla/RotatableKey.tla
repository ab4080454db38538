---------------------------- MODULE RotatableKey ----------------------------
(***************************************************************************)
(* The signing-key store (src/containers/tokens.rs): RotatableKey, the    *)
(* two secrets and the active slot, and RotatableJwtKey, which caches a   *)
(* Key built from each secret and signs and verifies with those.          *)
(* storage.keys is created once (storage.rs) and rotated by game_loop      *)
(* at the start of a loop iteration when last_updated is more than        *)
(* Interval old.  Time is counted in loop iterations: now advances by one *)
(* per iteration, and requests (encode, decode) happen in between.         *)
(*                                                                         *)
(* Secrets are numbered in the order gen_token draws them.  A draw is a   *)
(* 64-character string: it is modelled as either new or equal to one of   *)
(* the two current secrets, the collisions the code can observe; equality *)
(* with a secret already rotated out is left out.  A token is the secret  *)
(* its claim was signed with.                                              *)
(***************************************************************************)
EXTENDS Naturals, FiniteSets

CONSTANTS
  Interval,  \* the rotation interval (eight hours), in loop iterations
  MaxTime    \* bound: loop iterations in a behaviour

ASSUME Interval \in Nat /\ MaxTime \in Nat

Slots == {0, 1}

VARIABLES
  keys,      \* RotatableKey.keys: slot -> secret
  activeId,  \* RotatableKey.active_id
  jwt,       \* RotatableJwtKey.keys: slot -> secret its Key was built from
  lastUpdated, \* RotatableKey.last_updated
  now,       \* Utc::now, in loop iterations
  rotations, \* rotations so far
  minted,    \* tokens encode has produced: [secret, at]
  verdict    \* the last decode [token, ok, index, age]; token 0: none yet

vars == <<keys, activeId, jwt, lastUpdated, now, rotations, minted, verdict>>

\* A gen_token draw in rotation r: the new secret r + 2, or one equal to a
\* current secret.
Draws == {rotations + 3, keys[0], keys[1]}

(***************************************************************************)
(* Mutants: plausible slips in the code, each replacing one definition.   *)
(***************************************************************************)
NextIdNoWrap(a) == a + 1
AcceptAnyDraw(k) == TRUE
JwtNotRefreshed(j, s, a) == j
FlipAfterReplace(k, t) ==
  /\ keys' = [keys EXCEPT ![activeId] = k]
  /\ activeId' = (activeId + 1) % 2
  /\ jwt' = [jwt EXCEPT ![activeId] = k]
  /\ lastUpdated' = t
RotateKeepsTimestamp(k, t) ==
  /\ activeId' = (activeId + 1) % 2
  /\ keys' = [keys EXCEPT ![activeId'] = k]
  /\ jwt' = [jwt EXCEPT ![activeId'] = keys'[activeId']]
  /\ UNCHANGED lastUpdated

(***************************************************************************)
(* The code.                                                               *)
(***************************************************************************)
\* inactive_id, and the flip of rotate: (active_id + 1) % 2.
NextId(a) == (a + 1) % 2

\* The loop of rotate keeps a draw only if it differs from both keys.
Accepted(k) == k /= keys[0] /\ k /= keys[1]

\* RotatableJwtKey::rotate: the Key of the new active slot is rebuilt.
JwtRefresh(j, s, a) == [j EXCEPT ![a] = s[a]]

\* RotatableKey::rotate with draw k at time t, and the cached Key rebuilt.
RotateWith(k, t) ==
  /\ activeId' = NextId(activeId)
  /\ keys' = [keys EXCEPT ![activeId'] = k]
  /\ lastUpdated' = t
  /\ jwt' = JwtRefresh(jwt, keys', activeId')

\* RotatableJwtKey::new: RotatableKey::new draws two secrets, neither
\* compared with the other; a Key is built from each.
Init ==
  /\ \E k1 \in {1, 2} : keys = [s \in Slots |-> IF s = 0 THEN 1 ELSE k1]
  /\ activeId = 0
  /\ jwt = keys
  /\ lastUpdated = 0
  /\ now = 0
  /\ rotations = 0
  /\ minted = {}
  /\ verdict = [token |-> 0, ok |-> FALSE, index |-> 0, age |-> 0]

\* game_loop's check: last_updated + 8 hours < Utc::now.
Expired(t) == lastUpdated + Interval < t

\* One iteration of game_loop begins: time has passed, and the key is
\* rotated if it expired.  A draw equal to a current key is retried by the
\* loop of rotate, so only an accepted draw ends it.
LoopTick ==
  /\ now < MaxTime
  /\ now' = now + 1
  /\ IF Expired(now')
     THEN /\ rotations' = rotations + 1
          /\ \E k \in Draws : Accepted(k) /\ RotateWith(k, now')
     ELSE UNCHANGED <<keys, activeId, jwt, lastUpdated, rotations>>
  /\ UNCHANGED <<minted, verdict>>

\* encode: handle_register and handle_login sign a claim with the active Key.
Encode ==
  /\ minted' = minted \cup {[secret |-> jwt[activeId], at |-> now]}
  /\ UNCHANGED <<keys, activeId, jwt, lastUpdated, now, rotations, verdict>>

\* decode: handle_verification tries the Key of slot 0, then slot 1.
Decode(m) ==
  /\ verdict' =
       [token |-> m.secret, age |-> now - m.at,
        ok |-> \E i \in Slots : jwt[i] = m.secret,
        index |-> IF jwt[0] = m.secret THEN 0 ELSE 1]
  /\ UNCHANGED <<keys, activeId, jwt, lastUpdated, now, rotations, minted>>

Next == LoopTick \/ Encode \/ \E m \in minted : Decode(m)

Spec == Init /\ [][Next]_vars

(***************************************************************************)
(* Properties.                                                             *)
(***************************************************************************)
Secrets == 1 .. MaxTime + 2

TypeOK ==
  /\ keys \in [Slots -> Secrets] /\ jwt \in [Slots -> Secrets]
  /\ activeId \in Slots
  /\ now \in 0 .. MaxTime /\ lastUpdated \in 0 .. now
  /\ rotations \in 0 .. MaxTime
  /\ minted \subseteq [secret : Secrets, at : 0 .. MaxTime]
  /\ verdict \in [token : {0} \cup Secrets, ok : BOOLEAN, index : Slots,
                  age : 0 .. MaxTime]

(***************************************************************************)
(* Refinement: the store implements KeyEpochs.  The epoch is the number   *)
(* of rotations, and secret s >= 3 is the one drawn by rotation s - 2.    *)
(***************************************************************************)
EpochOf(s) == IF s <= 2 THEN 0 ELSE s - 2

Abstract == INSTANCE KeyEpochs WITH
  MaxRotations <- MaxTime,
  epoch   <- rotations,
  issued  <- {EpochOf(m.secret) : m \in minted},
  verdict <- [epoch |-> EpochOf(verdict.token), ok |-> verdict.ok]

\* Spec 8.5: a token verifies under the key it was minted with, still after
\* one rotation, and no longer after two.
TokenLifetime == Abstract!Spec

\* Spec 4.3, 8.5 and 9: the implicit expiry of a token.  game_loop rotates
\* only once last_updated is more than Interval old, so a token verifies
\* for at least Interval after it was minted, and, surviving one rotation,
\* for at most two rotation periods of Interval + 1 iterations.
TokenLifetimeWindow ==
  verdict.token /= 0 =>
    /\ verdict.age <= Interval => verdict.ok
    /\ verdict.ok => verdict.age <= 2 * Interval + 1
=============================================================================
