---------------------------- MODULE AuditStream ----------------------------
(***************************************************************************)
(* signing.py: the AuditStream an application keeps for itself, and        *)
(* verify_chain.  No lock guards it, so calls of two threads interleave.   *)
(* A signature is its key, its event_id, its prev_id and whether the       *)
(* payload is still the one that was signed: type, source, timestamp, tags *)
(* and the other ids of an event are under no signature.                   *)
(***************************************************************************)
EXTENDS Callers, FiniteSetsExt, SequencesExt

CONSTANTS Secrets, InitialSecret, MaxSigned   \* bound: events appended

ASSUME AuditAssumption == InitialSecret \in Secrets /\ MaxSigned \in Nat

VARIABLES
  signedEvents,  \* _events
  secret,        \* _org_secret
  keyMap,        \* _key_map: rotation event -> the secret it introduces
  auditPc, pending,   \* per thread: the call it is in
  issued,        \* event ids drawn
  overlapped,    \* two appends or rotations have run at once
  verifying      \* per thread: its verify(), running or last

streamVars == <<signedEvents, secret, keyMap, auditPc, pending, issued, overlapped>>
auditVars  == <<streamVars, verifying>>

NoSecret == "none"
Ids1     == 1..MaxSigned
Signed   == [id : Ids1, key : Secrets, prev : 0..MaxSigned,
             intact : BOOLEAN,   \* the payload is the one that was signed
             rest : BOOLEAN]     \* so are the fields no signature covers
KeyMaps  == [Ids1 -> Secrets \cup {NoSecret}]
Verify   == [running : BOOLEAN, keys : KeyMaps, found : {"nothing", "valid", "broken"},
             rotated : BOOLEAN]  \* a key was recorded after keys was copied
NoCall   == [id |-> 0, key |-> NoSecret, prev |-> 0, new |-> NoSecret]

AuditTypeOK ==
  /\ signedEvents \in Seq(Signed)
  /\ secret \in Secrets /\ keyMap \in KeyMaps
  /\ auditPc \in [Threads -> {"idle", "sign", "append", "map", "switch"}]
  /\ pending \in [Threads -> [id : 0..MaxSigned, key : Secrets \cup {NoSecret},
                              prev : 0..MaxSigned, new : Secrets \cup {NoSecret}]]
  /\ issued \in 0..MaxSigned /\ overlapped \in BOOLEAN
  /\ verifying \in [Threads -> Verify]

AuditInit ==
  /\ signedEvents = <<>> /\ secret = InitialSecret
  /\ keyMap = [i \in Ids1 |-> NoSecret]
  /\ auditPc = [t \in Threads |-> "idle"] /\ pending = [t \in Threads |-> NoCall]
  /\ issued = 0 /\ overlapped = FALSE
  /\ verifying = [t \in Threads |-> [running |-> FALSE, keys |-> keyMap,
                                    found |-> "nothing", rotated |-> FALSE]]

-----------------------------------------------------------------------------
(* append and rotate_key; new is NoSecret in an append of the application  *)

PrevId == IF signedEvents = <<>> THEN 0 ELSE Last(signedEvents).id

ReadPrev(t, new) ==
  /\ ~verifying[t].running
  /\ issued < MaxSigned /\ issued' = issued + 1
  /\ Moves(auditPc, t, "idle", "sign")
  /\ pending' = [pending EXCEPT ![t] =
                   [id |-> issued', key |-> NoSecret, prev |-> PrevId, new |-> new]]
  /\ overlapped' = (overlapped \/ \E u \in Threads : auditPc[u] # "idle")
  /\ UNCHANGED <<signedEvents, secret, keyMap, verifying>>

SignNow(t) ==
  /\ Moves(auditPc, t, "sign", "append")
  /\ pending' = [pending EXCEPT ![t].key = secret]
  /\ UNCHANGED <<signedEvents, secret, keyMap, issued, overlapped, verifying>>

AppendSigned(t) ==
  /\ Moves(auditPc, t, "append", IF pending[t].new = NoSecret THEN "idle" ELSE "map")
  /\ signedEvents' = Append(signedEvents, [id |-> pending[t].id, key |-> pending[t].key,
                                           prev |-> pending[t].prev, intact |-> TRUE,
                                           rest |-> TRUE])
  /\ pending' = IF pending[t].new = NoSecret THEN [pending EXCEPT ![t] = NoCall] ELSE pending
  /\ UNCHANGED <<secret, keyMap, issued, overlapped, verifying>>

(* Mutant: the new secret is recorded for the event before the rotation.   *)
RotationPrev(t)  == IF pending[t].prev = 0 THEN pending[t].id ELSE pending[t].prev
RotationEvent(t) == pending[t].id

MapKey(t) ==
  /\ Moves(auditPc, t, "map", "switch")
  /\ keyMap' = [keyMap EXCEPT ![RotationEvent(t)] = pending[t].new]
  /\ verifying' =
       [u \in Threads |-> [verifying[u] EXCEPT !.rotated = @ \/ verifying[u].running]]
  /\ UNCHANGED <<signedEvents, secret, pending, issued, overlapped>>

SwitchKey(t) ==
  /\ Moves(auditPc, t, "switch", "idle")
  /\ secret' = pending[t].new
  /\ pending' = [pending EXCEPT ![t] = NoCall]
  /\ UNCHANGED <<signedEvents, keyMap, issued, overlapped, verifying>>

-----------------------------------------------------------------------------
(* verify_chain *)

(* The secret in force at position i: that of the last rotation before it. *)
SecretAt(keys, events, i) ==
  LET rotations == {j \in 1..(i - 1) : keys[events[j].id] # NoSecret}
  IN  IF rotations = {} THEN InitialSecret ELSE keys[events[Max(rotations)].id]

VerifiesAt(keys, events, i) == events[i].intact /\ events[i].key = SecretAt(keys, events, i)

(* _check_chain_linkage                                                    *)
LinkedAt(events, i) ==
  events[i].prev = IF i = 1 THEN 0 ELSE events[i - 1].id

Gaps(events)                == {i \in DOMAIN events : ~LinkedAt(events, i)}
TamperedCount(keys, events) ==
  Cardinality({i \in DOMAIN events : ~VerifiesAt(keys, events, i)})
Valid(keys, events)         == TamperedCount(keys, events) = 0 /\ Gaps(events) = {}

(* AuditStream.verify copies the key map, verify_chain then the events.    *)
CopyKeys(t) ==
  /\ auditPc[t] = "idle" /\ ~verifying[t].running
  /\ verifying' = [verifying EXCEPT ![t] = [running |-> TRUE, keys |-> keyMap,
                                           found |-> "nothing", rotated |-> FALSE]]
  /\ UNCHANGED streamVars

Verdict1(t) == IF Valid(verifying[t].keys, signedEvents) THEN "valid" ELSE "broken"

ListEvents(t) ==
  /\ verifying[t].running
  /\ verifying' = [verifying EXCEPT ![t].running = FALSE, ![t].found = Verdict1(t)]
  /\ UNCHANGED streamVars

AuditNext ==
  \E t \in Threads :
    \/ \E new \in Secrets \cup {NoSecret} : ReadPrev(t, new)
    \/ SignNow(t) \/ AppendSigned(t) \/ MapKey(t) \/ SwitchKey(t)
    \/ CopyKeys(t) \/ ListEvents(t)

AuditSpec == AuditInit /\ [][AuditNext]_auditVars

-----------------------------------------------------------------------------
(* Properties *)

(* A stream whose writers never overlapped verifies at every moment, in    *)
(* the middle of a key rotation too.                                       *)
SerialStreamVerifies == ~overlapped => Valid(keyMap, signedEvents)

(* A verify() that runs beside them reports it broken only if a rotation   *)
(* recorded its key between the two reads; appends do not disturb it.      *)
VerifyIsUndisturbed ==
  \A t \in Threads : verifying[t].found = "broken" => overlapped \/ verifying[t].rotated

(* Two writers that did overlap leave a trace: an event that was linked to *)
(* another than the one before it is reported, never accepted.             *)
ForkIsReported ==
  Valid(keyMap, signedEvents) =>
    \A i, j \in DOMAIN signedEvents : signedEvents[i].prev = signedEvents[j].prev => i = j

(* What can become of an event outside the program.                        *)
Altered(e) == {e, [e EXCEPT !.intact = FALSE], [e EXCEPT !.rest = FALSE]}
Forgeries  == SeqOf(UNION {Altered(e) : e \in ToSet(signedEvents)}, MaxSigned)
AsSigned(events) == [i \in DOMAIN events |-> [events[i] EXCEPT !.rest = TRUE]]

(* Of all the sequences one can put together from the events of such a     *)
(* stream, altered or not, repeated, reordered or left out, verify_chain   *)
(* accepts those that are a beginning of it, up to the fields no signature *)
(* covers, and no other.                                                   *)
AcceptsOnlyBeginnings ==
  ~overlapped =>
    \A events \in Forgeries :
      Valid(keyMap, events) <=> IsPrefix(AsSigned(events), signedEvents)

(* Not so: the package's README promises it of every field ("you cannot    *)
(* alter history without breaking the chain"), and a change of a field     *)
(* that no signature covers passes.                                        *)
NoAlterationPasses ==
  ~overlapped =>
    \A events \in Forgeries : Valid(keyMap, events) => IsPrefix(events, signedEvents)

(* A stream verifies if and only if what is signed is as it was signed.    *)
StreamTellsChanges ==
  SerialStreamVerifies /\ VerifyIsUndisturbed /\ ForkIsReported /\ AcceptsOnlyBeginnings
=============================================================================
