--------------------------- MODULE ExtensionTokens ---------------------------
(***************************************************************************)
(* The device credential of the browser extension: pairing codes and       *)
(* rotating refresh tokens on the server (webapp/services/                 *)
(* extension_auth.py) against the client that stores them (extension/src/  *)
(* background/token-client.ts).  A flight is a request of the client; it   *)
(* goes on at the server when the service worker that sent it has died,    *)
(* but its answer is then for nobody.  Devices and tokens are numbered as  *)
(* they are created; the access token that comes with a refresh token has  *)
(* its number.  On the server a request reads, then writes.                *)
(***************************************************************************)
EXTENDS Integers, FiniteSets, Sequences

CONSTANTS Code, NoCode,
          MaxFlights, MaxFaults   \* bounds: requests; lost answers and deaths

ASSUME TokensAssumption == NoCode \notin Code /\ {MaxFlights, MaxFaults} \subseteq Nat

VARIABLES
  devices,  \* the code a device was paired with; LIVE, REUSE or REVOKED
  tokens,   \* the device of a refresh token; whether it has been rotated
  local,    \* the stored device and refresh token, 0 for none
  session,  \* the stored access token, 0 for none
  flights,
  life,     \* how often the service worker has started
  faults

server == <<devices, tokens>>
client == <<local, session>>
vars == <<devices, tokens, local, session, flights, life, faults>>

Kind == {"pair", "refresh", "call", "revoke"}
Flight == [kind : Kind, code : Code \cup {NoCode}, device : Nat, token : Nat, life : Nat,
           at : {"sent", "read", "answered", "done", "lost"}, reply : Nat]
Nothing == [device |-> 0, token |-> 0]

TokensTypeOK ==
  /\ devices \in Seq([code : Code, status : {"LIVE", "REUSE", "REVOKED"}])
  /\ tokens \in Seq([device : 1 .. Len(devices), rotated : BOOLEAN])
  /\ local \in [device : 0 .. Len(devices), token : 0 .. Len(tokens)]
  /\ session \in 0 .. Len(tokens)
  /\ flights \in Seq(Flight)
  /\ Len(flights) <= MaxFlights
  /\ life \in 0 .. MaxFaults
  /\ faults \in 0 .. MaxFaults
  /\ local.token # 0 => local.device # 0 /\ tokens[local.token].device = local.device

Init ==
  /\ devices = <<>>
  /\ tokens = <<>>
  /\ local = Nothing
  /\ session = 0
  /\ flights = <<>>
  /\ life = 0
  /\ faults = 0

-----------------------------------------------------------------------------
(* The client sends.                                                       *)

Send(kind, code, device, token) ==
  /\ Len(flights) < MaxFlights
  /\ flights' = Append(flights, [kind |-> kind, code |-> code, device |-> device, token |-> token,
                                 life |-> life, at |-> "sent", reply |-> 0])
  /\ UNCHANGED <<server, client, life, faults>>

Open(f) == flights[f].life = life /\ flights[f].at \in {"sent", "read", "answered"}

(* Seeded fault: every caller refreshes for itself.                        *)
NoFlight == FALSE

(* inflight.                                                               *)
Inflight == \E f \in DOMAIN flights : flights[f].kind = "refresh" /\ Open(f)

Pair(c) == Send("pair", c, 0, 0)

(* accessToken when the stored one is missing or about to expire: the      *)
(* device is read before the request and kept across it.                   *)
Refresh == ~Inflight /\ local.device # 0 /\ Send("refresh", NoCode, local.device, local.token)

(* A request with the access token, and signOut's.                         *)
Call == session # 0 /\ Send("call", NoCode, tokens[session].device, session)
SignOut == session # 0 /\ Send("revoke", NoCode, tokens[session].device, session)

-----------------------------------------------------------------------------
(* The server.                                                             *)

At(f, kind, at) == f \in DOMAIN flights /\ flights[f].kind = kind /\ flights[f].at = at

Moves(f, to) == flights' = [flights EXCEPT ![f].at = to]
Answers(f, reply) == flights' = [flights EXCEPT ![f].at = "answered", ![f].reply = reply]

Live(d) == devices[d].status = "LIVE"

(* _revoke_device_rows: the first reason stays.                            *)
RevokeRows(d, why) == devices' = [devices EXCEPT ![d].status = IF @ = "LIVE" THEN why ELSE @]

Consumed(c) == \E d \in DOMAIN devices : devices[d].code = c

(* pair_device reads the code: valid, or refused.                          *)
PairReads(f) ==
  /\ At(f, "pair", "sent")
  /\ IF Consumed(flights[f].code) THEN Answers(f, 0) ELSE Moves(f, "read")
  /\ UNCHANGED <<server, client, life, faults>>

(* Seeded fault: the code is consumed without a look at whether it was.    *)
ConsumableAnyway(c) == TRUE

(* UPDATE ... WHERE consumed_at IS NULL.                                   *)
Consumable(c) == ~Consumed(c)

PairWrites(f) ==
  LET c == flights[f].code IN
  /\ At(f, "pair", "read")
  /\ IF Consumable(c)
     THEN /\ devices' = Append(devices, [code |-> c, status |-> "LIVE"])
          /\ tokens' = Append(tokens, [device |-> Len(devices) + 1, rotated |-> FALSE])
          /\ Answers(f, Len(tokens) + 1)
     ELSE Answers(f, 0) /\ UNCHANGED server
  /\ UNCHANGED <<client, life, faults>>

(* refresh reads the token: a revoked device is refused, an expired token  *)
(* too; one that was rotated before costs the device its pairing.          *)
RefreshReads(f) ==
  LET d == flights[f].device
      rotated == tokens[flights[f].token].rotated IN
  /\ At(f, "refresh", "sent")
  /\ \/ ~Live(d) /\ Answers(f, 0) /\ UNCHANGED devices
     \/ Live(d) /\ rotated /\ Answers(f, 0) /\ RevokeRows(d, "REUSE")
     \/ Live(d) /\ ~rotated /\ (Answers(f, 0) \/ Moves(f, "read")) /\ UNCHANGED devices
  /\ UNCHANGED <<tokens, client, life, faults>>

(* UPDATE ... WHERE rotated_at IS NULL; the loser of a race reads again.   *)
RefreshWrites(f) ==
  LET t == flights[f].token IN
  /\ At(f, "refresh", "read")
  /\ IF tokens[t].rotated
     THEN Moves(f, "sent") /\ UNCHANGED tokens
     ELSE /\ tokens' = Append([tokens EXCEPT ![t].rotated = TRUE],
                              [device |-> flights[f].device, rotated |-> FALSE])
          /\ Answers(f, Len(tokens) + 1)
  /\ UNCHANGED <<devices, client, life, faults>>

(* resolve_access: only of a live device; and revoke_self.                 *)
CallServed(f) ==
  /\ At(f, "call", "sent")
  /\ Answers(f, IF Live(flights[f].device) THEN flights[f].token ELSE 0)
  /\ UNCHANGED <<server, client, life, faults>>

RevokeServed(f) ==
  LET d == flights[f].device IN
  /\ At(f, "revoke", "sent")
  /\ RevokeRows(d, "REVOKED")
  /\ Answers(f, IF Live(d) THEN flights[f].token ELSE 0)
  /\ UNCHANGED <<tokens, client, life, faults>>

(* The user removes the device on the settings page.                       *)
UserRevokes(d) ==
  /\ d \in DOMAIN devices /\ Live(d)
  /\ RevokeRows(d, "REVOKED")
  /\ UNCHANGED <<tokens, client, flights, life, faults>>

-----------------------------------------------------------------------------
(* The client hears, or does not.                                          *)

Store(d, t) == local' = [device |-> d, token |-> t] /\ session' = t
Wipe == local' = Nothing /\ session' = 0

Answered(f) ==
  LET flight == flights[f] IN
  /\ f \in DOMAIN flights /\ Open(f) /\ flight.at = "answered"
  /\ Moves(f, "done")
  /\ CASE flight.kind = "pair" /\ flight.reply # 0 -> Store(tokens[flight.reply].device, flight.reply)
       [] flight.kind = "refresh" /\ flight.reply # 0 -> Store(flight.device, flight.reply)
       [] flight.kind = "revoke" \/ (flight.kind \in {"refresh", "call"} /\ flight.reply = 0) -> Wipe
       [] OTHER -> UNCHANGED client
  /\ UNCHANGED <<server, life, faults>>

Lose(f) ==
  /\ faults < MaxFaults
  /\ faults' = faults + 1
  /\ f \in DOMAIN flights /\ Open(f) /\ flights[f].at \in {"sent", "answered"}
  /\ Moves(f, "lost")
  /\ IF flights[f].kind = "revoke" THEN Wipe ELSE UNCHANGED client
  /\ UNCHANGED <<server, life>>

(* The service worker dies and starts again: both storages remain.         *)
Die ==
  /\ faults < MaxFaults
  /\ faults' = faults + 1
  /\ life' = life + 1
  /\ UNCHANGED <<server, client, flights>>

Next ==
  \/ \E c \in Code : Pair(c)
  \/ Refresh \/ Call \/ SignOut
  \/ \E f \in DOMAIN flights :
       \/ PairReads(f) \/ PairWrites(f) \/ RefreshReads(f) \/ RefreshWrites(f)
       \/ CallServed(f) \/ RevokeServed(f) \/ Answered(f) \/ Lose(f)
  \/ \E d \in DOMAIN devices : UserRevokes(d)
  \/ Die

Spec == Init /\ [][Next]_vars

-----------------------------------------------------------------------------
(* Properties.                                                             *)

(* However requests with one code or one token meet at the server, a code  *)
(* pairs one device and a device has one refresh token that still works.   *)
CredentialsAreUnique ==
  /\ \A d, e \in DOMAIN devices : devices[d].code = devices[e].code => d = e
  /\ \A t, u \in DOMAIN tokens :
       tokens[t].device = tokens[u].device /\ ~tokens[t].rotated /\ ~tokens[u].rotated => t = u

(* A device that nobody copied is taken for a stolen one only when the     *)
(* answer to one of its refreshes never reached the client: no order of    *)
(* pairing, refreshing, signing out and revoking presents a token twice    *)
(* ("a rotating refresh token is never presented twice by this device").   *)
TheftHasACause ==
  \A d \in DOMAIN devices : devices[d].status = "REUSE" =>
    \E f \in DOMAIN flights :
      /\ flights[f].kind = "refresh" /\ flights[f].device = d
      /\ flights[f].at = "lost" \/ (flights[f].at # "done" /\ flights[f].life < life)

(* The families of tokens that the server's tables show, and what the      *)
(* module TokenFamily promises of them.                                    *)
Family(c) ==
  IF ~Consumed(c) THEN "unused"
  ELSE IF \E d \in DOMAIN devices : devices[d].code = c /\ Live(d) THEN "live" ELSE "ended"

Works(c) == {t \in DOMAIN tokens : ~tokens[t].rotated /\ devices[tokens[t].device].code = c}

Promise == INSTANCE TokenFamily WITH
  family <- [c \in Code |-> Family(c)],
  working <- [c \in Code |-> Works(c)],
  issued <- Len(tokens)

(* Whatever meets at the server, a code pairs once, each refresh token is  *)
(* replaced once and by a new one, the only one of its device that works   *)
(* then, and no step revives a device that was revoked.                    *)
KeepsFamilies == Promise!Spec

=============================================================================
