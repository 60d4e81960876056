----------------------- MODULE ExtensionTokensProofs -----------------------
(***************************************************************************)
(* Proofs about ExtensionTokens for any codes, any number of requests and  *)
(* any number of lost answers and deaths.                                  *)
(***************************************************************************)
EXTENDS ExtensionTokens, SequenceTheorems, TLAPS

-----------------------------------------------------------------------------
(* Types.  What a flight carries exists at the server: its device, its     *)
(* token, which is the device's, and the token it brings back.             *)

Devices == 1 .. Len(devices)
Tokens == 1 .. Len(tokens)
Flights == 1 .. Len(flights)

WellFormed(fl) ==
  /\ fl.device \in Devices \cup {0} /\ {fl.token, fl.reply} \subseteq Tokens \cup {0}
  /\ fl.life <= life
  /\ IF fl.kind = "pair" THEN fl.code \in Code ELSE fl.device # 0
  /\ fl.at \in {"sent", "read"} => fl.reply = 0
  /\ fl.kind = "refresh" =>
       /\ fl.token # 0 /\ tokens[fl.token].device = fl.device
       /\ fl.reply # 0 => tokens[fl.reply].device = fl.device

TypeInv ==
  /\ TokensTypeOK
  /\ \A f \in Flights : WellFormed(flights[f])
  /\ local.device # 0 => local.token # 0
  /\ life <= faults

Device == [code : Code, status : {"LIVE", "REUSE", "REVOKED"}]
Ats == {"sent", "read", "answered", "done", "lost"}

(* What the type invariant says of the sequences.                          *)
LEMMA Sequences ==
  ASSUME TokensTypeOK
  PROVE  /\ devices \in Seq(Device) /\ DOMAIN devices = Devices /\ Len(devices) \in Nat
         /\ \A d \in Devices : devices[d] \in Device
         /\ DOMAIN tokens = Tokens /\ Len(tokens) \in Nat
         /\ \A t \in Tokens : tokens[t] \in [device : Devices, rotated : BOOLEAN]
         /\ DOMAIN flights = Flights /\ Len(flights) \in Nat
         /\ \A f \in Flights : flights[f] \in Flight
<1>1. /\ devices \in Seq(Device) /\ tokens \in Seq([device : Devices, rotated : BOOLEAN])
      /\ flights \in Seq(Flight)
  BY DEF TokensTypeOK, Device, Devices
<1>2. QED
  BY <1>1, LenProperties, ElementOfSeq DEF Devices, Tokens, Flights

LEMMA Bounds == MaxFaults \in Nat /\ MaxFlights \in Nat
BY TokensAssumption DEF TokensAssumption

(* The server's records stay: devices and tokens are added, a token keeps  *)
(* its device and a device its code.                                       *)
Kept ==
  /\ Len(devices') >= Len(devices) /\ Len(tokens') >= Len(tokens)
  /\ \A t \in Tokens : tokens'[t].device = tokens[t].device
  /\ life' >= life

LEMMA WellFormedStays ==
  ASSUME TokensTypeOK, TokensTypeOK', Kept, NEW fl \in Flight, WellFormed(fl)
  PROVE  WellFormed(fl)'
<1>1. /\ Len(devices) \in Nat /\ Len(devices') \in Nat
      /\ Len(tokens) \in Nat /\ Len(tokens') \in Nat /\ life \in Nat /\ life' \in Nat
  BY Sequences, Bounds DEF TokensTypeOK
<1>2. QED
  BY <1>1 DEF Kept, WellFormed, Devices, Tokens, Flight

(* The flights after one of them has changed.                              *)
LEMMA MovesFlight ==
  ASSUME TokensTypeOK, NEW f \in Flights, NEW to \in Ats, Moves(f, to)
  PROVE  /\ flights' \in Seq(Flight) /\ Len(flights') = Len(flights)
         /\ \A g \in Flights \ {f} : flights'[g] = flights[g]
         /\ flights'[f] = [flights[f] EXCEPT !.at = to] /\ flights'[f] \in Flight
<1>1. flights \in Seq(Flight) /\ flights[f] \in Flight /\ f \in 1 .. Len(flights)
  BY Sequences DEF TokensTypeOK, Flights
<1> DEFINE fl == [flights[f] EXCEPT !.at = to]
<1>2. fl \in Flight
  BY <1>1 DEF Flight, Ats
<1>3. flights' = [flights EXCEPT ![f] = fl]
  BY DEF Moves
<1> HIDE DEF fl
<1>4. QED
  BY <1>1, <1>2, <1>3, ExceptSeq DEF fl, Flights

LEMMA AnswersFlight ==
  ASSUME TokensTypeOK, NEW f \in Flights, NEW reply \in Nat, Answers(f, reply)
  PROVE  /\ flights' \in Seq(Flight) /\ Len(flights') = Len(flights)
         /\ \A g \in Flights \ {f} : flights'[g] = flights[g]
         /\ flights'[f] = [flights[f] EXCEPT !.at = "answered", !.reply = reply] /\ flights'[f] \in Flight
<1>1. flights \in Seq(Flight) /\ flights[f] \in Flight /\ f \in 1 .. Len(flights)
  BY Sequences DEF TokensTypeOK, Flights
<1> DEFINE fl == [flights[f] EXCEPT !.at = "answered", !.reply = reply]
<1>2. fl \in Flight
  BY <1>1 DEF Flight
<1>3. flights' = [flights EXCEPT ![f] = fl]
  BY DEF Answers
<1> HIDE DEF fl
<1>4. /\ flights' \in Seq(Flight) /\ Len(flights') = Len(flights) /\ flights'[f] = fl
      /\ \A g \in Flights \ {f} : flights'[g] = flights[g]
  BY <1>1, <1>2, <1>3, ExceptSeq DEF Flights
<1>5. QED
  BY <1>2, <1>4 DEF fl

LEMMA SendFlight ==
  ASSUME TokensTypeOK, NEW kind \in Kind, NEW code \in Code \cup {NoCode}, NEW device \in Nat, NEW token \in Nat,
         Send(kind, code, device, token)
  PROVE  /\ flights' \in Seq(Flight) /\ Len(flights') = Len(flights) + 1 /\ Len(flights') <= MaxFlights
         /\ \A g \in Flights : flights'[g] = flights[g]
         /\ flights'[Len(flights) + 1] = [kind |-> kind, code |-> code, device |-> device, token |-> token,
                                          life |-> life, at |-> "sent", reply |-> 0]
         /\ flights'[Len(flights) + 1] \in Flight
<1> DEFINE fl == [kind |-> kind, code |-> code, device |-> device, token |-> token,
                  life |-> life, at |-> "sent", reply |-> 0]
<1>0. life \in Nat
  BY Bounds DEF TokensTypeOK
<1>1. fl \in Flight
  BY <1>0 DEF Flight
<1>2. flights' = Append(flights, fl) /\ flights \in Seq(Flight) /\ Len(flights) < MaxFlights
  BY DEF Send, TokensTypeOK
<1> HIDE DEF fl
<1>3. flights' \in Seq(Flight) /\ Len(flights') = Len(flights) + 1
  BY <1>1, <1>2
<1>4. flights'[Len(flights) + 1] = fl /\ \A g \in 1 .. Len(flights) : flights'[g] = flights[g]
  BY <1>1, <1>2
<1>5. QED
  BY <1>1, <1>2, <1>3, <1>4, Bounds, LenProperties DEF fl, Flights

(* The devices after one has been revoked.                                 *)
LEMMA RevokeDevices ==
  ASSUME TokensTypeOK, NEW d \in Devices, NEW why \in {"REUSE", "REVOKED"}, RevokeRows(d, why)
  PROVE  /\ devices' \in Seq(Device) /\ Len(devices') = Len(devices)
         /\ \A e \in Devices : devices'[e].code = devices[e].code
         /\ \A e \in Devices : devices'[e].status = IF e = d /\ Live(d) THEN why ELSE devices[e].status
<1> DEFINE row == [devices[d] EXCEPT !.status = IF @ = "LIVE" THEN why ELSE @]
<1>1. devices \in Seq(Device) /\ devices[d] \in Device /\ \A e \in Devices : devices[e] \in Device
  BY Sequences
<1>2. row \in Device /\ row.code = devices[d].code /\ row.status = IF Live(d) THEN why ELSE devices[d].status
  BY <1>1 DEF Device, Live
<1>3. devices' = [devices EXCEPT ![d] = row]
  BY DEF RevokeRows
<1> HIDE DEF row
<1>4. /\ devices' \in Seq(Device) /\ Len(devices') = Len(devices)
      /\ \A e \in Devices : devices'[e] = IF e = d THEN row ELSE devices[e]
  BY <1>1, <1>2, <1>3, ExceptSeq DEF Devices
<1>5. QED
  BY <1>2, <1>4

(* What PairWrites and RefreshWrites add.                                  *)
LEMMA NewDevice ==
  ASSUME TokensTypeOK, NEW c \in Code,
         devices' = Append(devices, [code |-> c, status |-> "LIVE"]),
         tokens' = Append(tokens, [device |-> Len(devices) + 1, rotated |-> FALSE])
  PROVE  /\ devices' \in Seq(Device) /\ Len(devices') = Len(devices) + 1
         /\ \A d \in Devices : devices'[d] = devices[d]
         /\ devices'[Len(devices) + 1] = [code |-> c, status |-> "LIVE"]
         /\ tokens' \in Seq([device : 1 .. Len(devices'), rotated : BOOLEAN]) /\ Len(tokens') = Len(tokens) + 1
         /\ \A t \in Tokens : tokens'[t] = tokens[t]
         /\ tokens'[Len(tokens) + 1].device = Len(devices) + 1 /\ ~tokens'[Len(tokens) + 1].rotated
<1> DEFINE row == [code |-> c, status |-> "LIVE"]
           new == [device |-> Len(devices) + 1, rotated |-> FALSE]
           T == [device : 1 .. Len(devices) + 1, rotated : BOOLEAN]
<1>1. devices \in Seq(Device) /\ row \in Device /\ Len(devices) \in Nat /\ Len(tokens) \in Nat
  BY Sequences DEF Device
<1>2. [device : 1 .. Len(devices), rotated : BOOLEAN] \subseteq T /\ new \in T
  BY <1>1
<1>3. tokens \in Seq(T)
  BY <1>2, SeqMonotonic DEF TokensTypeOK
<1>4. devices' = Append(devices, row) /\ tokens' = Append(tokens, new)
  OBVIOUS
<1>5. row.code = c
  OBVIOUS
<1> HIDE DEF row, new, T
<1>6. /\ devices' \in Seq(Device) /\ Len(devices') = Len(devices) + 1
      /\ \A d \in 1 .. Len(devices) : devices'[d] = devices[d]
      /\ devices'[Len(devices) + 1] = row
  BY <1>1, <1>4
<1>7. /\ tokens' \in Seq(T) /\ Len(tokens') = Len(tokens) + 1
      /\ \A t \in 1 .. Len(tokens) : tokens'[t] = tokens[t]
      /\ tokens'[Len(tokens) + 1] = new
  BY <1>1, <1>2, <1>3, <1>4
<1>8. new.device = Len(devices) + 1 /\ ~new.rotated
  BY DEF new
<1>9. QED
  BY <1>6, <1>7, <1>8 DEF row, T, Devices, Tokens

LEMMA NewToken ==
  ASSUME TokensTypeOK, NEW t \in Tokens, NEW d \in Devices,
         tokens' = Append([tokens EXCEPT ![t].rotated = TRUE], [device |-> d, rotated |-> FALSE])
  PROVE  /\ tokens' \in Seq([device : Devices, rotated : BOOLEAN]) /\ Len(tokens') = Len(tokens) + 1
         /\ \A u \in Tokens : /\ tokens'[u].device = tokens[u].device
                              /\ tokens'[u].rotated <=> tokens[u].rotated \/ u = t
         /\ tokens'[Len(tokens) + 1].device = d /\ ~tokens'[Len(tokens) + 1].rotated
<1> DEFINE T == [device : Devices, rotated : BOOLEAN]
           new == [device |-> d, rotated |-> FALSE]
           old == [tokens[t] EXCEPT !.rotated = TRUE]
           rotated == [tokens EXCEPT ![t] = old]
<1>1. tokens \in Seq(T) /\ Len(tokens) \in Nat /\ new \in T
  BY Sequences DEF TokensTypeOK, Devices
<1>2. \A u \in Tokens : tokens[u] \in T
  BY Sequences
<1>3. old \in T /\ old.device = tokens[t].device /\ old.rotated = TRUE
  BY <1>2
<1>4. tokens' = Append(rotated, new)
  OBVIOUS
<1> HIDE DEF T, new, old
<1>6. /\ rotated \in Seq(T) /\ Len(rotated) = Len(tokens)
      /\ \A u \in 1 .. Len(tokens) : rotated[u] = IF u = t THEN old ELSE tokens[u]
  BY <1>1, <1>3, ExceptSeq DEF Tokens
<1> HIDE DEF rotated
<1>7. /\ tokens' \in Seq(T) /\ Len(tokens') = Len(tokens) + 1
      /\ \A u \in 1 .. Len(tokens) : tokens'[u] = rotated[u]
      /\ tokens'[Len(tokens) + 1] = new
  <2>1. /\ Append(rotated, new) \in Seq(T) /\ Len(Append(rotated, new)) = Len(rotated) + 1
        /\ \A u \in 1 .. Len(rotated) : Append(rotated, new)[u] = rotated[u]
        /\ Append(rotated, new)[Len(rotated) + 1] = new
    BY <1>1, <1>6
  <2>2. QED
    BY <1>4, <1>6, <2>1
<1>8. \A u \in Tokens : /\ tokens'[u].device = tokens[u].device
                        /\ tokens'[u].rotated <=> tokens[u].rotated \/ u = t
  BY <1>3, <1>6, <1>7 DEF Tokens
<1>9. new.device = d /\ ~new.rotated
  BY DEF new
<1>10. QED
  BY <1>7, <1>8, <1>9 DEF T

-----------------------------------------------------------------------------
(* Every step keeps the types.                                             *)

(* What is left to show when the server's records are kept.                *)
LEMMA ServerType ==
  ASSUME TokensTypeOK, Kept, devices' \in Seq(Device), tokens' \in Seq([device : 1 .. Len(devices'), rotated : BOOLEAN]),
         flights' \in Seq(Flight), Len(flights') <= MaxFlights, UNCHANGED client,
         life' \in 0 .. MaxFaults, faults' \in 0 .. MaxFaults
  PROVE  TokensTypeOK'
<1>1. /\ Len(devices) \in Nat /\ Len(devices') \in Nat
      /\ Len(tokens) \in Nat /\ Len(tokens') \in Nat
  BY Sequences, LenProperties
<1>2. /\ local' \in [device : 0 .. Len(devices'), token : 0 .. Len(tokens')] /\ session' \in 0 .. Len(tokens')
      /\ local.token # 0 => local.token \in Tokens
  <2>1. /\ local.device \in 0 .. Len(devices) /\ local.token \in 0 .. Len(tokens) /\ session \in 0 .. Len(tokens)
        /\ local = [device |-> local.device, token |-> local.token]
    BY DEF TokensTypeOK
  <2>2. Len(devices') >= Len(devices) /\ Len(tokens') >= Len(tokens) /\ local' = local /\ session' = session
    BY DEF Kept, client
  <2>3. local.device \in 0 .. Len(devices') /\ local.token \in 0 .. Len(tokens') /\ session \in 0 .. Len(tokens')
    BY <1>1, <2>1, <2>2
  <2>4. local \in [device : 0 .. Len(devices'), token : 0 .. Len(tokens')]
    BY <2>1, <2>3
  <2>5. QED
    BY <1>1, <2>1, <2>2, <2>3, <2>4 DEF Tokens
<1>3. local'.token # 0 => local'.device # 0 /\ tokens'[local'.token].device = local'.device
  <2>1. local' = local
    BY DEF client
  <2>2. local.token # 0 => local.device # 0 /\ tokens[local.token].device = local.device
    BY DEF TokensTypeOK
  <2>3. local.token # 0 => tokens'[local.token].device = tokens[local.token].device
    BY <1>2 DEF Kept
  <2>4. QED
    BY <2>1, <2>2, <2>3
<1>4. QED
  BY <1>2, <1>3 DEF TokensTypeOK, Device

(* One flight has changed, or none.                                        *)
LEMMA OneFlight ==
  ASSUME TypeInv, TokensTypeOK', Kept, NEW f \in Flights, Len(flights') = Len(flights),
         \A g \in Flights \ {f} : flights'[g] = flights[g], WellFormed(flights[f])'
  PROVE  \A g \in Flights' : WellFormed(flights[g])'
<1>1. ASSUME NEW g \in Flights \ {f}
      PROVE  WellFormed(flights[g])'
  <2>1. PICK fl \in Flight : fl = flights[g] /\ flights'[g] = fl
    BY Sequences DEF TypeInv
  <2>2. WellFormed(fl)'
    BY <2>1, WellFormedStays DEF TypeInv
  <2>3. QED
    BY <2>1, <2>2
<1>2. QED
  BY <1>1 DEF Flights

LEMMA SendType ==
  ASSUME TypeInv, NEW kind \in Kind, NEW code \in Code \cup {NoCode}, NEW device \in Devices \cup {0},
         NEW token \in Tokens \cup {0}, Send(kind, code, device, token),
         IF kind = "pair" THEN code \in Code ELSE device # 0,
         kind = "refresh" => token # 0 /\ tokens[token].device = device
  PROVE  TypeInv'
<1>1. TokensTypeOK /\ device \in Nat /\ token \in Nat /\ life \in Nat
  BY Sequences, Bounds DEF TypeInv, TokensTypeOK, Devices, Tokens
<1>2. /\ flights' \in Seq(Flight) /\ Len(flights') = Len(flights) + 1 /\ Len(flights') <= MaxFlights
      /\ \A g \in Flights : flights'[g] = flights[g]
      /\ flights'[Len(flights) + 1] = [kind |-> kind, code |-> code, device |-> device, token |-> token,
                                       life |-> life, at |-> "sent", reply |-> 0]
  BY <1>1, SendFlight
<1>3. UNCHANGED <<server, client, life, faults>>
  BY DEF Send
<1>4. Kept
  BY <1>1, <1>3, Sequences DEF Kept, server
<1>5. TokensTypeOK'
  BY <1>1, <1>2, <1>3 DEF TokensTypeOK, server, client
<1>6. ASSUME NEW g \in Flights'
      PROVE  WellFormed(flights[g])'
  <2>1. PICK fl \in Flight : /\ flights'[g] = fl /\ WellFormed(fl)
    <3>1. CASE g \in Flights
      BY <1>1, <1>2, <3>1, Sequences DEF TypeInv
    <3>2. CASE g \notin Flights
      <4> DEFINE fl == [kind |-> kind, code |-> code, device |-> device, token |-> token,
                        life |-> life, at |-> "sent", reply |-> 0]
      <4>1. g = Len(flights) + 1
        BY <1>1, <1>2, <3>2, Sequences DEF Flights
      <4>2. fl \in Flight
        BY <1>1 DEF Flight
      <4>3. WellFormed(fl)
        BY <1>1 DEF WellFormed
      <4>4. flights'[g] = fl
        BY <1>2, <4>1
      <4> HIDE DEF fl
      <4>5. QED
        BY <4>2, <4>3, <4>4
    <3>3. QED
      BY <3>1, <3>2
  <2>2. WellFormed(fl)'
    BY <1>1, <1>4, <1>5, <2>1, WellFormedStays
  <2>3. QED
    BY <2>1, <2>2
<1>7. QED
  BY <1>3, <1>5, <1>6 DEF TypeInv, client

LEMMA SendingType ==
  ASSUME TypeInv, (\E c \in Code : Pair(c)) \/ Refresh \/ Call \/ SignOut
  PROVE  TypeInv'
<1>1. /\ {"pair", "refresh", "call", "revoke"} \subseteq Kind
      /\ local.device \in Devices \cup {0} /\ local.token \in Tokens \cup {0}
      /\ local.device # 0 => local.token # 0 /\ tokens[local.token].device = local.device
      /\ session \in Tokens \cup {0}
  BY Sequences DEF TypeInv, TokensTypeOK, Kind, Devices, Tokens
<1>2. session # 0 => tokens[session].device \in Devices /\ tokens[session].device # 0
  BY <1>1, Sequences DEF TypeInv, Devices
<1>3. ASSUME NEW c \in Code, Pair(c)
      PROVE  TypeInv'
  BY <1>1, <1>3, SendType DEF Pair
<1>4. CASE Refresh
  BY <1>1, <1>4, SendType DEF Refresh
<1>5. CASE Call
  BY <1>1, <1>2, <1>5, SendType DEF Call
<1>6. CASE SignOut
  BY <1>1, <1>2, <1>6, SendType DEF SignOut
<1>7. QED
  BY <1>3, <1>4, <1>5, <1>6

(* A flight moves on without an answer, or with one that fits.             *)
LEMMA MovedIsWellFormed ==
  ASSUME TypeInv, TokensTypeOK', Kept, NEW f \in Flights, NEW to \in Ats,
         to \in {"sent", "read"} => flights[f].at \in {"sent", "read"}, Moves(f, to)
  PROVE  WellFormed(flights[f])'
<1>1. PICK fl \in Flight : fl = flights[f] /\ WellFormed(fl) /\ flights'[f] = [fl EXCEPT !.at = to]
  BY Sequences, MovesFlight DEF TypeInv
<1>2. WellFormed(fl)'
  BY <1>1, WellFormedStays DEF TypeInv
<1>3. /\ flights'[f].device = fl.device /\ flights'[f].token = fl.token /\ flights'[f].reply = fl.reply
      /\ flights'[f].life = fl.life /\ flights'[f].kind = fl.kind /\ flights'[f].code = fl.code
      /\ flights'[f].at = to
  BY <1>1 DEF Flight
<1>4. to \in {"sent", "read"} => fl.reply = 0
  BY <1>1 DEF WellFormed
<1>5. QED
  BY <1>2, <1>3, <1>4 DEF WellFormed

LEMMA AnsweredIsWellFormed ==
  ASSUME TypeInv, TokensTypeOK', Kept, NEW f \in Flights, NEW reply \in Nat, Answers(f, reply),
         reply \in 0 .. Len(tokens'),
         flights[f].kind = "refresh" /\ reply # 0 => tokens'[reply].device = flights[f].device
  PROVE  WellFormed(flights[f])'
<1>1. PICK fl \in Flight : /\ fl = flights[f] /\ WellFormed(fl)
                           /\ flights'[f] = [fl EXCEPT !.at = "answered", !.reply = reply]
  BY Sequences, AnswersFlight DEF TypeInv
<1>2. WellFormed(fl)'
  BY <1>1, WellFormedStays DEF TypeInv
<1>3. /\ flights'[f].device = fl.device /\ flights'[f].token = fl.token /\ flights'[f].reply = reply
      /\ flights'[f].life = fl.life /\ flights'[f].kind = fl.kind /\ flights'[f].code = fl.code
      /\ flights'[f].at = "answered"
  BY <1>1 DEF Flight
<1>4. reply \in Tokens' \cup {0} /\ (fl.kind = "refresh" /\ reply # 0 => tokens'[reply].device = fl.device)
  BY <1>1, Sequences DEF Tokens
<1>5. QED
  BY <1>2, <1>3, <1>4 DEF WellFormed

LEMMA SteadyType ==
  ASSUME TypeInv, NEW f \in Flights,
         \/ PairReads(f) \/ RefreshReads(f) \/ CallServed(f) \/ RevokeServed(f)
  PROVE  TypeInv'
<1>1. /\ flights[f].token \in 0 .. Len(tokens) /\ 0 \in 0 .. Len(tokens)
      /\ flights[f].kind # "pair" => flights[f].device \in Devices
  BY Sequences DEF TypeInv, WellFormed, Tokens, Devices
<1>2. /\ devices' \in Seq(Device) /\ Len(devices') = Len(devices)
      /\ UNCHANGED <<tokens, client, life, faults>>
  BY <1>1, RevokeDevices, Sequences
     DEF PairReads, RefreshReads, CallServed, RevokeServed, At, server, TypeInv
<1>3. \/ \E to \in {"read"} : Moves(f, to)
      \/ \E reply \in {0, flights[f].token} : Answers(f, reply) /\ (flights[f].kind = "refresh" => reply = 0)
  BY DEF PairReads, RefreshReads, CallServed, RevokeServed, At
<1>4. flights[f].at \in {"sent", "read"}
  BY DEF PairReads, RefreshReads, CallServed, RevokeServed, At
<1>5. 0 \in Nat /\ flights[f].token \in Nat /\ "read" \in Ats
  BY Sequences DEF TypeInv, Flight, Ats
<1>6. /\ flights' \in Seq(Flight) /\ Len(flights') = Len(flights)
      /\ \A g \in Flights \ {f} : flights'[g] = flights[g]
  BY <1>3, <1>5, MovesFlight, AnswersFlight DEF TypeInv
<1>7. Kept
  BY <1>2, Sequences, Bounds DEF Kept, TypeInv, TokensTypeOK
<1>8. TokensTypeOK'
  <2>1. tokens' \in Seq([device : 1 .. Len(devices'), rotated : BOOLEAN])
    BY <1>2 DEF TypeInv, TokensTypeOK
  <2>2. Len(flights') <= MaxFlights /\ life' \in 0 .. MaxFaults /\ faults' \in 0 .. MaxFaults
    BY <1>2, <1>6 DEF TypeInv, TokensTypeOK
  <2>3. QED
    BY <1>2, <1>6, <1>7, <2>1, <2>2, ServerType DEF TypeInv
<1>9. WellFormed(flights[f])'
  BY <1>1, <1>2, <1>3, <1>4, <1>5, <1>7, <1>8, MovedIsWellFormed, AnsweredIsWellFormed
<1>10. \A g \in Flights' : WellFormed(flights[g])'
  BY <1>6, <1>7, <1>8, <1>9, OneFlight
<1>11. QED
  BY <1>2, <1>8, <1>10 DEF TypeInv, client

LEMMA UserRevokesType ==
  ASSUME TypeInv, NEW d \in Devices, UserRevokes(d)
  PROVE  TypeInv'
<1>1. /\ devices' \in Seq(Device) /\ Len(devices') = Len(devices)
      /\ UNCHANGED <<tokens, client, flights, life, faults>>
  BY RevokeDevices DEF UserRevokes, TypeInv
<1>2. Kept
  BY <1>1, Sequences, Bounds DEF Kept, TypeInv, TokensTypeOK
<1>3. TokensTypeOK'
  BY <1>1, <1>2, ServerType DEF TypeInv, TokensTypeOK
<1>4. ASSUME NEW g \in Flights
      PROVE  WellFormed(flights[g])'
  BY <1>1, <1>4 DEF TypeInv, WellFormed, Devices, Tokens
<1>5. QED
  BY <1>1, <1>3, <1>4 DEF TypeInv, client, Flights

LEMMA PairWritesType ==
  ASSUME TypeInv, NEW f \in Flights, PairWrites(f)
  PROVE  TypeInv'
<1> DEFINE c == flights[f].code
<1>1. c \in Code /\ flights[f].kind = "pair" /\ Len(tokens) \in Nat /\ Len(devices) \in Nat
  BY Sequences DEF PairWrites, At, TypeInv, WellFormed
<1> HIDE DEF c
<1>2. UNCHANGED <<client, life, faults>>
  BY DEF PairWrites
<1>3. \/ /\ devices' = Append(devices, [code |-> c, status |-> "LIVE"])
         /\ tokens' = Append(tokens, [device |-> Len(devices) + 1, rotated |-> FALSE])
         /\ Answers(f, Len(tokens) + 1)
      \/ Answers(f, 0) /\ UNCHANGED server
  BY DEF PairWrites, c
<1>4. PICK reply \in Nat : Answers(f, reply) /\ (reply = 0 \/ (reply = Len(tokens) + 1 /\ Len(tokens') = Len(tokens) + 1))
  BY <1>1, <1>3, NewDevice DEF TypeInv
<1>5. /\ flights' \in Seq(Flight) /\ Len(flights') = Len(flights)
      /\ \A g \in Flights \ {f} : flights'[g] = flights[g]
  BY <1>4, AnswersFlight DEF TypeInv
<1>6. /\ devices' \in Seq(Device) /\ tokens' \in Seq([device : 1 .. Len(devices'), rotated : BOOLEAN])
      /\ Len(devices') >= Len(devices) /\ Len(tokens') >= Len(tokens) /\ Len(tokens') \in Nat
      /\ \A t \in Tokens : tokens'[t] = tokens[t]
  <2>1. CASE /\ devices' = Append(devices, [code |-> c, status |-> "LIVE"])
             /\ tokens' = Append(tokens, [device |-> Len(devices) + 1, rotated |-> FALSE])
    <3>1. /\ devices' \in Seq(Device) /\ Len(devices') = Len(devices) + 1
          /\ tokens' \in Seq([device : 1 .. Len(devices'), rotated : BOOLEAN]) /\ Len(tokens') = Len(tokens) + 1
          /\ \A t \in Tokens : tokens'[t] = tokens[t]
      BY <1>1, <2>1, NewDevice DEF TypeInv
    <3>2. QED
      BY <1>1, <3>1
  <2>2. CASE UNCHANGED server
    <3>1. devices' = devices /\ tokens' = tokens
      BY <2>2 DEF server
    <3>2. devices \in Seq(Device) /\ tokens \in Seq([device : 1 .. Len(devices), rotated : BOOLEAN])
      BY Sequences DEF TypeInv, TokensTypeOK
    <3>3. QED
      BY <1>1, <3>1, <3>2
  <2>3. QED
    BY <1>3, <2>1, <2>2
<1>7. Kept
  <2>1. life \in Nat
    BY Bounds DEF TypeInv, TokensTypeOK
  <2>2. QED
    BY <1>2, <1>6, <2>1 DEF Kept
<1>8. TokensTypeOK'
  BY <1>2, <1>5, <1>6, <1>7, ServerType DEF TypeInv, TokensTypeOK
<1>9. reply \in 0 .. Len(tokens')
  BY <1>1, <1>4, <1>6
<1>10. WellFormed(flights[f])'
  BY <1>1, <1>4, <1>7, <1>8, <1>9, AnsweredIsWellFormed
<1>11. \A g \in Flights' : WellFormed(flights[g])'
  BY <1>5, <1>7, <1>8, <1>10, OneFlight
<1>12. QED
  BY <1>2, <1>8, <1>11 DEF TypeInv, client

LEMMA RefreshWritesType ==
  ASSUME TypeInv, NEW f \in Flights, RefreshWrites(f)
  PROVE  TypeInv'
<1> DEFINE t == flights[f].token
           d == flights[f].device
<1>1. /\ t \in Tokens /\ d \in Devices /\ t \in Nat /\ Len(tokens) \in Nat /\ Len(devices) \in Nat
      /\ flights[f].kind = "refresh" /\ flights[f].at = "read"
  BY Sequences DEF RefreshWrites, At, TypeInv, WellFormed, Tokens
<1> HIDE DEF t, d
<1>2. UNCHANGED <<devices, client, life, faults>> /\ life \in Nat
  BY Bounds DEF RefreshWrites, TypeInv, TokensTypeOK
<1>3. \/ Moves(f, "sent") /\ UNCHANGED tokens
      \/ /\ tokens' = Append([tokens EXCEPT ![t].rotated = TRUE], [device |-> d, rotated |-> FALSE])
         /\ Answers(f, Len(tokens) + 1)
  BY DEF RefreshWrites, t, d
<1>4. CASE Moves(f, "sent") /\ UNCHANGED tokens
  <2>1. Kept
    BY <1>1, <1>2, <1>4 DEF Kept
  <2>2. /\ flights' \in Seq(Flight) /\ Len(flights') = Len(flights)
        /\ \A g \in Flights \ {f} : flights'[g] = flights[g]
    BY <1>4, MovesFlight DEF TypeInv, Ats
  <2>3. TokensTypeOK'
    BY <1>2, <1>4, <2>1, <2>2 DEF TypeInv, TokensTypeOK, client
  <2>4. WellFormed(flights[f])'
    BY <1>1, <1>4, <2>1, <2>3, MovedIsWellFormed DEF Ats
  <2>5. \A g \in Flights' : WellFormed(flights[g])'
    BY <2>1, <2>2, <2>3, <2>4, OneFlight
  <2>6. QED
    BY <1>2, <2>3, <2>5 DEF TypeInv, client
<1>5. CASE /\ tokens' = Append([tokens EXCEPT ![t].rotated = TRUE], [device |-> d, rotated |-> FALSE])
           /\ Answers(f, Len(tokens) + 1)
  <2>1. /\ tokens' \in Seq([device : Devices, rotated : BOOLEAN]) /\ Len(tokens') = Len(tokens) + 1
        /\ \A u \in Tokens : tokens'[u].device = tokens[u].device
        /\ tokens'[Len(tokens) + 1].device = d
    <3>1. TokensTypeOK
      BY DEF TypeInv
    <3>2. QED
      BY <1>1, <1>5, <3>1, NewToken
  <2>2. Kept
    BY <1>1, <1>2, <2>1 DEF Kept
  <2>3. PICK reply \in Nat : Answers(f, reply) /\ reply = Len(tokens) + 1
    BY <1>1, <1>5
  <2>4. /\ flights' \in Seq(Flight) /\ Len(flights') = Len(flights)
        /\ \A g \in Flights \ {f} : flights'[g] = flights[g]
    BY <2>3, AnswersFlight DEF TypeInv
  <2>5. TokensTypeOK'
    <3>1. devices' \in Seq(Device) /\ tokens' \in Seq([device : 1 .. Len(devices'), rotated : BOOLEAN])
      BY <1>2, <2>1, Sequences DEF TypeInv, Devices
    <3>2. QED
      BY <1>2, <2>2, <2>4, <3>1, ServerType DEF TypeInv, TokensTypeOK
  <2>6. WellFormed(flights[f])'
    <3>1. tokens'[reply].device = flights[f].device /\ reply \in 0 .. Len(tokens')
      BY <1>1, <2>1, <2>3 DEF d
    <3>2. QED
      BY <2>2, <2>3, <2>5, <3>1, AnsweredIsWellFormed
  <2>7. \A g \in Flights' : WellFormed(flights[g])'
    BY <2>2, <2>4, <2>5, <2>6, OneFlight
  <2>8. QED
    BY <1>2, <2>5, <2>7 DEF TypeInv, client
<1>6. QED
  BY <1>3, <1>4, <1>5

(* What the client stores when an answer arrives.                          *)
LEMMA AnsweredClient ==
  ASSUME TypeInv, NEW f \in Flights, Answered(f)
  PROVE  \/ UNCHANGED client /\ flights[f].kind # "refresh"
         \/ local' = Nothing /\ session' = 0
         \/ /\ flights[f].kind \in {"pair", "refresh"} /\ flights[f].reply # 0 /\ flights[f].reply \in Tokens
            /\ local' = [device |-> tokens[flights[f].reply].device, token |-> flights[f].reply]
            /\ session' = flights[f].reply
<1>1. /\ flights[f].kind \in {"pair", "refresh", "call", "revoke"} /\ flights[f].reply \in Tokens \cup {0}
      /\ flights[f].kind = "refresh" /\ flights[f].reply # 0 => tokens[flights[f].reply].device = flights[f].device
  BY Sequences DEF TypeInv, WellFormed, Flight, Kind
<1>2. CASE flights[f].kind = "pair" /\ flights[f].reply # 0
  BY <1>1, <1>2 DEF Answered, Store
<1>3. CASE flights[f].kind = "refresh" /\ flights[f].reply # 0
  BY <1>1, <1>3 DEF Answered, Store
<1>4. CASE flights[f].kind = "revoke" \/ (flights[f].kind \in {"refresh", "call"} /\ flights[f].reply = 0)
  BY <1>1, <1>4 DEF Answered, Wipe
<1>5. CASE /\ ~(flights[f].kind = "pair" /\ flights[f].reply # 0)
           /\ ~(flights[f].kind = "refresh" /\ flights[f].reply # 0)
           /\ ~(flights[f].kind = "revoke" \/ (flights[f].kind \in {"refresh", "call"} /\ flights[f].reply = 0))
  BY <1>1, <1>5 DEF Answered
<1>6. QED
  BY <1>2, <1>3, <1>4, <1>5

(* The client hears or loses an answer: its storage changes, the server's  *)
(* does not.                                                               *)
LEMMA HearingType ==
  ASSUME TypeInv, NEW f \in Flights, Answered(f) \/ Lose(f)
  PROVE  TypeInv'
<1>1. /\ UNCHANGED <<server, life>> /\ faults' \in 0 .. MaxFaults /\ faults' >= faults
      /\ \E to \in {"done", "lost"} : Moves(f, to)
  BY Bounds DEF Answered, Lose, TypeInv, TokensTypeOK
<1>2. \/ UNCHANGED client
      \/ local' = Nothing /\ session' = 0
      \/ /\ flights[f].reply # 0 /\ flights[f].reply \in Tokens
         /\ local' = [device |-> tokens[flights[f].reply].device, token |-> flights[f].reply]
         /\ session' = flights[f].reply
  BY AnsweredClient DEF Lose, Wipe
<1>3. /\ flights' \in Seq(Flight) /\ Len(flights') = Len(flights)
      /\ \A g \in Flights \ {f} : flights'[g] = flights[g]
  BY <1>1, MovesFlight DEF TypeInv, Ats
<1>4. Kept
  BY <1>1, Sequences, Bounds DEF Kept, server, TypeInv, TokensTypeOK
<1>5. /\ local' \in [device : 0 .. Len(devices), token : 0 .. Len(tokens)] /\ session' \in 0 .. Len(tokens)
      /\ local'.token # 0 => local'.device # 0 /\ tokens[local'.token].device = local'.device
      /\ local'.device # 0 => local'.token # 0
  <2>1. CASE UNCHANGED client
    BY <2>1 DEF client, TypeInv, TokensTypeOK
  <2>2. CASE local' = Nothing /\ session' = 0
    BY <2>2, Sequences DEF Nothing, TypeInv
  <2>3. CASE /\ flights[f].reply # 0 /\ flights[f].reply \in Tokens
             /\ local' = [device |-> tokens[flights[f].reply].device, token |-> flights[f].reply]
             /\ session' = flights[f].reply
    BY <2>3, Sequences DEF TypeInv, Devices, Tokens
  <2>4. QED
    BY <1>2, <2>1, <2>2, <2>3
<1>6. TokensTypeOK'
  BY <1>1, <1>3, <1>5 DEF TypeInv, TokensTypeOK, server
<1>7. WellFormed(flights[f])'
  BY <1>1, <1>4, <1>6, MovedIsWellFormed DEF Ats
<1>8. \A g \in Flights' : WellFormed(flights[g])'
  BY <1>3, <1>4, <1>6, <1>7, OneFlight
<1>9. life' <= faults'
  BY <1>1, Bounds DEF TypeInv, TokensTypeOK
<1>10. QED
  BY <1>5, <1>6, <1>8, <1>9 DEF TypeInv

LEMMA DieType ==
  ASSUME TypeInv, Die
  PROVE  TypeInv'
<1>1. /\ UNCHANGED <<server, client, flights>> /\ life \in Nat /\ faults \in Nat
      /\ life' = life + 1 /\ faults' = faults + 1 /\ faults' <= MaxFaults /\ life' <= faults'
  BY Bounds DEF Die, TypeInv, TokensTypeOK
<1>2. TokensTypeOK'
  BY <1>1, Bounds DEF TypeInv, TokensTypeOK, server, client
<1>3. Kept
  BY <1>1, Sequences DEF Kept, server, TypeInv
<1>4. ASSUME NEW g \in Flights
      PROVE  WellFormed(flights[g])'
  <2>1. PICK fl \in Flight : fl = flights[g] /\ flights'[g] = fl
    BY <1>1, Sequences DEF TypeInv
  <2>2. WellFormed(fl)'
    BY <1>2, <1>3, <2>1, WellFormedStays DEF TypeInv
  <2>3. QED
    BY <2>1, <2>2
<1>5. QED
  BY <1>1, <1>2, <1>4 DEF TypeInv, client, Flights

LEMMA InitType == Init => TypeInv
<1> SUFFICES ASSUME Init
             PROVE  TypeInv
  OBVIOUS
<1>1. Len(devices) = 0 /\ Len(tokens) = 0 /\ Len(flights) = 0
  BY DEF Init
<1>2. TokensTypeOK
  BY <1>1, Bounds DEF Init, TokensTypeOK, Nothing
<1>3. QED
  BY <1>1, <1>2 DEF Init, TypeInv, Flights, Nothing

LEMMA TypeStep == TypeInv /\ [Next]_vars => TypeInv'
<1> SUFFICES ASSUME TypeInv, [Next]_vars
             PROVE  TypeInv'
  OBVIOUS
<1>1. DOMAIN flights = Flights /\ DOMAIN devices = Devices
  BY Sequences DEF TypeInv
<1>2. CASE UNCHANGED vars
  BY <1>2 DEF vars, server, client, TypeInv, TokensTypeOK, WellFormed, Flights, Devices, Tokens
<1>3. QED
  BY <1>1, <1>2, SendingType, SteadyType, PairWritesType, RefreshWritesType, HearingType, UserRevokesType, DieType
     DEF Next

LEMMA TypeAlways == Spec => []TypeInv
BY InitType, TypeStep, PTL DEF Spec

(* What client and server store keeps its type: the client's token is of   *)
(* the device it is stored with, whatever answers were lost in between.    *)
THEOREM TokensTypeCorrect == Spec => []TokensTypeOK
<1>1. TypeInv => TokensTypeOK
  BY DEF TypeInv
<1>2. QED
  BY <1>1, TypeAlways, PTL

-----------------------------------------------------------------------------
(* Uniqueness.  A code is looked up again in the statement that consumes   *)
(* it; a token comes to life when its predecessor ends.                    *)

CredentialsInv == TypeInv /\ CredentialsAreUnique

UniqueCodes == \A d, e \in Devices : devices[d].code = devices[e].code => d = e

UniqueTokens ==
  \A t, u \in Tokens :
    tokens[t].device = tokens[u].device /\ ~tokens[t].rotated /\ ~tokens[u].rotated => t = u

LEMMA UniqueDef == TokensTypeOK => (CredentialsAreUnique <=> UniqueCodes /\ UniqueTokens)
<1>1. TokensTypeOK => DOMAIN devices = Devices /\ DOMAIN tokens = Tokens
  BY Sequences
<1>2. QED
  BY <1>1 DEF CredentialsAreUnique, UniqueCodes, UniqueTokens

LEMMA SameCodes ==
  ASSUME UniqueCodes, Len(devices') = Len(devices), \A d \in Devices : devices'[d].code = devices[d].code
  PROVE  UniqueCodes'
BY DEF UniqueCodes, Devices

LEMMA CredentialsStep == CredentialsInv /\ [Next]_vars => CredentialsInv'
<1> SUFFICES ASSUME CredentialsInv, [Next]_vars
             PROVE  CredentialsInv'
  OBVIOUS
<1>1. TokensTypeOK /\ UniqueCodes /\ UniqueTokens /\ DOMAIN flights = Flights /\ DOMAIN devices = Devices
  BY UniqueDef, Sequences DEF CredentialsInv, TypeInv
<1>2. ASSUME UNCHANGED server
      PROVE  UniqueCodes' /\ UniqueTokens'
  BY <1>1, <1>2 DEF server, UniqueCodes, UniqueTokens, Devices, Tokens
<1>3. ASSUME NEW d \in Devices, NEW why \in {"REUSE", "REVOKED"}, RevokeRows(d, why), UNCHANGED tokens
      PROVE  UniqueCodes' /\ UniqueTokens'
  <2>1. Len(devices') = Len(devices) /\ \A e \in Devices : devices'[e].code = devices[e].code
    BY <1>1, <1>3, RevokeDevices
  <2>2. UniqueCodes'
    BY <1>1, <2>1, SameCodes
  <2>3. QED
    BY <1>1, <1>3, <2>2 DEF UniqueTokens, Tokens
<1>4. ASSUME NEW f \in Flights, PairReads(f) \/ RefreshReads(f) \/ CallServed(f) \/ RevokeServed(f)
      PROVE  UniqueCodes' /\ UniqueTokens'
  <2>1. flights[f].kind # "pair" => flights[f].device \in Devices
    BY DEF CredentialsInv, TypeInv, WellFormed
  <2>2. UNCHANGED server \/ (\E why \in {"REUSE", "REVOKED"} : RevokeRows(flights[f].device, why) /\ UNCHANGED tokens
                                                            /\ flights[f].kind # "pair")
    BY <1>4 DEF PairReads, RefreshReads, CallServed, RevokeServed, At, server
  <2>3. QED
    BY <1>2, <1>3, <2>1, <2>2
<1>5. ASSUME NEW f \in Flights, PairWrites(f)
      PROVE  UniqueCodes' /\ UniqueTokens'
  <2>1. PICK c \in Code : c = flights[f].code
    BY <1>5 DEF PairWrites, At, CredentialsInv, TypeInv, WellFormed
  <2>2. \/ UNCHANGED server
        \/ /\ \A d \in Devices : devices[d].code # c
           /\ devices' = Append(devices, [code |-> c, status |-> "LIVE"])
           /\ tokens' = Append(tokens, [device |-> Len(devices) + 1, rotated |-> FALSE])
    BY <1>1, <1>5, <2>1 DEF PairWrites, Consumable, Consumed
  <2>3. CASE /\ \A d \in Devices : devices[d].code # c
             /\ devices' = Append(devices, [code |-> c, status |-> "LIVE"])
             /\ tokens' = Append(tokens, [device |-> Len(devices) + 1, rotated |-> FALSE])
    <3>1. /\ Len(devices') = Len(devices) + 1 /\ \A d \in Devices : devices'[d] = devices[d]
          /\ devices'[Len(devices) + 1] = [code |-> c, status |-> "LIVE"]
          /\ Len(tokens') = Len(tokens) + 1 /\ \A t \in Tokens : tokens'[t] = tokens[t]
          /\ tokens'[Len(tokens) + 1].device = Len(devices) + 1
      BY <1>1, <2>3, NewDevice
    <3>2. /\ Len(devices) \in Nat /\ Len(tokens) \in Nat
          /\ \A t \in Tokens : tokens[t].device \in Devices
      BY <1>1, Sequences
    <3>3. devices'[Len(devices) + 1].code = c
      BY <3>1
    <3>4. /\ \A d \in Devices' : d \in Devices \/ d = Len(devices) + 1
          /\ \A t \in Tokens' : t \in Tokens \/ t = Len(tokens) + 1
          /\ Len(devices) + 1 \notin Devices
      BY <3>1, <3>2 DEF Devices, Tokens
    <3>5. UniqueCodes'
      BY <1>1, <2>3, <3>1, <3>3, <3>4 DEF UniqueCodes
    <3>6. UniqueTokens'
      BY <1>1, <3>1, <3>2, <3>4 DEF UniqueTokens
    <3>7. QED
      BY <3>5, <3>6
  <2>4. QED
    BY <1>2, <2>2, <2>3
<1>6. ASSUME NEW f \in Flights, RefreshWrites(f)
      PROVE  UniqueCodes' /\ UniqueTokens'
  <2>1. PICK t \in Tokens, d \in Devices : t = flights[f].token /\ d = flights[f].device /\ tokens[t].device = d
    BY <1>6 DEF RefreshWrites, At, CredentialsInv, TypeInv, WellFormed
  <2>2. CASE UNCHANGED server
    BY <1>2, <2>2
  <2>3. CASE /\ ~tokens[t].rotated /\ UNCHANGED devices
             /\ tokens' = Append([tokens EXCEPT ![t].rotated = TRUE], [device |-> d, rotated |-> FALSE])
    <3>1. /\ Len(tokens') = Len(tokens) + 1
          /\ \A u \in Tokens : /\ tokens'[u].device = tokens[u].device
                               /\ tokens'[u].rotated <=> tokens[u].rotated \/ u = t
          /\ tokens'[Len(tokens) + 1].device = d
      BY <1>1, <2>3, NewToken
    <3>2. \A u \in Tokens' : u \in Tokens \/ u = Len(tokens) + 1
      BY <1>1, <3>1, Sequences DEF Tokens
    <3>3. \A u \in Tokens : tokens[u].device = d /\ ~tokens[u].rotated => u = t
      BY <1>1, <2>1, <2>3 DEF UniqueTokens
    <3>4. UniqueTokens'
      BY <1>1, <3>1, <3>2, <3>3 DEF UniqueTokens
    <3>5. QED
      BY <1>1, <2>3, <3>4 DEF UniqueCodes, Devices
  <2>4. QED
    BY <1>6, <2>1, <2>2, <2>3 DEF RefreshWrites, server
<1>7. ASSUME NEW d \in Devices, UserRevokes(d)
      PROVE  UniqueCodes' /\ UniqueTokens'
  BY <1>3, <1>7 DEF UserRevokes
<1>8. ASSUME \/ \E c \in Code : Pair(c)
             \/ Refresh \/ Call \/ SignOut \/ Die \/ UNCHANGED vars
             \/ \E f \in Flights : Answered(f) \/ Lose(f)
      PROVE  UNCHANGED server
  BY <1>8 DEF Pair, Refresh, Call, SignOut, Send, Die, Answered, Lose, vars, server
<1>9. UniqueCodes' /\ UniqueTokens'
  BY <1>1, <1>2, <1>4, <1>5, <1>6, <1>7, <1>8 DEF Next
<1>10. TypeInv'
  BY TypeStep DEF CredentialsInv
<1>11. DOMAIN devices' = 1 .. Len(devices') /\ DOMAIN tokens' = 1 .. Len(tokens')
  BY <1>10, LenProperties DEF TypeInv, TokensTypeOK
<1>12. QED
  BY <1>9, <1>10, <1>11 DEF CredentialsInv, CredentialsAreUnique, UniqueCodes, UniqueTokens, Devices, Tokens

(* A code pairs one device and a device has one refresh token that works,  *)
(* for any number of requests that meet at the server.                     *)
THEOREM CredentialsAreUniqueAlways == Spec => []CredentialsAreUnique
<1>1. Init => CredentialsInv
  BY InitType DEF Init, CredentialsInv, CredentialsAreUnique
<1>2. CredentialsInv => CredentialsAreUnique
  BY DEF CredentialsInv
<1>3. QED
  BY <1>1, <1>2, CredentialsStep, PTL DEF Spec

-----------------------------------------------------------------------------
(* Families.  Each code's family is told by its one device, and what works *)
(* of it are the tokens of that device that were not rotated.              *)

Paired(d) == devices[d].code

LEMMA CredentialsAlways ==
  ASSUME CredentialsInv
  PROVE  TypeInv /\ TokensTypeOK /\ UniqueCodes /\ UniqueTokens
BY UniqueDef DEF CredentialsInv, TypeInv

LEMMA FamilyIs ==
  ASSUME TokensTypeOK, NEW c \in Code
  PROVE  /\ Family(c) = "unused" <=> \A d \in Devices : Paired(d) # c
         /\ Family(c) = "live" <=> \E d \in Devices : Paired(d) = c /\ Live(d)
         /\ Family(c) \in {"unused", "live", "ended"}
         /\ Works(c) = {t \in Tokens : ~tokens[t].rotated /\ Paired(tokens[t].device) = c}
<1>1. DOMAIN devices = Devices /\ DOMAIN tokens = Tokens
  BY Sequences
<1>2. Consumed(c) <=> \E d \in Devices : Paired(d) = c
  BY <1>1 DEF Consumed, Paired
<1>3. Works(c) = {t \in Tokens : ~tokens[t].rotated /\ Paired(tokens[t].device) = c}
  BY <1>1 DEF Works, Paired
<1>4. QED
  BY <1>1, <1>2, <1>3 DEF Family, Paired

(* The same of what a step leaves.                                         *)
LEMMA FamilyIsNext ==
  ASSUME TokensTypeOK', NEW c \in Code
  PROVE  /\ Family(c)' = "unused" <=> \A d \in Devices' : Paired(d)' # c
         /\ Family(c)' = "live" <=> \E d \in Devices' : Paired(d)' = c /\ Live(d)'
         /\ Family(c)' \in {"unused", "live", "ended"}
         /\ Works(c)' = {t \in Tokens' : ~tokens'[t].rotated /\ devices'[tokens'[t].device].code = c}
<1>1. DOMAIN devices' = Devices' /\ DOMAIN tokens' = Tokens'
  BY LenProperties DEF TokensTypeOK, Devices, Tokens
<1>2. Consumed(c)' <=> \E d \in Devices' : Paired(d)' = c
  BY <1>1 DEF Consumed, Paired
<1>3. Works(c)' = {t \in Tokens' : ~tokens'[t].rotated /\ devices'[tokens'[t].device].code = c}
  BY <1>1 DEF Works
<1>4. QED
  BY <1>1, <1>2, <1>3 DEF Family, Paired

(* What the records after a step must show for it to be one of a family.   *)
LEMMA FamilyStarts ==
  ASSUME CredentialsInv, TokensTypeOK', NEW c \in Code,
         \A d \in Devices : Paired(d) # c,
         devices' = Append(devices, [code |-> c, status |-> "LIVE"]),
         tokens' = Append(tokens, [device |-> Len(devices) + 1, rotated |-> FALSE])
  PROVE  Promise!Start(c)
<1>1. /\ TokensTypeOK /\ Len(devices) \in Nat /\ Len(tokens) \in Nat
      /\ \A t \in Tokens : tokens[t].device \in Devices
  BY CredentialsAlways, Sequences
<1>2. PICK n, m : n = Len(devices) + 1 /\ m = Len(tokens) + 1
  OBVIOUS
<1>3. /\ Devices' = Devices \cup {n} /\ Tokens' = Tokens \cup {m} /\ n \notin Devices /\ m \notin Tokens
      /\ Len(tokens') = m
      /\ \A d \in Devices : Paired(d)' = Paired(d) /\ (Live(d)' <=> Live(d))
      /\ \A t \in Tokens : tokens'[t] = tokens[t]
      /\ Paired(n)' = c /\ Live(n)' /\ tokens'[m].device = n /\ ~tokens'[m].rotated
  BY <1>1, <1>2, NewDevice DEF Devices, Tokens, Paired, Live
<1>4. Family(c) = "unused" /\ Family(c)' = "live"
  BY <1>1, <1>3, FamilyIs, FamilyIsNext
<1>5. \A b \in Code \ {c} : Family(b)' = Family(b)
  <2> SUFFICES ASSUME NEW b \in Code \ {c} PROVE Family(b)' = Family(b)
    OBVIOUS
  <2>1. /\ Family(b)' = "unused" <=> Family(b) = "unused"
        /\ Family(b)' = "live" <=> Family(b) = "live"
    BY <1>1, <1>3, FamilyIs, FamilyIsNext
  <2>2. QED
    BY <1>1, <2>1, FamilyIs, FamilyIsNext
<1>6. Works(c)' = {m}
  <2>1. \A t \in Tokens : devices'[tokens'[t].device].code # c
    BY <1>1, <1>3 DEF Paired
  <2>2. Works(c)' = {t \in Tokens' : ~tokens'[t].rotated /\ devices'[tokens'[t].device].code = c}
    BY FamilyIsNext
  <2>3. \A t \in Tokens' : t \in Works(c)' <=> t = m
    BY <1>3, <2>1, <2>2 DEF Paired
  <2>4. QED
    BY <1>3, <2>2, <2>3 DEF Paired
<1>7. \A b \in Code \ {c} : Works(b)' = Works(b)
  <2> SUFFICES ASSUME NEW b \in Code \ {c} PROVE Works(b)' = Works(b)
    OBVIOUS
  <2>1. Works(b)' = {t \in Tokens' : ~tokens'[t].rotated /\ devices'[tokens'[t].device].code = b}
    BY FamilyIsNext
  <2>2. Works(b) = {t \in Tokens : ~tokens[t].rotated /\ Paired(tokens[t].device) = b}
    BY <1>1, FamilyIs
  <2>3. devices'[tokens'[m].device].code # b
    BY <1>3 DEF Paired
  <2>4. \A t \in Tokens : devices'[tokens'[t].device].code = Paired(tokens[t].device) /\ tokens'[t] = tokens[t]
    BY <1>1, <1>3 DEF Paired
  <2>5. Works(b)' \subseteq Tokens \cup {m} /\ Works(b) \subseteq Tokens /\ m \notin Works(b)'
    BY <1>3, <2>1, <2>2, <2>3
  <2>6. \A t \in Tokens : t \in Works(b)' <=> t \in Works(b)
    BY <1>3, <2>1, <2>2, <2>3, <2>4
  <2>7. QED
    BY <2>5, <2>6
<1>8. QED
  BY <1>2, <1>3, <1>4, <1>5, <1>6, <1>7 DEF Promise!Start, Promise!Issue

LEMMA FamilyRotates ==
  ASSUME CredentialsInv, TokensTypeOK', NEW t \in Tokens, NEW d \in Devices, tokens[t].device = d, ~tokens[t].rotated,
         UNCHANGED devices,
         tokens' = Append([tokens EXCEPT ![t].rotated = TRUE], [device |-> d, rotated |-> FALSE])
  PROVE  \E c \in Code : Promise!Rotate(c)
<1>1. /\ TokensTypeOK /\ UniqueCodes /\ UniqueTokens /\ Len(tokens) \in Nat
      /\ \A u \in Tokens : tokens[u].device \in Devices
      /\ \A e \in Devices : Paired(e) \in Code
  BY CredentialsAlways, Sequences DEF Device, Paired
<1>2. PICK c \in Code, m \in {Len(tokens) + 1} : c = Paired(d) /\ m = Len(tokens) + 1
  BY <1>1
<1>3. /\ Tokens' = Tokens \cup {m} /\ m \notin Tokens /\ Len(tokens') = m /\ Devices' = Devices
      /\ \A u \in Tokens : /\ tokens'[u].device = tokens[u].device
                           /\ tokens'[u].rotated <=> tokens[u].rotated \/ u = t
      /\ tokens'[m].device = d /\ ~tokens'[m].rotated
      /\ \A e \in Devices : Paired(e)' = Paired(e) /\ (Live(e)' <=> Live(e))
  BY <1>1, <1>2, NewToken DEF Tokens, Devices, Paired, Live
<1>4. \A b \in Code : Family(b)' = Family(b)
  <2> SUFFICES ASSUME NEW b \in Code PROVE Family(b)' = Family(b)
    OBVIOUS
  <2>1. /\ Family(b)' = "unused" <=> Family(b) = "unused"
        /\ Family(b)' = "live" <=> Family(b) = "live"
    BY <1>1, <1>3, FamilyIs, FamilyIsNext
  <2>2. QED
    BY <1>1, <2>1, FamilyIs, FamilyIsNext
<1>5. Family(c) # "unused"
  BY <1>1, <1>2, FamilyIs
<1>6. \A u \in Tokens : ~tokens[u].rotated /\ Paired(tokens[u].device) = c => u = t
  BY <1>1, <1>2 DEF UniqueCodes, UniqueTokens, Paired
<1>7. Works(c)' = {m}
  <2>1. Works(c)' = {u \in Tokens' : ~tokens'[u].rotated /\ devices'[tokens'[u].device].code = c}
    BY FamilyIsNext
  <2>2. \A u \in Tokens' : u \in Works(c)' <=> u = m
    BY <1>1, <1>2, <1>3, <1>6, <2>1 DEF Paired
  <2>3. QED
    BY <1>3, <2>1, <2>2 DEF Paired
<1>8. \A b \in Code \ {c} : Works(b)' = Works(b)
  <2> SUFFICES ASSUME NEW b \in Code \ {c} PROVE Works(b)' = Works(b)
    OBVIOUS
  <2>1. Works(b)' = {u \in Tokens' : ~tokens'[u].rotated /\ devices'[tokens'[u].device].code = b}
    BY FamilyIsNext
  <2>2. Works(b) = {u \in Tokens : ~tokens[u].rotated /\ Paired(tokens[u].device) = b}
    BY <1>1, FamilyIs
  <2>3. devices'[tokens'[m].device].code # b /\ Paired(tokens[t].device) # b
    BY <1>2, <1>3 DEF Paired
  <2>4. \A u \in Tokens : devices'[tokens'[u].device].code = Paired(tokens[u].device)
    BY <1>1, <1>3 DEF Paired
  <2>5. Works(b)' \subseteq Tokens \cup {m} /\ Works(b) \subseteq Tokens /\ m \notin Works(b)'
    BY <1>3, <2>1, <2>2, <2>3
  <2>6. \A u \in Tokens : u \in Works(b)' <=> u \in Works(b)
    BY <1>3, <2>1, <2>2, <2>3, <2>4
  <2>7. QED
    BY <2>5, <2>6
<1>9. Len(tokens') = Len(tokens) + 1 /\ Works(c)' = {Len(tokens) + 1}
  BY <1>2, <1>3, <1>7
<1>10. [b \in Code |-> Works(b)]' = [[b \in Code |-> Works(b)] EXCEPT ![c] = {Len(tokens) + 1}]
  BY <1>8, <1>9
<1>11. UNCHANGED [b \in Code |-> Family(b)]
  BY <1>4
<1>12. Promise!Rotate(c)
  BY <1>5, <1>9, <1>10, <1>11 DEF Promise!Rotate, Promise!Issue
<1>13. QED
  BY <1>12

LEMMA FamilyEnds ==
  ASSUME CredentialsInv, TokensTypeOK', NEW d \in Devices, NEW why \in {"REUSE", "REVOKED"}, RevokeRows(d, why),
         UNCHANGED tokens
  PROVE  UNCHANGED Promise!vars \/ \E c \in Code : Promise!End(c)
<1>1. /\ TokensTypeOK /\ UniqueCodes
      /\ \A u \in Tokens : tokens[u].device \in Devices
      /\ \A e \in Devices : Paired(e) \in Code
  BY CredentialsAlways, Sequences DEF Device, Paired
<1>2. PICK c \in Code : c = Paired(d)
  BY <1>1
<1>3. /\ Devices' = Devices /\ Tokens' = Tokens
      /\ \A e \in Devices : Paired(e)' = Paired(e) /\ (Live(e)' <=> Live(e) /\ e # d)
  BY <1>1, RevokeDevices DEF Devices, Tokens, Paired, Live
<1>4. \A b \in Code : Works(b)' = Works(b)
  <2> SUFFICES ASSUME NEW b \in Code PROVE Works(b)' = Works(b)
    OBVIOUS
  <2>1. Works(b)' = {u \in Tokens' : ~tokens'[u].rotated /\ devices'[tokens'[u].device].code = b}
    BY FamilyIsNext
  <2>2. Works(b) = {u \in Tokens : ~tokens[u].rotated /\ Paired(tokens[u].device) = b}
    BY <1>1, FamilyIs
  <2>3. QED
    BY <1>1, <1>3, <2>1, <2>2 DEF Paired
<1>5. \A b \in Code : Family(b)' = IF b = c /\ Live(d) THEN "ended" ELSE Family(b)
  <2> SUFFICES ASSUME NEW b \in Code PROVE Family(b)' = IF b = c /\ Live(d) THEN "ended" ELSE Family(b)
    OBVIOUS
  <2>1. Family(b)' = "unused" <=> Family(b) = "unused"
    BY <1>1, <1>3, FamilyIs, FamilyIsNext
  <2>2. b = c /\ Live(d) => Family(b)' # "live" /\ Family(b)' # "unused"
    BY <1>1, <1>2, <1>3, FamilyIs, FamilyIsNext DEF UniqueCodes, Paired
  <2>3. ~(b = c /\ Live(d)) => (Family(b)' = "live" <=> Family(b) = "live")
    BY <1>1, <1>2, <1>3, FamilyIs, FamilyIsNext
  <2>4. QED
    BY <1>1, <2>1, <2>2, <2>3, FamilyIs, FamilyIsNext
<1>6. CASE Live(d)
  <2>1. Family(c) = "live"
    BY <1>1, <1>2, <1>6, FamilyIs
  <2>2. Promise!End(c)
    BY <1>2, <1>4, <1>5, <1>6, <2>1 DEF Promise!End
  <2>3. QED
    BY <2>2 DEF Paired
<1>7. CASE ~Live(d)
  BY <1>4, <1>5, <1>7 DEF Promise!vars
<1>8. QED
  BY <1>6, <1>7 DEF Paired

LEMMA FamilyStep == CredentialsInv /\ [Next]_vars => [Promise!Next]_(Promise!vars)
<1> SUFFICES ASSUME CredentialsInv, [Next]_vars
             PROVE  [Promise!Next]_(Promise!vars)
  OBVIOUS
<1>1. TypeInv /\ TokensTypeOK /\ DOMAIN flights = Flights /\ DOMAIN devices = Devices
  BY CredentialsAlways, Sequences
<1>2. TokensTypeOK'
  BY TypeStep DEF CredentialsInv, TypeInv
<1>3. ASSUME UNCHANGED server
      PROVE  UNCHANGED Promise!vars
  BY <1>3 DEF server, Promise!vars, Family, Consumed, Live, Works
<1>4. ASSUME NEW f \in Flights, PairReads(f) \/ RefreshReads(f) \/ CallServed(f) \/ RevokeServed(f)
      PROVE  [Promise!Next]_(Promise!vars)
  <2>1. flights[f].kind # "pair" => flights[f].device \in Devices
    BY <1>1 DEF TypeInv, WellFormed
  <2>2. UNCHANGED server \/ (\E why \in {"REUSE", "REVOKED"} : RevokeRows(flights[f].device, why) /\ UNCHANGED tokens
                                                            /\ flights[f].kind # "pair")
    BY <1>4 DEF PairReads, RefreshReads, CallServed, RevokeServed, At, server
  <2>3. QED
    BY <1>2, <1>3, <2>1, <2>2, FamilyEnds DEF Promise!Next
<1>5. ASSUME NEW f \in Flights, PairWrites(f)
      PROVE  [Promise!Next]_(Promise!vars)
  <2>1. PICK c \in Code : c = flights[f].code
    BY <1>1, <1>5 DEF PairWrites, At, TypeInv, WellFormed
  <2>2. \/ UNCHANGED server
        \/ /\ \A d \in Devices : Paired(d) # c
           /\ devices' = Append(devices, [code |-> c, status |-> "LIVE"])
           /\ tokens' = Append(tokens, [device |-> Len(devices) + 1, rotated |-> FALSE])
    BY <1>1, <1>5, <2>1 DEF PairWrites, Consumable, Consumed, Paired
  <2>3. QED
    BY <1>2, <1>3, <2>2, FamilyStarts DEF Promise!Next
<1>6. ASSUME NEW f \in Flights, RefreshWrites(f)
      PROVE  [Promise!Next]_(Promise!vars)
  <2>1. PICK t \in Tokens, d \in Devices : t = flights[f].token /\ d = flights[f].device /\ tokens[t].device = d
    BY <1>1, <1>6 DEF RefreshWrites, At, TypeInv, WellFormed
  <2>2. \/ UNCHANGED server
        \/ /\ ~tokens[t].rotated /\ UNCHANGED devices
           /\ tokens' = Append([tokens EXCEPT ![t].rotated = TRUE], [device |-> d, rotated |-> FALSE])
    BY <1>6, <2>1 DEF RefreshWrites, server
  <2>3. QED
    BY <1>2, <1>3, <2>1, <2>2, FamilyRotates DEF Promise!Next
<1>7. ASSUME NEW d \in Devices, UserRevokes(d)
      PROVE  [Promise!Next]_(Promise!vars)
  BY <1>2, <1>7, FamilyEnds DEF UserRevokes, Promise!Next
<1>8. ASSUME \/ \E c \in Code : Pair(c)
             \/ Refresh \/ Call \/ SignOut \/ Die \/ UNCHANGED vars
             \/ \E f \in Flights : Answered(f) \/ Lose(f)
      PROVE  UNCHANGED server
  BY <1>8 DEF Pair, Refresh, Call, SignOut, Send, Die, Answered, Lose, vars, server
<1>9. QED
  BY <1>1, <1>3, <1>4, <1>5, <1>6, <1>7, <1>8 DEF Next

LEMMA FamilyInit == Init => CredentialsInv /\ Promise!Init
<1> SUFFICES ASSUME Init
             PROVE  CredentialsInv /\ Promise!Init
  OBVIOUS
<1>1. CredentialsInv
  BY InitType DEF Init, CredentialsInv, CredentialsAreUnique
<1>2. DOMAIN devices = {} /\ DOMAIN tokens = {} /\ Len(tokens) = 0
  BY DEF Init
<1>3. Promise!Init
  BY <1>2 DEF Promise!Init, Family, Consumed, Works
<1>4. QED
  BY <1>1, <1>3

(* The server's tables are what an abstract family of rotating tokens      *)
(* promises, for any codes, requests and devices: a code starts one        *)
(* family, the latest token is the only one of it that works, and what was *)
(* revoked does not come back.                                             *)
THEOREM KeepsFamiliesAlways == Spec => KeepsFamilies
<1>1. CredentialsInv /\ [Next]_vars => CredentialsInv'
  BY CredentialsStep
<1>2. QED
  BY <1>1, FamilyInit, FamilyStep, PTL DEF Spec, KeepsFamilies, Promise!Spec

-----------------------------------------------------------------------------
(* Theft.  A token is rotated for a flight that presented it.  A second    *)
(* flight presents it only if the first went without an answer, because a  *)
(* first that was answered replaced it in the client's storage for good:   *)
(* what comes back is a token that nobody has presented, and no two        *)
(* flights bring the same.                                                 *)

Presents(f, t) == flights[f].kind = "refresh" /\ flights[f].token = t

Unanswered(f) == flights[f].at = "lost" \/ (flights[f].at # "done" /\ flights[f].life < life)

Cause(d) == \E f \in Flights : flights[f].kind = "refresh" /\ flights[f].device = d /\ Unanswered(f)

Brings(f) == flights[f].kind \in {"pair", "refresh"} /\ flights[f].reply # 0

RotatedWasPresented ==
  \A t \in Tokens : tokens[t].rotated => \E f \in Flights : Presents(f, t) /\ Brings(f)

PresentedAgainForACause ==
  \A f, g \in Flights : \A t \in Tokens : Presents(f, t) /\ Presents(g, t) => f = g \/ Cause(tokens[t].device)

DoneIsForgotten == \A f \in Flights : \A t \in Tokens : Presents(f, t) /\ flights[f].at = "done" => local.token # t

BroughtOnce == \A f, g \in Flights : Brings(f) /\ Brings(g) /\ flights[f].reply = flights[g].reply => f = g

PendingIsUnknown ==
  \A f \in Flights : Brings(f) /\ flights[f].at = "answered" =>
    local.token # flights[f].reply /\ \A g \in Flights : ~Presents(g, flights[f].reply)

ReuseHasACause == \A d \in Devices : devices[d].status = "REUSE" => Cause(d)

TheftInv ==
  /\ TypeInv
  /\ RotatedWasPresented
  /\ PresentedAgainForACause
  /\ DoneIsForgotten
  /\ BroughtOnce
  /\ PendingIsUnknown
  /\ ReuseHasACause

(* Flights keep what they carry, lost ones stay lost, and only those of    *)
(* the living service worker get done.                                     *)
Carried(old, new) ==
  /\ new.kind = old.kind /\ new.device = old.device /\ new.token = old.token /\ new.life = old.life
  /\ old.reply # 0 => new.reply = old.reply
  /\ old.at = "lost" => new.at = "lost"
  /\ new.at = "done" => old.at = "done" \/ (old.at = "answered" /\ old.life = life)

FlightsStay ==
  /\ Flights \subseteq Flights' /\ life' >= life
  /\ \A f \in Flights : Carried(flights[f], flights'[f])

LEMMA CauseStays ==
  ASSUME TypeInv, TypeInv', FlightsStay, NEW d, Cause(d)
  PROVE  Cause(d)'
<1>1. PICK f \in Flights : flights[f].kind = "refresh" /\ flights[f].device = d /\ Unanswered(f)
  BY DEF Cause
<1>2. /\ f \in Flights' /\ Carried(flights[f], flights'[f]) /\ life' >= life
      /\ flights[f].life \in Nat /\ life \in Nat /\ life' \in Nat
  BY Sequences, Bounds DEF FlightsStay, TypeInv, TokensTypeOK, Flight
<1>3. flights'[f].kind = "refresh" /\ flights'[f].device = d
  BY <1>1, <1>2 DEF Carried
<1>4. Unanswered(f)'
  BY <1>1, <1>2 DEF Unanswered, Carried
<1>5. QED
  BY <1>2, <1>3, <1>4 DEF Cause

(* Steps that bring no token, present none and rotate none, and store none *)
(* but the old or nothing.                                                 *)
LEMMA QuietTheft ==
  ASSUME TheftInv, TypeInv', FlightsStay, Flights' = Flights, UNCHANGED tokens,
         local' = local \/ local'.token = 0,
         \A f \in Flights : /\ flights[f].kind \in {"pair", "refresh"} => flights'[f].reply = flights[f].reply
                            /\ flights'[f].at = "answered" /\ Brings(f) => flights[f].at = "answered"
                            /\ flights'[f].at = "done" /\ flights[f].kind = "refresh" => flights[f].at = "done",
         \A d \in Devices' : devices'[d].status = "REUSE" => d \in Devices /\ (devices[d].status = "REUSE" \/ Cause(d))
  PROVE  TheftInv'
<1>1. \A f \in Flights : /\ \A t : Presents(f, t)' <=> Presents(f, t)
                         /\ Brings(f)' <=> Brings(f)
                         /\ Brings(f) => flights'[f].reply = flights[f].reply
  BY DEF FlightsStay, Carried, Presents, Brings
<1>2. Tokens' = Tokens /\ \A t \in Tokens : t # 0
  BY DEF Tokens
<1>3. \A d : Cause(d) => Cause(d)'
  BY CauseStays DEF TheftInv
<1>4. RotatedWasPresented' /\ PresentedAgainForACause'
  BY <1>1, <1>2, <1>3 DEF TheftInv, RotatedWasPresented, PresentedAgainForACause
<1>5. DoneIsForgotten'
  BY <1>1, <1>2 DEF TheftInv, DoneIsForgotten, Presents
<1>6. BroughtOnce'
  BY <1>1 DEF TheftInv, BroughtOnce
<1>7. PendingIsUnknown'
  BY <1>1 DEF TheftInv, PendingIsUnknown, Brings
<1>8. ReuseHasACause'
  BY <1>3 DEF TheftInv, ReuseHasACause
<1>9. QED
  BY <1>4, <1>5, <1>6, <1>7, <1>8 DEF TheftInv

(* How a flight that moves, or is answered, carries on.                    *)
LEMMA MovesCarries ==
  ASSUME TypeInv, NEW f \in Flights, NEW to \in Ats, Moves(f, to), life' >= life,
         flights[f].at # "lost", to = "done" => flights[f].at = "answered" /\ flights[f].life = life
  PROVE  /\ FlightsStay /\ Flights' = Flights
         /\ \A g \in Flights \ {f} : flights'[g] = flights[g]
         /\ flights'[f].at = to /\ flights'[f].reply = flights[f].reply
<1>1. /\ Len(flights') = Len(flights) /\ flights'[f] = [flights[f] EXCEPT !.at = to]
      /\ \A g \in Flights \ {f} : flights'[g] = flights[g]
      /\ flights[f] \in Flight
  BY MovesFlight, Sequences DEF TypeInv
<1>2. /\ flights'[f].kind = flights[f].kind /\ flights'[f].device = flights[f].device
      /\ flights'[f].token = flights[f].token /\ flights'[f].life = flights[f].life
      /\ flights'[f].at = to /\ flights'[f].reply = flights[f].reply
  BY <1>1 DEF Flight
<1>3. \A g \in Flights : Carried(flights[g], flights'[g])
  BY <1>1, <1>2 DEF Carried
<1>4. QED
  BY <1>1, <1>2, <1>3 DEF FlightsStay, Flights

LEMMA AnswersCarries ==
  ASSUME TypeInv, NEW f \in Flights, NEW reply \in Nat, Answers(f, reply), UNCHANGED life,
         flights[f].at \in {"sent", "read"}
  PROVE  /\ FlightsStay /\ Flights' = Flights
         /\ \A g \in Flights \ {f} : flights'[g] = flights[g]
         /\ flights'[f].at = "answered" /\ flights'[f].reply = reply /\ flights[f].reply = 0
<1>1. /\ Len(flights') = Len(flights) /\ flights'[f] = [flights[f] EXCEPT !.at = "answered", !.reply = reply]
      /\ \A g \in Flights \ {f} : flights'[g] = flights[g]
      /\ flights[f] \in Flight
  BY AnswersFlight, Sequences DEF TypeInv
<1>2. /\ flights'[f].kind = flights[f].kind /\ flights'[f].device = flights[f].device
      /\ flights'[f].token = flights[f].token /\ flights'[f].life = flights[f].life
      /\ flights'[f].at = "answered" /\ flights'[f].reply = reply
  BY <1>1 DEF Flight
<1>3. flights[f].reply = 0 /\ life \in Nat
  BY Bounds DEF TypeInv, TokensTypeOK, WellFormed
<1>4. \A g \in Flights : Carried(flights[g], flights'[g])
  BY <1>1, <1>2, <1>3 DEF Carried
<1>5. QED
  BY <1>1, <1>2, <1>3, <1>4 DEF FlightsStay, Flights

LEMMA QuietMoves ==
  ASSUME TheftInv, TypeInv', NEW f \in Flights, NEW to \in {"sent", "read", "lost"}, Moves(f, to),
         flights[f].at # "lost", UNCHANGED <<tokens, devices, life>>, local' = local \/ local'.token = 0
  PROVE  TheftInv'
<1>1. TypeInv /\ to \in Ats /\ life' >= life
  BY Bounds DEF TheftInv, TypeInv, TokensTypeOK, Ats
<1>2. /\ FlightsStay /\ Flights' = Flights
      /\ \A g \in Flights \ {f} : flights'[g] = flights[g]
      /\ flights'[f].at = to /\ flights'[f].reply = flights[f].reply
  BY <1>1, MovesCarries
<1>3. \A g \in Flights : /\ flights[g].kind \in {"pair", "refresh"} => flights'[g].reply = flights[g].reply
                         /\ flights'[g].at = "answered" /\ Brings(g) => flights[g].at = "answered"
                         /\ flights'[g].at = "done" /\ flights[g].kind = "refresh" => flights[g].at = "done"
  BY <1>2
<1>4. \A d \in Devices' : devices'[d].status = "REUSE" => d \in Devices /\ (devices[d].status = "REUSE" \/ Cause(d))
  BY DEF Devices
<1>5. QED
  BY <1>2, <1>3, <1>4, QuietTheft

LEMMA QuietAnswers ==
  ASSUME TheftInv, TypeInv', NEW f \in Flights, NEW reply \in Nat, Answers(f, reply),
         flights[f].at \in {"sent", "read"}, flights[f].kind \in {"pair", "refresh"} => reply = 0,
         UNCHANGED <<tokens, life, local>>,
         \A d \in Devices' : devices'[d].status = "REUSE" => d \in Devices /\ (devices[d].status = "REUSE" \/ Cause(d))
  PROVE  TheftInv'
<1>1. /\ FlightsStay /\ Flights' = Flights
      /\ \A g \in Flights \ {f} : flights'[g] = flights[g]
      /\ flights'[f].at = "answered" /\ flights'[f].reply = reply /\ flights[f].reply = 0
  BY AnswersCarries DEF TheftInv
<1>2. \A g \in Flights : /\ flights[g].kind \in {"pair", "refresh"} => flights'[g].reply = flights[g].reply
                         /\ flights'[g].at = "answered" /\ Brings(g) => flights[g].at = "answered"
                         /\ flights'[g].at = "done" /\ flights[g].kind = "refresh" => flights[g].at = "done"
  BY <1>1 DEF Brings
<1>3. QED
  BY <1>1, <1>2, QuietTheft

(* A flight without an answer presents a rotated token: another presented  *)
(* it first.                                                               *)
LEMMA RotatedHasACause ==
  ASSUME TheftInv, NEW f \in Flights, flights[f].kind = "refresh", flights[f].at = "sent",
         tokens[flights[f].token].rotated
  PROVE  Cause(flights[f].device)
<1>1. /\ flights[f].token \in Tokens /\ tokens[flights[f].token].device = flights[f].device
      /\ flights[f].reply = 0
  BY DEF TheftInv, TypeInv, WellFormed
<1>2. PICK g \in Flights : Presents(g, flights[f].token) /\ Brings(g)
  BY <1>1 DEF TheftInv, RotatedWasPresented
<1>3. g # f /\ Presents(f, flights[f].token)
  BY <1>1, <1>2 DEF Brings, Presents
<1>4. QED
  BY <1>1, <1>2, <1>3 DEF TheftInv, PresentedAgainForACause

LEMMA SteadyTheft ==
  ASSUME TheftInv, TypeInv', NEW f \in Flights,
         \/ PairReads(f) \/ RefreshReads(f) \/ CallServed(f) \/ RevokeServed(f)
  PROVE  TheftInv'
<1>1. /\ flights[f].at = "sent" /\ UNCHANGED <<tokens, life, local>> /\ TokensTypeOK
      /\ flights[f].kind # "pair" => flights[f].device \in Devices
      /\ flights[f].token \in Nat /\ 0 \in Nat
  BY Sequences DEF PairReads, RefreshReads, CallServed, RevokeServed, At, server, client, TheftInv, TypeInv,
                   WellFormed, Flight
<1>2. \/ Moves(f, "read") /\ UNCHANGED devices
      \/ \E reply \in {0, flights[f].token} : Answers(f, reply) /\ (flights[f].kind \in {"pair", "refresh"} => reply = 0)
  BY DEF PairReads, RefreshReads, CallServed, RevokeServed, At, server
<1>3. \/ UNCHANGED devices
      \/ flights[f].device \in Devices /\ RevokeRows(flights[f].device, "REVOKED")
      \/ /\ flights[f].device \in Devices /\ RevokeRows(flights[f].device, "REUSE")
         /\ Cause(flights[f].device)
  BY <1>1, RotatedHasACause DEF PairReads, RefreshReads, CallServed, RevokeServed, At, server
<1>4. \A d \in Devices' : devices'[d].status = "REUSE" => d \in Devices /\ (devices[d].status = "REUSE" \/ Cause(d))
  <2>1. CASE UNCHANGED devices
    BY <2>1 DEF Devices
  <2>2. CASE flights[f].device \in Devices /\ RevokeRows(flights[f].device, "REVOKED")
    <3>1. Len(devices') = Len(devices) /\ \A d \in Devices : devices'[d].status \in {"REVOKED", devices[d].status}
      BY <1>1, <2>2, RevokeDevices
    <3>2. QED
      BY <3>1 DEF Devices
  <2>3. CASE /\ flights[f].device \in Devices /\ RevokeRows(flights[f].device, "REUSE")
             /\ Cause(flights[f].device)
    <3>1. /\ Len(devices') = Len(devices)
          /\ \A d \in Devices : d = flights[f].device \/ devices'[d].status = devices[d].status
      BY <1>1, <2>3, RevokeDevices
    <3>2. QED
      BY <2>3, <3>1 DEF Devices
  <2>4. QED
    BY <1>3, <2>1, <2>2, <2>3
<1>5. QED
  BY <1>1, <1>2, <1>4, QuietMoves, QuietAnswers

LEMMA LoseTheft ==
  ASSUME TheftInv, TypeInv', NEW f \in Flights, Lose(f)
  PROVE  TheftInv'
BY QuietMoves DEF Lose, Open, server, client, Wipe, Nothing

(* A step that leaves flights, tokens and the client alone.                *)
LEMMA IdleTheft ==
  ASSUME TheftInv, TypeInv', UNCHANGED <<flights, tokens, local>>, life' >= life,
         Len(devices') = Len(devices),
         \A d \in Devices : devices'[d].status = "REUSE" => devices[d].status = "REUSE"
  PROVE  TheftInv'
<1>1. FlightsStay /\ Flights' = Flights
  BY DEF FlightsStay, Carried, Flights
<1>2. \A d \in Devices' : devices'[d].status = "REUSE" => d \in Devices /\ (devices[d].status = "REUSE" \/ Cause(d))
  BY DEF Devices
<1>3. \A g \in Flights : /\ flights[g].kind \in {"pair", "refresh"} => flights'[g].reply = flights[g].reply
                         /\ flights'[g].at = "answered" /\ Brings(g) => flights[g].at = "answered"
                         /\ flights'[g].at = "done" /\ flights[g].kind = "refresh" => flights[g].at = "done"
  OBVIOUS
<1>4. QED
  BY <1>1, <1>2, <1>3, QuietTheft

LEMMA UserAndDeathTheft ==
  ASSUME TheftInv, TypeInv', Die \/ UNCHANGED vars \/ \E d \in Devices : UserRevokes(d)
  PROVE  TheftInv'
<1>1. TokensTypeOK /\ life \in Nat
  BY Bounds DEF TheftInv, TypeInv, TokensTypeOK
<1>2. CASE Die \/ UNCHANGED vars
  BY <1>1, <1>2, IdleTheft DEF Die, vars, server, client
<1>3. ASSUME NEW d \in Devices, UserRevokes(d)
      PROVE  TheftInv'
  <2>1. Len(devices') = Len(devices) /\ \A e \in Devices : devices'[e].status \in {"REVOKED", devices[e].status}
    BY <1>1, <1>3, RevokeDevices DEF UserRevokes
  <2>2. UNCHANGED <<flights, tokens, local>> /\ life' >= life
    BY <1>1, <1>3 DEF UserRevokes, client
  <2>3. QED
    BY <2>1, <2>2, IdleTheft
<1>4. QED
  BY <1>2, <1>3

(* A new flight presents the stored token, which another one presents only *)
(* if it went without an answer.                                           *)
LEMMA SendTheft ==
  ASSUME TheftInv, TypeInv', NEW kind \in Kind, NEW code \in Code \cup {NoCode}, NEW device \in Nat, NEW token \in Nat,
         Send(kind, code, device, token),
         kind = "refresh" => token = local.token /\ ~Inflight
  PROVE  TheftInv'
<1>1. PICK n : n = Len(flights) + 1
  OBVIOUS
<1>2. /\ TypeInv /\ UNCHANGED <<devices, tokens, local, life>> /\ DOMAIN flights = Flights /\ life \in Nat
      /\ Flights' = Flights \cup {n} /\ n \notin Flights /\ \A g \in Flights : flights'[g] = flights[g]
      /\ flights'[n] = [kind |-> kind, code |-> code, device |-> device, token |-> token,
                        life |-> life, at |-> "sent", reply |-> 0]
  <2>1. /\ Len(flights') = Len(flights) + 1 /\ \A g \in Flights : flights'[g] = flights[g]
        /\ flights'[Len(flights) + 1] = [kind |-> kind, code |-> code, device |-> device, token |-> token,
                                         life |-> life, at |-> "sent", reply |-> 0]
    BY SendFlight DEF TheftInv, TypeInv
  <2>2. Len(flights) \in Nat /\ DOMAIN flights = Flights
    BY Sequences DEF TheftInv, TypeInv
  <2>3. Flights' = Flights \cup {n} /\ n \notin Flights
    BY <1>1, <2>1, <2>2 DEF Flights
  <2>4. life \in Nat
    BY Bounds DEF TheftInv, TypeInv, TokensTypeOK
  <2>5. QED
    BY <1>1, <2>1, <2>2, <2>3, <2>4 DEF Send, server, client, TheftInv
<1>3. FlightsStay
  BY <1>2 DEF FlightsStay, Carried
<1>4. \A d : Cause(d) => Cause(d)'
  BY <1>2, <1>3, CauseStays
<1>5. /\ \A g \in Flights : /\ \A t : Presents(g, t)' <=> Presents(g, t)
                            /\ Brings(g)' <=> Brings(g)
      /\ \A t : Presents(n, t)' <=> kind = "refresh" /\ token = t
      /\ ~Brings(n)' /\ flights'[n].at = "sent"
  BY <1>2 DEF Presents, Brings
<1>6. ASSUME NEW g \in Flights, kind = "refresh", Presents(g, token), token \in Tokens
      PROVE  Cause(tokens[token].device)
  <2>1. flights[g].at # "done"
    BY <1>6 DEF TheftInv, DoneIsForgotten
  <2>2. flights[g].life # life \/ flights[g].at \notin {"sent", "read", "answered"}
    BY <1>2, <1>6 DEF Inflight, Open, Presents
  <2>3. /\ flights[g].at \in Ats /\ flights[g].life \in Nat /\ flights[g].life <= life
        /\ flights[g].device = tokens[token].device /\ flights[g].kind = "refresh"
    BY <1>2, <1>6, Sequences DEF TypeInv, WellFormed, Flight, Ats, Presents
  <2>4. Unanswered(g)
    BY <1>2, <2>1, <2>2, <2>3 DEF Unanswered, Ats
  <2>5. QED
    BY <2>3, <2>4 DEF Cause
<1>7. RotatedWasPresented'
  BY <1>2, <1>5 DEF TheftInv, RotatedWasPresented, Tokens
<1>8. PresentedAgainForACause'
  <2>1. Tokens' = Tokens
    BY <1>2 DEF Tokens
  <2>2. \A f, g \in Flights : \A t \in Tokens : Presents(f, t) /\ Presents(g, t) => f = g \/ Cause(tokens[t].device)
    BY DEF TheftInv, PresentedAgainForACause
  <2>3. \A g \in Flights : \A t \in Tokens : kind = "refresh" /\ token = t /\ Presents(g, t) => Cause(tokens[t].device)
    BY <1>6
  <2>4. QED
    BY <1>2, <1>4, <1>5, <2>1, <2>2, <2>3 DEF PresentedAgainForACause
<1>9. DoneIsForgotten'
  BY <1>2, <1>5 DEF TheftInv, DoneIsForgotten, Tokens
<1>10. BroughtOnce'
  BY <1>2, <1>5 DEF TheftInv, BroughtOnce
<1>11. PendingIsUnknown'
  BY <1>2, <1>5 DEF TheftInv, PendingIsUnknown
<1>12. ReuseHasACause'
  BY <1>2, <1>4 DEF TheftInv, ReuseHasACause, Devices
<1>13. QED
  BY <1>7, <1>8, <1>9, <1>10, <1>11, <1>12 DEF TheftInv

LEMMA SendingTheft ==
  ASSUME TheftInv, TypeInv', (\E c \in Code : Pair(c)) \/ Refresh \/ Call \/ SignOut
  PROVE  TheftInv'
<1>1. /\ {"pair", "refresh", "call", "revoke"} \subseteq Kind /\ 0 \in Nat
      /\ local.device \in Nat /\ local.token \in Nat /\ session \in Nat
  BY Sequences DEF TheftInv, TypeInv, TokensTypeOK, Kind
<1>2. session # 0 => tokens[session].device \in Nat
  <2>1. /\ TokensTypeOK /\ \A t \in Tokens : tokens[t] \in [device : Devices, rotated : BOOLEAN]
        /\ Len(tokens) \in Nat /\ Len(devices) \in Nat
    BY Sequences DEF TheftInv, TypeInv
  <2>2. session \in 0 .. Len(tokens)
    BY <2>1 DEF TokensTypeOK
  <2>3. session # 0 => session \in Tokens
    BY <2>1, <2>2 DEF Tokens
  <2>4. \A t \in Tokens : tokens[t].device \in Devices
    BY <2>1
  <2>5. Devices \subseteq Nat
    BY <2>1 DEF Devices
  <2>6. QED
    BY <2>3, <2>4, <2>5
<1>3. ASSUME NEW c \in Code, Pair(c)
      PROVE  TheftInv'
  BY <1>1, <1>3, SendTheft DEF Pair
<1>4. CASE Refresh
  <2>1. /\ ~Inflight /\ Send("refresh", NoCode, local.device, local.token)
        /\ "refresh" \in Kind
    BY <1>1, <1>4 DEF Refresh
  <2>2. QED
    BY <1>1, <2>1, SendTheft
<1>5. CASE Call \/ SignOut
  BY <1>1, <1>2, <1>5, SendTheft DEF Call, SignOut
<1>6. QED
  BY <1>3, <1>4, <1>5

(* A flight brings a token that nobody has presented or stored.            *)
LEMMA CreatesTheft ==
  ASSUME TheftInv, TypeInv', NEW f \in Flights, Answers(f, Len(tokens) + 1),
         flights[f].at \in {"sent", "read"}, flights[f].kind \in {"pair", "refresh"},
         UNCHANGED <<local, life>>, Len(tokens') = Len(tokens) + 1, ~tokens'[Len(tokens) + 1].rotated,
         \A t \in Tokens : /\ tokens'[t].device = tokens[t].device
                           /\ tokens'[t].rotated => tokens[t].rotated \/ Presents(f, t),
         \A d \in Devices' : devices'[d].status = "REUSE" => d \in Devices /\ devices[d].status = "REUSE"
  PROVE  TheftInv'
<1>1. PICK new \in Nat : new = Len(tokens) + 1 /\ Len(tokens) \in Nat
  BY Sequences DEF TheftInv, TypeInv
<1>2. /\ FlightsStay /\ Flights' = Flights /\ TypeInv
      /\ \A g \in Flights \ {f} : flights'[g] = flights[g]
      /\ flights'[f].at = "answered" /\ flights'[f].reply = new /\ flights[f].reply = 0
  BY <1>1, AnswersCarries DEF TheftInv
<1>3. Tokens' = Tokens \cup {new} /\ new \notin Tokens /\ new # 0 /\ ~tokens'[new].rotated
  BY <1>1 DEF Tokens
<1>4. /\ \A g \in Flights : \A t : Presents(g, t)' <=> Presents(g, t)
      /\ \A g \in Flights \ {f} : Brings(g)' <=> Brings(g)
      /\ Brings(f)' /\ ~Brings(f)
  BY <1>2, <1>3 DEF FlightsStay, Carried, Presents, Brings
<1>5. \A g \in Flights : ~Presents(g, new) /\ flights[g].reply # new
  BY <1>2, <1>3 DEF TypeInv, WellFormed, Presents
<1>6. local.token # new
  BY <1>2, <1>3, Sequences DEF TypeInv, TokensTypeOK, Tokens
<1>7. \A d : Cause(d) => Cause(d)'
  BY <1>2, CauseStays
<1>8. RotatedWasPresented'
  BY <1>2, <1>3, <1>4 DEF TheftInv, RotatedWasPresented
<1>9. PresentedAgainForACause'
  BY <1>2, <1>3, <1>4, <1>5, <1>7 DEF TheftInv, PresentedAgainForACause
<1>10. DoneIsForgotten'
  BY <1>2, <1>3, <1>4, <1>5 DEF TheftInv, DoneIsForgotten
<1>11. BroughtOnce'
  BY <1>2, <1>4, <1>5 DEF TheftInv, BroughtOnce
<1>12. PendingIsUnknown'
  BY <1>2, <1>4, <1>5, <1>6 DEF TheftInv, PendingIsUnknown
<1>13. ReuseHasACause'
  BY <1>7 DEF TheftInv, ReuseHasACause
<1>14. QED
  BY <1>8, <1>9, <1>10, <1>11, <1>12, <1>13 DEF TheftInv

LEMMA PairWritesTheft ==
  ASSUME TheftInv, TypeInv', NEW f \in Flights, PairWrites(f)
  PROVE  TheftInv'
<1>1. /\ flights[f].kind = "pair" /\ flights[f].at = "read" /\ flights[f].code \in Code /\ TokensTypeOK
      /\ UNCHANGED <<local, life>>
  BY DEF PairWrites, At, client, TheftInv, TypeInv, WellFormed
<1>2. CASE Answers(f, 0) /\ UNCHANGED server
  <2>1. UNCHANGED tokens /\ \A d \in Devices' : devices'[d].status = "REUSE" => d \in Devices /\ devices[d].status = "REUSE"
    BY <1>2 DEF server, Devices
  <2>2. QED
    BY <1>1, <1>2, <2>1, QuietAnswers
<1>3. CASE /\ devices' = Append(devices, [code |-> flights[f].code, status |-> "LIVE"])
           /\ tokens' = Append(tokens, [device |-> Len(devices) + 1, rotated |-> FALSE])
           /\ Answers(f, Len(tokens) + 1)
  <2>1. /\ Len(devices') = Len(devices) + 1 /\ \A d \in Devices : devices'[d] = devices[d]
        /\ devices'[Len(devices) + 1] = [code |-> flights[f].code, status |-> "LIVE"]
        /\ Len(tokens') = Len(tokens) + 1 /\ \A t \in Tokens : tokens'[t] = tokens[t]
        /\ ~tokens'[Len(tokens) + 1].rotated
    BY <1>1, <1>3, NewDevice
  <2>2. devices'[Len(devices) + 1].status # "REUSE" /\ Len(devices) \in Nat
    BY <1>1, <2>1, Sequences
  <2>3. \A d \in Devices' : devices'[d].status = "REUSE" => d \in Devices /\ devices[d].status = "REUSE"
    BY <2>1, <2>2 DEF Devices
  <2>4. QED
    BY <1>1, <1>3, <2>1, <2>3, CreatesTheft
<1>4. QED
  BY <1>2, <1>3 DEF PairWrites

LEMMA RefreshWritesTheft ==
  ASSUME TheftInv, TypeInv', NEW f \in Flights, RefreshWrites(f)
  PROVE  TheftInv'
<1>1. PICK t \in Tokens, d \in Devices : t = flights[f].token /\ d = flights[f].device
  BY DEF RefreshWrites, At, TheftInv, TypeInv, WellFormed
<1>2. /\ flights[f].kind = "refresh" /\ flights[f].at = "read" /\ TokensTypeOK
      /\ UNCHANGED <<devices, local, life>>
  BY DEF RefreshWrites, At, client, TheftInv, TypeInv
<1>3. CASE Moves(f, "sent") /\ UNCHANGED tokens
  BY <1>2, <1>3, QuietMoves
<1>4. CASE /\ tokens' = Append([tokens EXCEPT ![t].rotated = TRUE], [device |-> d, rotated |-> FALSE])
           /\ Answers(f, Len(tokens) + 1)
  <2>1. /\ Len(tokens') = Len(tokens) + 1 /\ ~tokens'[Len(tokens) + 1].rotated
        /\ \A u \in Tokens : /\ tokens'[u].device = tokens[u].device
                             /\ tokens'[u].rotated <=> tokens[u].rotated \/ u = t
    BY <1>2, <1>4, NewToken
  <2>2. Presents(f, t)
    BY <1>1, <1>2 DEF Presents
  <2>3. \A e \in Devices' : devices'[e].status = "REUSE" => e \in Devices /\ devices[e].status = "REUSE"
    BY <1>2 DEF Devices
  <2>4. QED
    BY <1>2, <1>4, <2>1, <2>2, <2>3, CreatesTheft
<1>5. QED
  BY <1>1, <1>3, <1>4 DEF RefreshWrites

(* An answer that arrives replaces the stored token, or ends the pairing.  *)
LEMMA AnsweredTheft ==
  ASSUME TheftInv, TypeInv', NEW f \in Flights, Answered(f)
  PROVE  TheftInv'
<1>1. /\ TypeInv /\ Moves(f, "done") /\ flights[f].at = "answered" /\ flights[f].life = life
      /\ UNCHANGED <<devices, tokens, life>> /\ life \in Nat
  BY Bounds DEF Answered, Open, server, TheftInv, TypeInv, TokensTypeOK
<1>2. /\ FlightsStay /\ Flights' = Flights
      /\ \A g \in Flights \ {f} : flights'[g] = flights[g]
      /\ flights'[f].at = "done" /\ flights'[f].reply = flights[f].reply
  BY <1>1, MovesCarries DEF Ats
<1>3. \A g \in Flights : /\ \A t : Presents(g, t)' <=> Presents(g, t)
                         /\ Brings(g)' <=> Brings(g)
                         /\ flights'[g].reply = flights[g].reply
  BY <1>2 DEF FlightsStay, Carried, Presents, Brings
<1>4. \/ local' = local /\ flights[f].kind # "refresh"
      \/ local'.token = 0
      \/ Brings(f) /\ local'.token = flights[f].reply
  BY <1>1, AnsweredClient DEF client, Nothing, Brings
<1>5. Tokens' = Tokens /\ Devices' = Devices /\ \A t \in Tokens : t # 0
  BY <1>1 DEF Tokens, Devices
<1>6. \A d : Cause(d) => Cause(d)'
  BY <1>1, <1>2, CauseStays
<1>7. RotatedWasPresented' /\ PresentedAgainForACause'
  BY <1>1, <1>2, <1>3, <1>5, <1>6 DEF TheftInv, RotatedWasPresented, PresentedAgainForACause
<1>8. DoneIsForgotten'
  <2>1. ASSUME NEW g \in Flights, NEW t \in Tokens, Presents(g, t), flights'[g].at = "done"
        PROVE  local'.token # t
    <3>1. CASE local' = local /\ flights[f].kind # "refresh"
      BY <1>2, <2>1, <3>1 DEF TheftInv, DoneIsForgotten, Presents
    <3>2. CASE local'.token = 0
      BY <1>5, <3>2
    <3>3. CASE Brings(f) /\ local'.token = flights[f].reply
      BY <1>1, <2>1, <3>3 DEF TheftInv, PendingIsUnknown
    <3>4. QED
      BY <1>4, <3>1, <3>2, <3>3
  <2>2. QED
    BY <1>2, <1>3, <1>5, <2>1 DEF DoneIsForgotten
<1>9. BroughtOnce'
  BY <1>2, <1>3 DEF TheftInv, BroughtOnce
<1>10. PendingIsUnknown'
  <2>1. ASSUME NEW g \in Flights, Brings(g), flights'[g].at = "answered"
        PROVE  local'.token # flights[g].reply /\ \A h \in Flights : ~Presents(h, flights[g].reply)
    <3>1. g # f /\ flights[g].at = "answered"
      BY <1>2, <2>1
    <3>2. Brings(f) => flights[f].reply # flights[g].reply
      BY <2>1, <3>1 DEF TheftInv, BroughtOnce
    <3>3. local.token # flights[g].reply /\ (\A h \in Flights : ~Presents(h, flights[g].reply)) /\ flights[g].reply # 0
      BY <2>1, <3>1 DEF TheftInv, PendingIsUnknown, Brings
    <3>4. QED
      BY <1>4, <3>2, <3>3
  <2>2. QED
    BY <1>2, <1>3, <2>1 DEF PendingIsUnknown
<1>11. ReuseHasACause'
  BY <1>1, <1>5, <1>6 DEF TheftInv, ReuseHasACause
<1>12. QED
  BY <1>7, <1>8, <1>9, <1>10, <1>11 DEF TheftInv

-----------------------------------------------------------------------------

LEMMA TheftInit == Init => TheftInv
<1> SUFFICES ASSUME Init
             PROVE  TheftInv
  OBVIOUS
<1>1. Flights = {} /\ Tokens = {} /\ Devices = {}
  BY DEF Init, Flights, Tokens, Devices
<1>2. QED
  BY <1>1, InitType
     DEF TheftInv, RotatedWasPresented, PresentedAgainForACause, DoneIsForgotten, BroughtOnce, PendingIsUnknown,
         ReuseHasACause

LEMMA TheftStep == TheftInv /\ [Next]_vars => TheftInv'
<1> SUFFICES ASSUME TheftInv, [Next]_vars
             PROVE  TheftInv'
  OBVIOUS
<1>1. TypeInv' /\ DOMAIN flights = Flights /\ DOMAIN devices = Devices
  BY TypeStep, Sequences DEF TheftInv, TypeInv
<1>2. QED
  BY <1>1, SendingTheft, SteadyTheft, PairWritesTheft, RefreshWritesTheft, AnsweredTheft, LoseTheft, UserAndDeathTheft
     DEF Next

(* A device that nobody copied is revoked as stolen only after the answer  *)
(* to one of its refreshes was lost, however many requests, signings out   *)
(* and deaths of the service worker there are.                             *)
THEOREM TheftHasACauseAlways == Spec => []TheftHasACause
<1>1. ASSUME TheftInv
      PROVE  TheftHasACause
  <2>1. DOMAIN flights = Flights /\ DOMAIN devices = Devices
    BY <1>1, Sequences DEF TheftInv, TypeInv
  <2>2. QED
    BY <1>1, <2>1 DEF TheftInv, ReuseHasACause, TheftHasACause, Cause, Unanswered
<1>2. QED
  BY <1>1, TheftInit, TheftStep, PTL DEF Spec

=============================================================================
