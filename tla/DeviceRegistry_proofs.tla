------------------------ MODULE DeviceRegistry_proofs ------------------------
(***************************************************************************)
(* Proofs of the safety properties of DeviceRegistry, for any number of    *)
(* sessions, plugs and addresses, in three layers:                         *)
(*                                                                         *)
(*   Shape     a device is in one container, under its own address, and    *)
(*             where a session is says what it wants and has;              *)
(*   Holding   an entry of using_devices has a session that answers for it *)
(*             (NobodyElseInUse);                                          *)
(*   Unreused  what holds as long as no address was given twice.           *)
(***************************************************************************)
EXTENDS DeviceRegistry, FiniteSetTheorems, SequenceTheorems, TLAPS

-----------------------------------------------------------------------------
(* Sequences without duplicates.                                           *)

Elements(q) == {q[i] : i \in DOMAIN q}
Distinct(q) == \A i, j \in DOMAIN q : q[i] = q[j] => i = j

LEMMA RemoveAtShifts ==
  ASSUME NEW S, NEW q \in Seq(S), NEW i \in DOMAIN q
  PROVE  /\ RemoveAt(q, i) \in Seq(S)
         /\ Len(RemoveAt(q, i)) = Len(q) - 1
         /\ \A j \in 1 .. Len(q) - 1 :
              RemoveAt(q, i)[j] = IF j < i THEN q[j] ELSE q[j + 1]
<1>. DEFINE before == SubSeq(q, 1, i - 1)
            after == SubSeq(q, i + 1, Len(q))
<1>1. i \in 1 .. Len(q) /\ Len(q) \in Nat /\ \A j \in 1 .. Len(q) : q[j] \in S
  BY LenProperties
<1>2. /\ before \in Seq(S) /\ Len(before) = i - 1
      /\ \A j \in 1 .. i - 1 : before[j] = q[j]
  BY <1>1, SubSeqProperties
<1>3. /\ after \in Seq(S) /\ Len(after) = Len(q) - i
      /\ \A j \in 1 .. Len(q) - i : after[j] = q[i + j]
  BY <1>1, SubSeqProperties
<1>4. RemoveAt(q, i) = before \o after
  BY DEF RemoveAt
<1>. HIDE DEF before, after
<1>5. /\ before \o after \in Seq(S)
      /\ Len(before \o after) = Len(before) + Len(after)
      /\ \A j \in 1 .. Len(before) + Len(after) :
           (before \o after)[j] = IF j <= Len(before) THEN before[j] ELSE after[j - Len(before)]
  BY <1>2, <1>3, ConcatProperties
<1>6. ASSUME NEW j \in 1 .. Len(q) - 1
      PROVE  (before \o after)[j] = IF j < i THEN q[j] ELSE q[j + 1]
  <2>0. j \in 1 .. Len(before) + Len(after) /\ (j <= Len(before) <=> j < i)
    BY <1>1, <1>2, <1>3
  <2>1. CASE j < i
    BY <1>1, <1>2, <1>5, <2>0, <2>1
  <2>2. CASE ~(j < i)
    <3>. DEFINE k == j - Len(before)
    <3>1. k \in 1 .. Len(q) - i /\ i + k = j + 1
      BY <1>1, <1>2, <2>2
    <3>2. (before \o after)[j] = after[k]
      BY <1>5, <2>0, <2>2
    <3>. HIDE DEF k
    <3>3. after[k] = q[i + k]
      BY <1>3, <3>1
    <3>. QED BY <2>2, <3>1, <3>2, <3>3
  <2>. QED BY <2>1, <2>2
<1>7. Len(before) + Len(after) = Len(q) - 1
  BY <1>1, <1>2, <1>3
<1>. QED BY <1>4, <1>5, <1>6, <1>7

\* Taking an element out keeps the others, and keeps them apart.
LEMMA RemoveAtKeeps ==
  ASSUME NEW S, NEW q \in Seq(S), NEW i \in DOMAIN q, Distinct(q)
  PROVE  Distinct(RemoveAt(q, i)) /\ Elements(RemoveAt(q, i)) = Elements(q) \ {q[i]}
<1>. DEFINE r == RemoveAt(q, i)
<1>1. /\ i \in 1 .. Len(q) /\ DOMAIN q = 1 .. Len(q) /\ Len(q) \in Nat
      /\ r \in Seq(S) /\ Len(r) = Len(q) - 1 /\ DOMAIN r = 1 .. Len(q) - 1
      /\ \A j \in 1 .. Len(q) - 1 : r[j] = IF j < i THEN q[j] ELSE q[j + 1]
  BY LenProperties, RemoveAtShifts
<1>. HIDE DEF r
<1>2. Distinct(r)
  <2> SUFFICES ASSUME NEW j \in 1 .. Len(q) - 1, NEW k \in 1 .. Len(q) - 1, r[j] = r[k]
               PROVE  j = k
    BY <1>1 DEF Distinct
  <2>1. \A m, n \in 1 .. Len(q) : q[m] = q[n] => m = n
    BY <1>1 DEF Distinct
  <2>. DEFINE old(m) == IF m < i THEN m ELSE m + 1
  <2>2. old(j) \in 1 .. Len(q) /\ old(k) \in 1 .. Len(q) /\ q[old(j)] = q[old(k)]
    BY <1>1
  <2>3. old(j) = old(k)
    BY <2>1, <2>2
  <2>. QED BY <1>1, <2>3
<1>3. ASSUME NEW x \in Elements(r) PROVE x \in Elements(q) \ {q[i]}
  BY <1>1 DEF Elements, Distinct
<1>4. ASSUME NEW x \in Elements(q), x # q[i] PROVE x \in Elements(r)
  <2>1. PICK j \in 1 .. Len(q) : q[j] = x
    BY <1>1 DEF Elements
  <2>2. CASE j < i
    BY <1>1, <2>1, <2>2 DEF Elements
  <2>3. CASE j > i
    <3>1. j - 1 \in 1 .. Len(q) - 1 /\ r[j - 1] = x
      BY <1>1, <2>1, <2>3
    <3>. QED BY <1>1, <3>1 DEF Elements
  <2>. QED BY <1>1, <1>4, <2>1, <2>2, <2>3
<1>. QED BY <1>2, <1>3, <1>4 DEF r

LEMMA AppendAdds ==
  ASSUME NEW S, NEW q \in Seq(S), NEW e \in S, Distinct(q), e \notin Elements(q)
  PROVE  /\ Append(q, e) \in Seq(S) /\ Distinct(Append(q, e))
         /\ Elements(Append(q, e)) = Elements(q) \cup {e}
<1>. DEFINE r == Append(q, e)
<1>1. /\ DOMAIN q = 1 .. Len(q) /\ Len(q) \in Nat
      /\ r \in Seq(S) /\ DOMAIN r = 1 .. Len(q) + 1
      /\ \A j \in 1 .. Len(q) : r[j] = q[j]
      /\ r[Len(q) + 1] = e
  BY LenProperties, AppendProperties
<1>. HIDE DEF r
<1>2. Distinct(r)
  BY <1>1 DEF Distinct, Elements
<1>3. Elements(r) = Elements(q) \cup {e}
  BY <1>1 DEF Elements
<1>. QED BY <1>1, <1>2, <1>3 DEF r

-----------------------------------------------------------------------------
(* Shape.                                                                  *)

\* What the containers hold is found under the address it was given, and an address is
\* given before anything else happens to a device.
Keys ==
  /\ \A a \in Address : using[a] # None => address[using[a]] = a
  /\ \A a \in Address : hostDevices[a] # None => address[hostDevices[a]] = a
  /\ \A d \in Listed \cup plugged : address[d] # None
  /\ \A d \in Device : ~hasDevice[d] => address[d] # None

\* What the place of a session says of it.
Sessions ==
  \A s \in Session :
    /\ pc[s] \in {"checked", "replying", "transferring"} => wanted[s] \in Address
    /\ pc[s] = "transferring" => current[s] # None
    /\ current[s] # None =>
         /\ pc[s] \in {"replying", "transferring", "exiting"}
         /\ wanted[s] \in Address /\ address[current[s]] = wanted[s]
    /\ s \in threw => pc[s] \in {"exiting", "done"}

Shape == TypeOK /\ Keys /\ Sessions /\ RegisteredOnce

LEMMA NoneApart == None \notin Device /\ None \notin Address
BY RegistryAssumption DEF RegistryAssumption

\* A search ends at a device that has the address.
LEMMA FirstHasAddress ==
  ASSUME TypeOK, NEW a, NEW i \in FirstAt(a)
  PROVE  /\ i \in DOMAIN available /\ available[i] \in Device /\ available[i] \in Listed
         /\ address[available[i]] = a
<1>1. i \in DOMAIN available /\ address[available[i]] = a
  BY DEF FirstAt
<1>2. available[i] \in Device
  BY <1>1, LenProperties DEF TypeOK
<1>. QED BY <1>1, <1>2 DEF Listed

LEMMA TakingOut ==
  ASSUME TypeOK, RegisteredOnce, NEW a, NEW i \in FirstAt(a),
         available' = RemoveAt(available, i)
  PROVE  /\ available' \in Seq(Device) /\ Distinct(available')
         /\ Listed' = Listed \ {available[i]}
<1>1. i \in DOMAIN available /\ available \in Seq(Device) /\ Distinct(available)
  BY FirstHasAddress DEF TypeOK, RegisteredOnce, Distinct
<1>2. available' \in Seq(Device)
  BY <1>1, RemoveAtShifts
<1>3. Distinct(available') /\ Elements(available') = Elements(available) \ {available[i]}
  BY <1>1, RemoveAtKeeps
<1>. QED BY <1>2, <1>3 DEF Listed, Elements

LEMMA PuttingIn ==
  ASSUME TypeOK, RegisteredOnce, NEW d \in Device, d \notin Listed,
         available' = Append(available, d)
  PROVE  /\ available' \in Seq(Device) /\ Distinct(available')
         /\ Listed' = Listed \cup {d}
<1>1. available \in Seq(Device) /\ Distinct(available) /\ d \notin Elements(available)
  BY DEF TypeOK, RegisteredOnce, Distinct, Listed, Elements
<1>. QED BY <1>1, AppendAdds DEF Listed, Elements

LEMMA StayingPut ==
  ASSUME TypeOK, RegisteredOnce, available' = available
  PROVE  available' \in Seq(Device) /\ Distinct(available') /\ Listed' = Listed
BY DEF TypeOK, RegisteredOnce, Distinct, Listed

\* RegisteredOnce, said of the entries of using_devices by their keys.
Apart ==
  /\ Distinct(available)
  /\ \A a, b \in Address : using[a] = using[b] /\ using[a] # None => a = b
  /\ \A a \in Address : using[a] # None => using[a] \notin Listed

LEMMA OnceByKey == TypeOK => (RegisteredOnce <=> Apart)
<1> SUFFICES ASSUME TypeOK PROVE RegisteredOnce <=> Apart
  OBVIOUS
<1>1. None \notin Listed
  BY NoneApart, LenProperties DEF TypeOK, Listed
<1>. QED BY <1>1 DEF RegisteredOnce, Apart, Distinct, InUse

LEMMA OnceByKeyNext == TypeOK' => (RegisteredOnce' <=> Apart')
BY OnceByKey, PTL

LEMMA ShapeInit == Init => Shape
<1> SUFFICES ASSUME Init PROVE Shape
  OBVIOUS
<1>1. TypeOK
  BY EmptySeq DEF Init, TypeOK, Pc
<1>2. Listed = {} /\ InUse = {} /\ DOMAIN available = {}
  BY DEF Init, Listed, InUse
<1>3. Keys /\ Sessions /\ RegisteredOnce
  BY <1>2, NoneApart DEF Init, Keys, Sessions, RegisteredOnce
<1>. QED BY <1>1, <1>3 DEF Shape

\* The swept entries are those of gone devices, and only they leave using_devices.
LEMMA SweptIsGone == \A a \in Swept : a \in Address /\ using[a] # None /\ ~hasDevice[using[a]]
<1> SUFFICES ASSUME NEW a \in Swept
             PROVE  a \in Address /\ using[a] # None /\ ~hasDevice[using[a]]
  OBVIOUS
<1>1. a \in UsingKeys /\ Cardinality(GoneRun(a)) % 2 = 1
  BY DEF Swept
<1>2. GoneRun(a) # {}
  BY <1>1, FS_EmptySet
<1>3. PICK b \in UsingKeys : b <= a /\ \A c \in UsingKeys : b <= c /\ c <= a => IsGone(c)
  BY <1>2 DEF GoneRun
<1>4. a \in Nat
  BY <1>1, RegistryAssumption DEF UsingKeys, RegistryAssumption
<1>. QED BY <1>1, <1>3, <1>4 DEF UsingKeys, IsGone

LEMMA ShapeStep == Shape /\ [Next]_vars => Shape'
<1> SUFFICES ASSUME Shape, [Next]_vars PROVE Shape'
  OBVIOUS
<1>0. TypeOK /\ Keys /\ Sessions /\ RegisteredOnce /\ Apart
  BY OnceByKey DEF Shape
<1>. USE NoneApart
<1> SUFFICES TypeOK' /\ Keys' /\ Sessions' /\ Apart'
  BY OnceByKeyNext DEF Shape
<1>1. ASSUME NEW s \in Session, NoImport(s) \/ ReplyImport(s) \/ AbortTransfer(s)
      PROVE  TypeOK' /\ Keys' /\ Sessions' /\ Apart'
  <2>1. UNCHANGED <<usbVars, available, using, hasDevice, current, wanted, fault>>
    BY <1>1 DEF NoImport, ReplyImport, AbortTransfer
  <2>2. Listed' = Listed
    BY <2>1 DEF Listed
  <2>3. TypeOK'
    BY <1>0, <1>1, <2>1 DEF TypeOK, usbVars, NoImport, ReplyImport, AbortTransfer, Goto, Pc
  <2>4. Keys' /\ Apart'
    BY <1>0, <2>1, <2>2 DEF Keys, Apart, Distinct, usbVars
  <2>5. Sessions'
    BY <1>0, <1>1, <2>1 DEF TypeOK, Sessions, usbVars, NoImport, ReplyImport, AbortTransfer, Goto
  <2>. QED BY <2>3, <2>4, <2>5
<1>2. ASSUME NEW s \in Session, NEW a \in Address, CheckUsing(s, a)
      PROVE  TypeOK' /\ Keys' /\ Sessions' /\ Apart'
  <2>1. UNCHANGED <<usbVars, available, using, hasDevice, current, threw, fault>>
    BY <1>2 DEF CheckUsing
  <2>2. Listed' = Listed
    BY <2>1 DEF Listed
  <2>3. TypeOK'
    <3>1. pc' \in [Session -> Pc]
      BY <1>0, <1>2 DEF TypeOK, CheckUsing, Goto, Pc
    <3>2. wanted' \in [Session -> Address \cup {None}]
      BY <1>0, <1>2 DEF TypeOK, CheckUsing
    <3>. QED BY <1>0, <2>1, <3>1, <3>2 DEF TypeOK, usbVars
  <2>4. Keys' /\ Apart'
    <3>1. Keys'
      BY <1>0, <2>1, <2>2 DEF Keys, usbVars
    <3>2. Apart'
      BY <1>0, <2>1, <2>2 DEF Apart, Distinct, usbVars
    <3>. QED BY <3>1, <3>2
  <2>5. Sessions'
    BY <1>0, <1>2, <2>1 DEF TypeOK, Sessions, usbVars, CheckUsing, Goto
  <2>. QED BY <2>3, <2>4, <2>5
<1>3. ASSUME NEW s \in Session, MoveToUsing(s)
      PROVE  TypeOK' /\ Keys' /\ Sessions' /\ Apart'
  <2>1. /\ UNCHANGED <<usbVars, hasDevice, wanted, threw, fault>>
        /\ pc[s] = "checked" /\ wanted[s] \in Address /\ pc' = [pc EXCEPT ![s] = "replying"]
    BY <1>0, <1>3 DEF MoveToUsing, Sessions, Goto
  <2>2. CASE FirstAt(wanted[s]) = {} /\ UNCHANGED <<using, available, current>>
    <3>1. Listed' = Listed
      BY <2>2 DEF Listed
    <3>2. TypeOK' /\ Sessions'
      BY <1>0, <2>1, <2>2 DEF TypeOK, Sessions, usbVars, Pc
    <3>3. Keys' /\ Apart'
      BY <1>0, <2>1, <2>2, <3>1 DEF Keys, Apart, Distinct, usbVars
    <3>. QED BY <3>2, <3>3
  <2>3. ASSUME NEW i \in FirstAt(wanted[s]),
               using' = [using EXCEPT ![wanted[s]] = available[i]],
               available' = RemoveAt(available, i),
               current' = [current EXCEPT ![s] = available[i]]
        PROVE  TypeOK' /\ Keys' /\ Sessions' /\ Apart'
    <3>. DEFINE d == available[i]
    <3>1. d \in Device /\ d \in Listed /\ address[d] = wanted[s]
      BY <1>0, FirstHasAddress
    <3>2. /\ available' \in Seq(Device) /\ Distinct(available')
          /\ Listed' = Listed \ {d}
      BY <1>0, <2>3, TakingOut
    <3>3. using' = [using EXCEPT ![wanted[s]] = d] /\ current' = [current EXCEPT ![s] = d]
      BY <2>3
    <3>. HIDE DEF d
    <3>4. TypeOK'
      BY <1>0, <2>1, <3>1, <3>2, <3>3 DEF TypeOK, usbVars, Pc
    <3>5. Keys'
      BY <1>0, <2>1, <3>1, <3>2, <3>3 DEF TypeOK, Keys, usbVars
    <3>6. Sessions'
      BY <1>0, <2>1, <3>1, <3>3 DEF TypeOK, Sessions, usbVars
    <3>7. Apart'
      BY <1>0, <2>1, <3>1, <3>2, <3>3 DEF TypeOK, Apart
    <3>. QED BY <3>4, <3>5, <3>6, <3>7
  <2>. QED BY <1>3, <2>2, <2>3 DEF MoveToUsing
<1>4. ASSUME NEW s \in Session, EndTransfer(s)
      PROVE  TypeOK' /\ Keys' /\ Sessions' /\ Apart'
  <2>1. /\ UNCHANGED <<usbVars, hasDevice, wanted, threw, fault>>
        /\ pc[s] = "transferring" /\ wanted[s] \in Address /\ pc' = [pc EXCEPT ![s] = "exiting"]
        /\ current' = [current EXCEPT ![s] = None]
    BY <1>0, <1>4 DEF EndTransfer, Sessions, Goto
  <2>2. Sessions'
    BY <1>0, <2>1 DEF TypeOK, Sessions, usbVars
  <2>3. CASE using[wanted[s]] = None
    <3>1. UNCHANGED <<available, using>>
      BY <1>4, <2>3 DEF EndTransfer
    <3>2. Listed' = Listed
      BY <3>1 DEF Listed
    <3>3. TypeOK' /\ Keys' /\ Apart'
      BY <1>0, <2>1, <3>1, <3>2 DEF TypeOK, Keys, Apart, Distinct, usbVars, Pc
    <3>. QED BY <2>2, <3>3
  <2>4. CASE using[wanted[s]] # None
    <3>. DEFINE d == using[wanted[s]]
    <3>1. d \in Device /\ d \notin Listed /\ address[d] = wanted[s]
      BY <1>0, <2>1, <2>4 DEF TypeOK, Apart, Keys
    <3>2. available' = Append(available, d) /\ using' = [using EXCEPT ![wanted[s]] = None]
      BY <1>4, <2>4 DEF EndTransfer
    <3>. HIDE DEF d
    <3>3. /\ available' \in Seq(Device) /\ Distinct(available')
          /\ Listed' = Listed \cup {d}
      BY <1>0, <3>1, <3>2, PuttingIn
    <3>4. TypeOK'
      BY <1>0, <2>1, <3>2, <3>3 DEF TypeOK, usbVars, Pc
    <3>5. Keys'
      BY <1>0, <2>1, <3>1, <3>2, <3>3 DEF TypeOK, Keys, usbVars
    <3>6. Apart'
      BY <1>0, <2>1, <2>4, <3>1, <3>2, <3>3 DEF TypeOK, Apart, d
    <3>. QED BY <2>2, <3>4, <3>5, <3>6
  <2>. QED BY <2>3, <2>4
<1>5. ASSUME NEW s \in Session, Exit(s)
      PROVE  TypeOK' /\ Keys' /\ Sessions' /\ Apart'
  <2>1. /\ UNCHANGED <<usbVars, available, hasDevice, wanted, threw>>
        /\ pc' = [pc EXCEPT ![s] = "done"] /\ current' = [current EXCEPT ![s] = None]
        /\ using' = [a \in Address |-> IF a \in Swept THEN None ELSE using[a]]
        /\ fault' \in BOOLEAN
    BY <1>5 DEF Exit, Goto
  <2>2. Listed' = Listed
    BY <2>1 DEF Listed
  <2>3. \A a \in Address : using'[a] # None => using'[a] = using[a]
    BY <2>1
  <2>4. TypeOK'
    BY <1>0, <2>1 DEF TypeOK, usbVars, Pc
  <2>5. Sessions'
    BY <1>0, <2>1 DEF TypeOK, Sessions, usbVars
  <2>6. Keys' /\ Apart'
    BY <1>0, <2>1, <2>2, <2>3 DEF Keys, Apart, Distinct, usbVars
  <2>. QED BY <2>4, <2>5, <2>6
<1>6. ASSUME NEW d \in Device, NEW a \in Address, NewDevice(d, a)
      PROVE  TypeOK' /\ Keys' /\ Sessions' /\ Apart'
  <2>1. /\ UNCHANGED <<using, hasDevice, eventThread, pc, wanted, current, threw, fault>>
        /\ address[d] = None /\ hostDevices[a] = None
        /\ plugged' = plugged \cup {d}
        /\ address' = [address EXCEPT ![d] = a]
        /\ hostDevices' = [hostDevices EXCEPT ![a] = d]
    BY <1>6 DEF NewDevice
  <2>2. /\ d \notin Listed /\ \A b \in Address : using[b] # d /\ hostDevices[b] # d
        /\ \A s \in Session : current[s] # d
    BY <1>0, <2>1 DEF Keys, Sessions
  <2>3. /\ available' \in Seq(Device) /\ Distinct(available')
        /\ Listed \subseteq Listed' /\ Listed' \subseteq Listed \cup {d}
    BY <1>0, <1>6, <2>2, PuttingIn, StayingPut DEF NewDevice
  <2>4. TypeOK'
    BY <1>0, <2>1, <2>3 DEF TypeOK
  <2>5. Keys'
    BY <1>0, <2>1, <2>2, <2>3 DEF TypeOK, Keys
  <2>6. Sessions'
    BY <1>0, <2>1, <2>2 DEF TypeOK, Sessions
  <2>7. Apart'
    BY <1>0, <2>1, <2>2, <2>3 DEF Apart
  <2>. QED BY <2>4, <2>5, <2>6, <2>7
<1>7. ASSUME NEW d \in Device, Unplug(d)
      PROVE  TypeOK' /\ Keys' /\ Sessions' /\ Apart'
  <2>1. Listed' = Listed
    BY <1>7 DEF Unplug, Listed
  <2>. QED BY <1>0, <1>7, <2>1 DEF Unplug, TypeOK, Keys, Sessions, Apart, Distinct
<1>8. ASSUME NEW s \in Session, TransferSeesNoDevice(s)
      PROVE  TypeOK' /\ Keys' /\ Sessions' /\ Apart'
  <2>1. /\ UNCHANGED <<usbVars, available, using, pc, wanted, current, threw, fault>>
        /\ hasDevice' = [hasDevice EXCEPT ![current[s]] = FALSE]
        /\ address[current[s]] # None
    BY <1>0, <1>8 DEF TransferSeesNoDevice, Sessions
  <2>2. Listed' = Listed
    BY <2>1 DEF Listed
  <2>. QED BY <1>0, <2>1, <2>2 DEF usbVars, TypeOK, Keys, Sessions, Apart, Distinct
<1>9. ASSUME NEW a \in Address, GoneEvent(a)
      PROVE  TypeOK' /\ Keys' /\ Sessions' /\ Apart'
  <2>1. /\ UNCHANGED <<plugged, address, using, eventThread, pc, wanted, current, threw, fault>>
        /\ hostDevices' = [hostDevices EXCEPT ![a] = None]
    BY <1>9 DEF GoneEvent
  <2>. DEFINE Removed ==
                \/ hasDevice' = hasDevice
                \/ \E d \in Device : /\ address[d] # None
                                    /\ hasDevice' = [hasDevice EXCEPT ![d] = FALSE]
              Remaining ==
                available' \in Seq(Device) /\ Distinct(available') /\ Listed' \subseteq Listed
  <2>2. Remaining /\ Removed
    <3>1. ASSUME NEW i \in FirstAt(a), MarkRemoved(available[i]),
                 available' = RemoveAt(available, i)
          PROVE  Remaining /\ Removed
      <4>1. available[i] \in Device /\ address[available[i]] # None
        BY <1>0, FirstHasAddress
      <4>2. Remaining
        BY <1>0, <3>1, TakingOut
      <4>3. Removed
        BY <3>1, <4>1 DEF MarkRemoved
      <4>. QED BY <4>2, <4>3
    <3>2. ASSUME /\ UNCHANGED available
                 /\ IF using[a] # None THEN MarkRemoved(using[a]) ELSE UNCHANGED hasDevice
          PROVE  Remaining /\ Removed
      <4>1. Remaining
        BY <1>0, <3>2, StayingPut
      <4>2. Removed
        BY <1>0, <3>2 DEF MarkRemoved, TypeOK, Keys
      <4>. QED BY <4>1, <4>2
    <3>. HIDE DEF Remaining, Removed
    <3>. QED BY <1>9, <3>1, <3>2 DEF GoneEvent
  <2>3. TypeOK'
    BY <1>0, <2>1, <2>2 DEF TypeOK
  <2>4. Keys'
    <3>1. \A b \in Address : using[b] # None => address[using[b]] = b
      BY <1>0 DEF Keys
    <3>2. \A b \in Address : hostDevices'[b] # None => address[hostDevices'[b]] = b
      BY <1>0, <2>1 DEF TypeOK, Keys
    <3>3. \A d \in Listed' \cup plugged : address[d] # None
      BY <1>0, <2>2 DEF Keys
    <3>4. \A d \in Device : ~hasDevice'[d] => address[d] # None
      BY <1>0, <2>2 DEF TypeOK, Keys
    <3>. QED BY <2>1, <3>1, <3>2, <3>3, <3>4 DEF Keys
  <2>5. Sessions' /\ Apart'
    BY <1>0, <2>1, <2>2 DEF Sessions, Apart
  <2>. QED BY <2>3, <2>4, <2>5
<1>10. ASSUME EventThreadOutOfMemory
       PROVE  TypeOK' /\ Keys' /\ Sessions' /\ Apart'
  <2>1. /\ UNCHANGED <<plugged, address, available, using, hasDevice, pc, wanted, current,
                       threw, fault>>
        /\ hostDevices' \in [Address -> Device \cup {None}]
        /\ \A a \in Address : hostDevices'[a] # None => hostDevices'[a] = hostDevices[a]
        /\ eventThread' = FALSE
    BY <1>0, <1>10 DEF EventThreadOutOfMemory, TypeOK
  <2>2. Listed' = Listed
    BY <2>1 DEF Listed
  <2>. QED BY <1>0, <2>1, <2>2 DEF TypeOK, Keys, Sessions, Apart, Distinct
<1>11. CASE UNCHANGED vars
  <2>1. Listed' = Listed
    BY <1>11 DEF vars, Listed
  <2>. QED BY <1>0, <1>11, <2>1 DEF vars, TypeOK, Keys, Sessions, Apart, Distinct
<1>. QED
  BY <1>1, <1>2, <1>3, <1>4, <1>5, <1>6, <1>7, <1>8, <1>9, <1>10, <1>11
  DEF Next, SessionStep, UsbStep

THEOREM ShapeCorrect == Spec => []Shape
<1>. QED BY ShapeInit, ShapeStep, PTL DEF Spec

\* Type correctness: every variable keeps the values the containers, the handlers and the
\* sessions of Server and Esp32Server can have.
THEOREM TypeCorrect == Spec => []TypeOK
<1>1. Shape => TypeOK
  BY DEF Shape
<1>. QED BY <1>1, ShapeCorrect, PTL

\* Whatever sessions import, give back and sweep, and whatever the event thread adds and
\* takes out in between, no device is ever twice among the available ones, twice in use, or
\* both.
THEOREM RegisteredOnceCorrect == Spec => []RegisteredOnce
<1>1. Shape => RegisteredOnce
  BY DEF Shape
<1>. QED BY <1>1, ShapeCorrect, PTL

-----------------------------------------------------------------------------
(* Holding.                                                                *)

LEMMA HoldingStep == Shape /\ NobodyElseInUse /\ [Next]_vars => NobodyElseInUse'
<1> SUFFICES ASSUME Shape, NobodyElseInUse, [Next]_vars,
                    NEW a \in Address, using'[a] # None
             PROVE  \E s \in Session :
                      \/ current'[s] = using'[a] /\ pc'[s] \in {"replying", "transferring"}
                      \/ wanted'[s] = a /\ s \in threw'
  BY DEF NobodyElseInUse
<1>. DEFINE Held == \E s \in Session :
                      \/ current'[s] = using'[a] /\ pc'[s] \in {"replying", "transferring"}
                      \/ wanted'[s] = a /\ s \in threw'
            Holder(s) == \/ current[s] = using[a] /\ pc[s] \in {"replying", "transferring"}
                         \/ wanted[s] = a /\ s \in threw
<1>0. TypeOK /\ Keys /\ Sessions
  BY DEF Shape
\* An entry that is not new has a session that answers for it, and that one knows its key.
<1>1. ASSUME using'[a] = using[a]
      PROVE  \E s \in Session : Holder(s) /\ wanted[s] = a /\ pc[s] \notin {"new", "checked"}
  BY <1>0, <1>1 DEF NobodyElseInUse, Keys, Sessions
<1>. USE NoneApart
<1>2. ASSUME NEW s \in Session, NoImport(s) \/ AbortTransfer(s)
      PROVE  Held
  BY <1>0, <1>1, <1>2 DEF NoImport, AbortTransfer, TypeOK, Goto, usbVars
<1>3. ASSUME NEW s \in Session, NEW b \in Address, CheckUsing(s, b)
      PROVE  Held
  BY <1>0, <1>1, <1>3 DEF CheckUsing, TypeOK, Goto, usbVars
<1>4. ASSUME NEW s \in Session, MoveToUsing(s)
      PROVE  Held
  <2>1. UNCHANGED <<wanted, threw>> /\ pc[s] = "checked" /\ pc' = [pc EXCEPT ![s] = "replying"]
    BY <1>4 DEF MoveToUsing, Goto
  <2>2. CASE UNCHANGED <<using, current>>
    BY <1>0, <1>1, <2>1, <2>2 DEF TypeOK
  <2>3. ASSUME NEW d, using' = [using EXCEPT ![wanted[s]] = d],
               current' = [current EXCEPT ![s] = d]
        PROVE  Held
    <3>1. CASE a = wanted[s]
      BY <1>0, <2>1, <2>3, <3>1 DEF TypeOK
    <3>2. CASE a # wanted[s]
      BY <1>0, <1>1, <2>1, <2>3, <3>2 DEF TypeOK
    <3>. QED BY <3>1, <3>2
  <2>. QED BY <1>4, <2>2, <2>3 DEF MoveToUsing
<1>5. ASSUME NEW s \in Session, ReplyImport(s)
      PROVE  Held
  BY <1>0, <1>1, <1>5 DEF ReplyImport, TypeOK, Goto, usbVars
<1>6. ASSUME NEW s \in Session, EndTransfer(s)
      PROVE  Held
  <2>1. UNCHANGED <<wanted, threw>> /\ pc[s] = "transferring" /\ pc' = [pc EXCEPT ![s] = "exiting"]
        /\ current' = [current EXCEPT ![s] = None]
    BY <1>6 DEF EndTransfer, Goto
  <2>2. a # wanted[s] /\ using'[a] = using[a]
    BY <1>0, <1>6 DEF EndTransfer, TypeOK
  <2>. QED BY <1>0, <1>1, <2>1, <2>2 DEF TypeOK, Sessions
<1>7. ASSUME NEW s \in Session, Exit(s)
      PROVE  Held
  <2>1. UNCHANGED <<wanted, threw>> /\ pc[s] = "exiting" /\ pc' = [pc EXCEPT ![s] = "done"]
        /\ current' = [current EXCEPT ![s] = None] /\ using'[a] = using[a]
    BY <1>7 DEF Exit, Goto
  <2>. QED BY <1>0, <1>1, <2>1 DEF TypeOK
<1>8. CASE UsbStep \/ UNCHANGED vars
  <2>1. UNCHANGED <<using, current, pc, wanted, threw>>
    BY <1>8 DEF UsbStep, NewDevice, Unplug, TransferSeesNoDevice, GoneEvent,
                EventThreadOutOfMemory, vars
  <2>. QED BY <1>1, <2>1
<1>. QED
  BY <1>2, <1>3, <1>4, <1>5, <1>6, <1>7, <1>8 DEF Next, SessionStep

\* A device cannot get stuck in use: whoever leaves an entry in using_devices behind ended
\* with an exception.
THEOREM NobodyElseInUseCorrect == Spec => []NobodyElseInUse
<1>1. Init => NobodyElseInUse
  BY DEF Init, NobodyElseInUse
<1>. QED BY <1>1, HoldingStep, ShapeCorrect, PTL DEF Spec

-----------------------------------------------------------------------------
(* Unreused.                                                               *)

\* As long as no address is given twice, only a device that is gone is marked as removed.
MarkedIsGone == NoReuse => \A d \in Device : ~hasDevice[d] => d \notin plugged

Unreused == ExclusiveUse /\ GoneIsMarkedUnlessReused /\ MarkedIsGone

\* A device keeps its address for good, so that an address once reused stays so.
LEMMA ReuseStays == TypeOK /\ [Next]_vars /\ NoReuse' => NoReuse
<1> SUFFICES ASSUME TypeOK, [Next]_vars, NoReuse' PROVE NoReuse
  OBVIOUS
<1>1. \A d \in Device : address[d] # None => address'[d] = address[d]
  BY DEF Next, UsbStep, SessionStep, NewDevice, Unplug, TransferSeesNoDevice, GoneEvent,
         EventThreadOutOfMemory, NoImport, CheckUsing, MoveToUsing, ReplyImport, EndTransfer,
         AbortTransfer, Exit, usbVars, vars, TypeOK
<1> SUFFICES ASSUME NEW d \in Device, NEW e \in Device, d # e, address[d] # None,
                    address[d] = address[e]
             PROVE  FALSE
  BY DEF NoReuse
<1>. QED BY <1>1 DEF NoReuse

\* Two devices with the same address are one.
LEMMA OneAt ==
  ASSUME NoReuse, NEW d \in Device, NEW e \in Device, address[d] # None,
         address[d] = address[e]
  PROVE  d = e
BY DEF NoReuse

\* Without reuse a search for the address of an available device ends at that device.
LEMMA SearchFinds ==
  ASSUME Shape, NoReuse, NEW d \in Listed
  PROVE  \E i \in FirstAt(address[d]) : available[i] = d
<1>1. TypeOK /\ Keys /\ RegisteredOnce
  BY DEF Shape
<1>2. PICK i \in DOMAIN available : available[i] = d
  BY DEF Listed
<1>3. /\ i \in 1 .. Len(available) /\ DOMAIN available = 1 .. Len(available)
      /\ Len(available) \in Nat /\ \A j \in 1 .. Len(available) : available[j] \in Device
  BY <1>1, <1>2, LenProperties DEF TypeOK
<1>4. ASSUME NEW j \in 1 .. i - 1 PROVE address[available[j]] # address[d]
  <2>1. j \in DOMAIN available /\ j # i /\ available[j] \in Device
    BY <1>3
  <2>2. available[j] # d
    BY <1>1, <1>2, <2>1 DEF RegisteredOnce
  <2>. QED BY <1>1, <1>2, <1>3, <2>1, <2>2 DEF NoReuse, Keys
<1>. QED BY <1>2, <1>4 DEF FirstAt

\* Without reuse remove_gone_device finds the device that is gone wherever it is, and marks
\* no other.
LEMMA GoneIsFound ==
  ASSUME Shape, NoReuse, NEW a \in Address, GoneEvent(a)
  PROVE  LET e == hostDevices[a] IN
         /\ e \in Device /\ address[e] = a /\ e \notin plugged
         /\ hasDevice' \in {hasDevice, [hasDevice EXCEPT ![e] = FALSE]}
         /\ Listed' \in {Listed, Listed \ {e}}
         /\ e \in Listed \cup InUse => ~hasDevice'[e]
<1>. DEFINE e == hostDevices[a]
<1>1. TypeOK /\ Keys /\ RegisteredOnce
  BY DEF Shape
<1>2. e \in Device /\ address[e] = a /\ e \notin plugged /\ a # None
  BY <1>1, NoneApart DEF GoneEvent, TypeOK, Keys
<1>. HIDE DEF e
<1>3. ASSUME NEW i \in FirstAt(a), MarkRemoved(available[i]),
             available' = RemoveAt(available, i)
      PROVE  /\ hasDevice' = [hasDevice EXCEPT ![e] = FALSE] /\ ~hasDevice'[e]
             /\ Listed' = Listed \ {e}
  <2>1. available[i] = e
    BY <1>1, <1>2, FirstHasAddress, OneAt
  <2>2. Listed' = Listed \ {e}
    BY <1>1, <1>3, <2>1, TakingOut
  <2>. QED BY <1>1, <1>2, <1>3, <2>1, <2>2 DEF MarkRemoved, TypeOK
<1>4. ASSUME FirstAt(a) = {}, UNCHANGED available,
             IF using[a] # None THEN MarkRemoved(using[a]) ELSE UNCHANGED hasDevice
      PROVE  /\ hasDevice' \in {hasDevice, [hasDevice EXCEPT ![e] = FALSE]}
             /\ Listed' = Listed
             /\ e \in Listed \cup InUse => ~hasDevice'[e]
  <2>1. Listed' = Listed
    BY <1>4 DEF Listed
  <2>2. e \notin Listed
    BY <1>2, <1>4, SearchFinds
  <2>3. using[a] # None => using[a] = e
    BY <1>1, <1>2, OneAt DEF TypeOK, Keys
  <2>4. hasDevice' \in {hasDevice, [hasDevice EXCEPT ![e] = FALSE]}
    BY <1>4, <2>3 DEF MarkRemoved
  <2>5. e \in InUse => ~hasDevice'[e]
    BY <1>1, <1>2, <1>4, <2>3 DEF InUse, Keys, MarkRemoved, TypeOK
  <2>. QED BY <2>1, <2>2, <2>4, <2>5
<1>. QED BY <1>2, <1>3, <1>4 DEF GoneEvent, e

LEMMA ExclusiveStep == Shape /\ ExclusiveUse /\ [Next]_vars => ExclusiveUse'
<1> SUFFICES ASSUME Shape, ExclusiveUse, [Next]_vars, NoReuse'
             PROVE  /\ \A s, t \in Session :
                         current'[s] = current'[t] /\ current'[s] # None => s = t
                    /\ \A s \in Session : current'[s] \notin Listed'
  BY DEF ExclusiveUse
<1>. DEFINE Exclusive == /\ \A s, t \in Session :
                              current'[s] = current'[t] /\ current'[s] # None => s = t
                         /\ \A s \in Session : current'[s] \notin Listed'
<1>0. /\ TypeOK /\ Keys /\ Sessions /\ RegisteredOnce /\ NoReuse /\ None \notin Listed
      /\ \A s, t \in Session : current[s] = current[t] /\ current[s] # None => s = t
      /\ \A s \in Session : current[s] \notin Listed
  BY ReuseStays, NoneApart DEF Shape, ExclusiveUse, Keys, TypeOK, Listed
<1>1. ASSUME Listed' \subseteq Listed, UNCHANGED current
      PROVE  Exclusive
  BY <1>0, <1>1
<1>2. ASSUME NEW s \in Session, MoveToUsing(s)
      PROVE  Exclusive
  <2>1. ASSUME NEW i \in FirstAt(wanted[s]), available' = RemoveAt(available, i),
               current' = [current EXCEPT ![s] = available[i]]
        PROVE  Exclusive
    <3>1. available[i] \in Listed /\ Listed' = Listed \ {available[i]}
      BY <1>0, <2>1, FirstHasAddress, TakingOut
    <3>. QED BY <1>0, <2>1, <3>1 DEF TypeOK
  <2>2. CASE UNCHANGED <<available, current>>
    BY <1>1, <2>2 DEF Listed
  <2>. QED BY <1>2, <2>1, <2>2 DEF MoveToUsing
<1>3. ASSUME NEW s \in Session, EndTransfer(s)
      PROVE  Exclusive
  <2>1. /\ wanted[s] \in Address /\ current[s] \in Device /\ address[current[s]] = wanted[s]
        /\ current' = [current EXCEPT ![s] = None] /\ wanted[s] # None
    BY <1>0, <1>3, NoneApart DEF EndTransfer, TypeOK, Sessions
  <2>2. CASE UNCHANGED available
    <3>1. Listed' = Listed
      BY <2>2 DEF Listed
    <3>. QED BY <1>0, <2>1, <3>1 DEF TypeOK
  <2>3. CASE using[wanted[s]] # None /\ available' = Append(available, using[wanted[s]])
    <3>1. using[wanted[s]] = current[s]
      BY <1>0, <2>1, <2>3, OneAt DEF TypeOK, Keys
    <3>2. Listed' = Listed \cup {current[s]}
      BY <1>0, <2>1, <2>3, <3>1, PuttingIn
    <3>. QED BY <1>0, <2>1, <3>2, NoneApart DEF TypeOK
  <2>. QED BY <1>3, <2>2, <2>3 DEF EndTransfer
<1>4. ASSUME NEW s \in Session, Exit(s)
      PROVE  Exclusive
  <2>1. current' = [current EXCEPT ![s] = None] /\ Listed' = Listed
    BY <1>4 DEF Exit, Listed
  <2>. QED BY <1>0, <2>1 DEF TypeOK
<1>5. ASSUME NEW d \in Device, NEW a \in Address, NewDevice(d, a)
      PROVE  Exclusive
  <2>1. /\ d \notin Listed /\ \A s \in Session : current[s] # d
        /\ current' = current
    BY <1>0, <1>5, NoneApart DEF NewDevice, Keys, Sessions
  <2>2. Listed' \subseteq Listed \cup {d}
    BY <1>0, <1>5, <2>1, PuttingIn, StayingPut DEF NewDevice
  <2>. QED BY <1>0, <2>1, <2>2
<1>6. ASSUME NEW a \in Address, GoneEvent(a)
      PROVE  Exclusive
  <2>1. Listed' \subseteq Listed /\ UNCHANGED current
    BY <1>0, <1>6, GoneIsFound DEF GoneEvent
  <2>. QED BY <1>1, <2>1
<1>7. ASSUME UNCHANGED <<available, current>>
      PROVE  Exclusive
  BY <1>1, <1>7 DEF Listed
<1>. QED
  BY <1>2, <1>3, <1>4, <1>5, <1>6, <1>7
  DEF Next, UsbStep, SessionStep, Unplug, TransferSeesNoDevice, EventThreadOutOfMemory,
      NoImport, CheckUsing, ReplyImport, AbortTransfer, vars

\* What the steps do to the devices that are exported, while no address is given twice:
\* only NEW_DEV exports one, only DEV_GONE and the sweep take one out, and both know it as
\* gone.
LEMMA Exported ==
  ASSUME Shape, [Next]_vars, NoReuse, NEW d \in Device
  PROVE  /\ d \in (Listed \cup InUse)'
              => d \in Listed \cup InUse \/ \E a \in Address : NewDevice(d, a)
         /\ d \in Listed \cup InUse =>
              \/ d \in (Listed \cup InUse)'
              \/ ~hasDevice[d]
              \/ \E a \in Address : GoneEvent(a) /\ hostDevices[a] = d
<1>. DEFINE Was == d \in Listed \cup InUse
            Is  == d \in (Listed \cup InUse)'
            Goal == /\ Is => Was \/ \E a \in Address : NewDevice(d, a)
                    /\ Was => \/ Is \/ ~hasDevice[d]
                              \/ \E a \in Address : GoneEvent(a) /\ hostDevices[a] = d
<1>0. TypeOK /\ Keys /\ Sessions /\ RegisteredOnce /\ d # None
  BY NoneApart DEF Shape
<1>1. ASSUME UNCHANGED <<available, using>> PROVE Goal
  BY <1>1 DEF Listed, InUse
<1>2. ASSUME NEW s \in Session, MoveToUsing(s) PROVE Goal
  <2>1. ASSUME NEW i \in FirstAt(wanted[s]), available' = RemoveAt(available, i),
               using' = [using EXCEPT ![wanted[s]] = available[i]]
        PROVE  Goal
    <3>1. /\ available[i] \in Device /\ available[i] \in Listed
          /\ address[available[i]] = wanted[s] /\ wanted[s] \in Address
          /\ Listed' = Listed \ {available[i]}
      BY <1>0, <1>2, <2>1, FirstHasAddress, TakingOut DEF MoveToUsing, Sessions
    <3>2. using[wanted[s]] = None
      <4>1. SUFFICES ASSUME using[wanted[s]] # None PROVE FALSE
        OBVIOUS
      <4>2. using[wanted[s]] = available[i]
        BY <1>0, <3>1, <4>1, OneAt, NoneApart DEF TypeOK, Keys
      <4>. QED BY <1>0, <3>1, <4>1, <4>2 DEF RegisteredOnce, InUse
    <3>3. InUse' = InUse \cup {available[i]}
      BY <1>0, <2>1, <3>1, <3>2, NoneApart DEF TypeOK, InUse
    <3>. QED BY <3>1, <3>3
  <2>. QED BY <1>1, <1>2, <2>1 DEF MoveToUsing
<1>3. ASSUME NEW s \in Session, EndTransfer(s) PROVE Goal
  <2>1. ASSUME using[wanted[s]] # None, available' = Append(available, using[wanted[s]]),
               using' = [using EXCEPT ![wanted[s]] = None]
        PROVE  Goal
    <3>1. /\ wanted[s] \in Address /\ using[wanted[s]] \in Device /\ using[wanted[s]] \in InUse
          /\ using[wanted[s]] \notin Listed
      BY <1>0, <1>3, <2>1 DEF EndTransfer, Sessions, TypeOK, InUse, RegisteredOnce
    <3>2. Listed' = Listed \cup {using[wanted[s]]}
      BY <1>0, <2>1, <3>1, PuttingIn
    <3>3. InUse' = InUse \ {using[wanted[s]]}
      BY <1>0, <2>1, <3>1 DEF TypeOK, InUse, RegisteredOnce
    <3>. QED BY <3>1, <3>2, <3>3
  <2>. QED BY <1>1, <1>3, <2>1 DEF EndTransfer
<1>4. ASSUME NEW s \in Session, Exit(s) PROVE Goal
  <2>1. using' = [a \in Address |-> IF a \in Swept THEN None ELSE using[a]] /\ Listed' = Listed
    BY <1>4 DEF Exit, Listed
  <2>2. InUse' \subseteq InUse
    BY <2>1 DEF InUse
  <2>3. d \in InUse => d \in InUse' \/ ~hasDevice[d]
    BY <2>1, SweptIsGone DEF InUse
  <2>. QED BY <2>1, <2>2, <2>3
<1>5. ASSUME NEW e \in Device, NEW a \in Address, NewDevice(e, a) PROVE Goal
  <2>1. e \notin Listed /\ InUse' = InUse
    BY <1>0, <1>5 DEF NewDevice, Keys, InUse
  <2>2. Listed' \in {Listed, Listed \cup {e}}
    BY <1>0, <1>5, <2>1, PuttingIn, StayingPut DEF NewDevice
  <2>. QED BY <1>5, <2>1, <2>2
<1>6. ASSUME NEW a \in Address, GoneEvent(a) PROVE Goal
  <2>1. Listed' \in {Listed, Listed \ {hostDevices[a]}}
    BY <1>6, GoneIsFound
  <2>2. InUse' = InUse
    BY <1>6 DEF GoneEvent, InUse
  <2>. QED BY <1>6, <2>1, <2>2
<1>. QED
  BY <1>1, <1>2, <1>3, <1>4, <1>5, <1>6
  DEF Next, UsbStep, SessionStep, Unplug, TransferSeesNoDevice, EventThreadOutOfMemory,
      NoImport, CheckUsing, ReplyImport, AbortTransfer, vars

LEMMA MarkedStep == Shape /\ MarkedIsGone /\ [Next]_vars => MarkedIsGone'
<1> SUFFICES ASSUME Shape, MarkedIsGone, [Next]_vars, NoReuse',
                    NEW d \in Device, ~hasDevice'[d]
             PROVE  d \notin plugged'
  BY DEF MarkedIsGone
<1>0. TypeOK /\ Keys /\ Sessions /\ NoReuse /\ (~hasDevice[d] => d \notin plugged)
  BY ReuseStays DEF Shape, MarkedIsGone
<1>1. CASE UNCHANGED <<plugged, hasDevice>>
  BY <1>0, <1>1
<1>2. ASSUME NEW e \in Device, NEW a \in Address, NewDevice(e, a)
      PROVE  d \notin plugged'
  BY <1>0, <1>2 DEF NewDevice, Keys
<1>3. ASSUME NEW e \in Device, Unplug(e)
      PROVE  d \notin plugged'
  BY <1>0, <1>3 DEF Unplug
<1>4. ASSUME NEW s \in Session, TransferSeesNoDevice(s)
      PROVE  d \notin plugged'
  BY <1>0, <1>4 DEF TransferSeesNoDevice, usbVars, TypeOK
<1>5. ASSUME NEW a \in Address, GoneEvent(a)
      PROVE  d \notin plugged'
  <2>1. /\ hostDevices[a] \notin plugged /\ plugged' = plugged
        /\ hasDevice' \in {hasDevice, [hasDevice EXCEPT ![hostDevices[a]] = FALSE]}
    BY <1>0, <1>5, GoneIsFound DEF GoneEvent
  <2>. QED BY <1>0, <2>1 DEF TypeOK
<1>. QED
  BY <1>1, <1>2, <1>3, <1>4, <1>5
  DEF Next, UsbStep, SessionStep, EventThreadOutOfMemory, NoImport, CheckUsing, MoveToUsing,
      ReplyImport, EndTransfer, AbortTransfer, Exit, usbVars, vars

LEMMA GoneStep ==
  Shape /\ GoneIsMarkedUnlessReused /\ [Next]_vars => GoneIsMarkedUnlessReused'
<1> SUFFICES ASSUME Shape, GoneIsMarkedUnlessReused, [Next]_vars, NoReuse',
                    NEW d \in (Listed \cup InUse)', hasDevice'[d]
             PROVE  hostDevices'[address'[d]] = d
  BY DEF GoneIsMarkedUnlessReused
<1>0. /\ TypeOK /\ Keys /\ NoReuse
      /\ \A e \in Listed \cup InUse : hasDevice[e] => hostDevices[address[e]] = e
  BY ReuseStays DEF Shape, GoneIsMarkedUnlessReused
<1>1. d \in Device
  <2>1. TypeOK'
    BY ShapeStep DEF Shape
  <2>. QED BY <2>1, LenProperties DEF TypeOK, Listed, InUse
<1>2. hasDevice[d]
  BY <1>0, <1>1
  DEF Next, UsbStep, SessionStep, NewDevice, Unplug, TransferSeesNoDevice, GoneEvent,
      MarkRemoved, EventThreadOutOfMemory, NoImport, CheckUsing, MoveToUsing, ReplyImport,
      EndTransfer, AbortTransfer, Exit, usbVars, vars, TypeOK
<1>3. ASSUME NEW a \in Address, NewDevice(d, a)
      PROVE  hostDevices'[address'[d]] = d
  BY <1>0, <1>1, <1>3 DEF NewDevice, TypeOK
<1>4. ASSUME d \in Listed \cup InUse
      PROVE  hostDevices'[address'[d]] = d
  <2>1. hostDevices[address[d]] = d /\ address[d] \in Address
    BY <1>0, <1>1, <1>2, <1>4, NoneApart DEF TypeOK, Keys, InUse
  <2>2. ASSUME NEW e \in Device, NEW a \in Address, NewDevice(e, a)
        PROVE  hostDevices'[address'[d]] = d
    BY <1>0, <1>1, <2>1, <2>2, NoneApart DEF NewDevice, TypeOK
  <2>3. ASSUME NEW a \in Address, GoneEvent(a)
        PROVE  hostDevices'[address'[d]] = d
    <3>1. address[d] # a
      BY <1>4, <2>1, <2>3, <1>0, GoneIsFound
    <3>. QED BY <1>0, <2>1, <2>3, <3>1 DEF GoneEvent, TypeOK
  <2>4. CASE EventThreadOutOfMemory
    <3>1. FirstAt(address[d]) # {} \/ using[address[d]] # None
      BY <1>0, <1>4, SearchFinds DEF Keys, InUse
    <3>. QED BY <2>1, <2>4, <3>1 DEF EventThreadOutOfMemory
  <2>5. CASE UNCHANGED <<hostDevices, address>>
    BY <2>1, <2>5
  <2>. QED
    BY <2>2, <2>3, <2>4, <2>5
    DEF Next, UsbStep, SessionStep, Unplug, TransferSeesNoDevice, NoImport, CheckUsing,
        MoveToUsing, ReplyImport, EndTransfer, AbortTransfer, Exit, usbVars, vars
<1>. QED BY <1>0, <1>1, <1>3, <1>4, Exported

THEOREM UnreusedCorrect == Spec => []Unreused
<1>1. Init => Unreused
  <2> SUFFICES ASSUME Init PROVE Unreused
    OBVIOUS
  <2>1. Listed = {} /\ InUse = {}
    BY DEF Init, Listed, InUse
  <2>. QED
    BY <2>1 DEF Init, Unreused, ExclusiveUse, GoneIsMarkedUnlessReused, MarkedIsGone
<1>2. Shape /\ Unreused /\ [Next]_vars => Unreused'
  BY ExclusiveStep, GoneStep, MarkedStep DEF Unreused
<1>. QED BY <1>1, <1>2, ShapeCorrect, PTL DEF Spec

\* While no address is given twice, the two critical sections of an import are enough: no
\* two sessions have the same device, and none has a device that is still to be imported.
THEOREM ExclusiveUseCorrect == Spec => []ExclusiveUse
<1>1. Unreused => ExclusiveUse
  BY DEF Unreused
<1>. QED BY <1>1, UnreusedCorrect, PTL

\* While no address is given twice, remove_gone_device reaches the device that is gone:
\* what is exported and not marked has the handle host_devices records for its address.
THEOREM GoneIsMarkedUnlessReusedCorrect == Spec => []GoneIsMarkedUnlessReused
<1>1. Unreused => GoneIsMarkedUnlessReused
  BY DEF Unreused
<1>. QED BY <1>1, UnreusedCorrect, PTL

\* No import, no end of a session and no event about another device takes a device that is
\* plugged in out of both containers.
THEOREM PresentStaysExportedCorrect == Spec => PresentStaysExported
<1>1. Shape /\ Unreused /\ [Next]_vars
        => [NoReuse' =>
              \A d \in plugged : d \in Listed \cup InUse => (d \in Listed \cup InUse)']_vars
  <2> SUFFICES ASSUME Shape, Unreused, [Next]_vars, NoReuse',
                      NEW d \in plugged, d \in Listed \cup InUse
               PROVE  (d \in Listed \cup InUse)'
    OBVIOUS
  <2>1. d \in Device /\ NoReuse
    BY ReuseStays DEF Shape, TypeOK
  <2>2. hasDevice[d]
    BY <2>1 DEF Unreused, MarkedIsGone
  <2>3. \A a \in Address : GoneEvent(a) => hostDevices[a] # d
    BY DEF GoneEvent
  <2>. QED BY <2>1, <2>2, <2>3, Exported
<1>. QED BY <1>1, ShapeCorrect, UnreusedCorrect, PTL DEF Spec, PresentStaysExported
=============================================================================
