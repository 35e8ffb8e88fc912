--------------------------- MODULE DevicesProofs ---------------------------
(***************************************************************************)
(* Proofs about DevicesSql.  A step of it is one of SubscriptionsSql or    *)
(* leaves the variables of SubscriptionsSql alone, so their invariant      *)
(* holds here too.                                                         *)
(***************************************************************************)
EXTENDS DevicesSql, SubscriptionsProofs

\* The invariant of SubscriptionsProofs and the types of the devices table.
DInv == IInv /\ DevicesTypeOK

\* A row has a type, and a caption or none.
LEMMA UpsertedRow ==
    ASSUME NEW row \in DeviceRow \cup {NoDevice},
           NEW caption \in Caption \cup {NULL}, NEW type \in DeviceType \cup {NULL}
    PROVE  Upserted(row, caption, type) \in DeviceRow
BY DevicesAssumption, NoDeviceAssumption DEF Upserted, Coalesced, DeviceRow

\* The invariant holds at first, and every step keeps it.
THEOREM DevicesInvariant == DevicesSpec => []DInv
<1>1. DevicesInit => DInv
  BY InvInit DEF DevicesInit, DInv, DevicesTypeOK
<1>2. DInv /\ [DevicesNext]_devicesVars => DInv'
  <2> SUFFICES ASSUME DInv, [DevicesNext]_devicesVars PROVE DInv'
    OBVIOUS
  <2>1. [Next]_vars
    BY DEF DevicesNext, devicesVars, UpdateDevice
  <2>2. IInv'
    BY <2>1, InvStep DEF DInv
  <2>3. CASE UNCHANGED devices
    BY <2>2, <2>3 DEF DInv, DevicesTypeOK
  <2>4. ASSUME NEW d \in Device, UpdateDevice(d) PROVE DevicesTypeOK'
    <3>1. PICK caption \in Caption \cup {NULL}, type \in DeviceType \cup {NULL} :
              devices' = [devices EXCEPT ![d] = Upserted(devices[d], caption, type)]
      BY <2>4 DEF UpdateDevice
    <3>2. Upserted(devices[d], caption, type) \in DeviceRow
      BY UpsertedRow DEF DInv, DevicesTypeOK
    <3> QED
      BY <3>1, <3>2 DEF DInv, DevicesTypeOK
  <2> QED
    BY <2>2, <2>3, <2>4 DEF DevicesNext, devicesVars, DInv
<1> QED
  BY <1>1, <1>2, PTL DEF DevicesSpec

\* The devices table has the types of its columns in every reachable state.
THEOREM DevicesTyped == DevicesSpec => []DevicesTypeOK
BY DevicesInvariant, PTL DEF DInv

\* No step removes a row of a device's subscriptions: a transaction that ends leaves
\* the committed table or one that extends it.
LEMMA RowsStay ==
    ASSUME IInv, [Next]_vars, NEW e \in Device, table[e] # <<>>
    PROVE  table'[e] # <<>>
<1>1. ASSUME NEW c \in Client, UploadEnd(c) PROVE table' \in {table, work}
  BY <1>1 DEF UploadEnd, CommitUpload, Commit
<1>2. table' \in {table, work}
  BY <1>1, TableStep
<1>3. Extends(table, table')
  BY <1>2, ExtendsOrder DEF IInv, DatabaseOK
<1>4. table[e] \in Seq(Row)
  BY DEF IInv, TypeOK, Table
<1>5. 1 \in DOMAIN table[e]
  BY <1>4
<1>6. 1 \in DOMAIN table'[e]
  BY <1>3, <1>5 DEF Extends
<1> QED
  BY <1>6

\* However many devices a user has and whatever happens to its subscriptions, a device
\* that is listed stays listed until one is made without a caption.
THEOREM StayListed == DevicesSpec => DevicesStayListed
<1> DEFINE Made == \E d \in Device : devices[d] = NoDevice /\ devices'[d] # NoDevice
                                        /\ devices'[d].caption = NULL
<1>1. DInv /\ [DevicesNext]_devicesVars => [Listed \subseteq Listed' \/ Made]_devicesVars
  <2> SUFFICES ASSUME DInv, [DevicesNext]_devicesVars, ~Made,
                      NEW d \in Device, d \in Listed
               PROVE  d \in Listed'
    BY DEF Listed, Joined
  <2>1. [Next]_vars
    BY DEF DevicesNext, devicesVars, UpdateDevice
  <2>2. ~ListFails /\ d \in Joined
    BY DEF Listed
  <2>3. \E e \in Device : table'[e] # <<>>
    BY <2>1, <2>2, RowsStay DEF DInv, Joined
  <2>4. ASSUME NEW e \in Device, devices[e] # NoDevice
        PROVE  devices'[e] # NoDevice /\ devices'[e].caption # NULL
    <3>1. devices[e] \in DeviceRow /\ devices[e].caption \in Caption
      BY <2>2, <2>4 DEF DInv, DevicesTypeOK, ListFails, Joined, DeviceRow
    <3>2. CASE devices'[e] = devices[e]
      BY <2>4, <3>1, <3>2, DevicesAssumption
    <3>3. ASSUME NEW caption \in Caption \cup {NULL}, NEW type \in DeviceType \cup {NULL},
                 devices'[e] = Upserted(devices[e], caption, type)
          PROVE  devices'[e] # NoDevice /\ devices'[e].caption # NULL
      <4>1. devices'[e] \in DeviceRow
        BY <3>1, <3>3, UpsertedRow
      <4>2. devices'[e].caption = Coalesced(caption, devices[e].caption)
        BY <2>4, <3>3 DEF Upserted
      <4> QED
        BY <3>1, <4>1, <4>2, DevicesAssumption, NoDeviceAssumption DEF Coalesced
    <3> QED
      BY <3>2, <3>3 DEF DevicesNext, devicesVars, UpdateDevice, DInv, DevicesTypeOK
  <2>5. ~ListFails'
    <3> SUFFICES ASSUME NEW e \in Device, devices'[e] # NoDevice
                 PROVE  devices'[e].caption # NULL
      BY DEF ListFails, Joined
    <3> QED
      BY <2>4
  <2>6. d \in Joined'
    BY <2>2, <2>3, <2>4 DEF Joined
  <2> QED
    BY <2>5, <2>6 DEF Listed
<1> QED
  BY <1>1, DevicesInvariant, PTL DEF DevicesSpec, DevicesStayListed

\* What devices are called and which are listed has no part in synchronisation: with
\* one request or synchronisation at a time, a client's next fetch gives it the
\* subscriptions of its device, whether or not its cursor follows its uploads too.
THEOREM DevicesSync == DevicesSerialSpec => []NextFetchSyncs
<1>1. DevicesInit => IInv /\ SerialOK
  BY InvInit, SerialInit DEF DevicesInit
<1>2. IInv /\ SerialOK /\ [DevicesNext /\ OneAtATime /\ Undisturbed]_devicesVars
        => IInv' /\ SerialOK'
  <2>1. [DevicesNext /\ OneAtATime /\ Undisturbed]_devicesVars
          => [Next /\ OneAtATime /\ Undisturbed]_vars
    BY DEF DevicesNext, devicesVars, UpdateDevice
  <2> QED
    BY <2>1, InvStep, SerialStep
<1> QED
  BY <1>1, <1>2, SerialSyncs, PTL DEF DevicesSerialSpec
=============================================================================
