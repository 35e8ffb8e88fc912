----------------------------- MODULE DevicesSql -----------------------------
(***************************************************************************)
(* Devices in the SQL backend: update_device and devices_for_user of       *)
(* backend_sql.rs, over the subscriptions of SubscriptionsSql, with which  *)
(* the list of devices is joined.  All devices are those of one user.      *)
(***************************************************************************)
EXTENDS SubscriptionsSql

CONSTANTS
    Caption,
    DeviceType,
    Other,     \* DeviceType::default
    NoDevice   \* no row in the devices table

ASSUME DevicesAssumption ==
    /\ NULL \notin Caption \cup DeviceType
    /\ Other \in DeviceType

\* A caption may be NULL, a type may not.
DeviceRow == [caption : Caption \cup {NULL}, type : DeviceType]

ASSUME NoDeviceAssumption == NoDevice \notin DeviceRow

VARIABLE devices  \* devices[d]: the row of d in the devices table

devicesVars == <<vars, devices>>

DevicesInit == Init /\ devices = [d \in Device |-> NoDevice]

\* Wrong: there is no coalesce.
NewOnly(new, old) == new

\* coalesce(new, old)
Coalesced(new, old) == IF new = NULL THEN old ELSE new

\* Wrong: the update sets what it was not told to NULL.
SetAll(row, caption, type) ==
    IF row = NoDevice THEN [caption |-> caption, type |-> Coalesced(type, Other)]
    ELSE [caption |-> caption, type |-> Coalesced(type, row.type)]

\* INSERT ... ON CONFLICT DO UPDATE; what is NULL was not told.
Upserted(row, caption, type) ==
    IF row = NoDevice THEN [caption |-> caption, type |-> Coalesced(type, Other)]
    ELSE [caption |-> Coalesced(caption, row.caption), type |-> Coalesced(type, row.type)]

\* One statement without a transaction: it waits for the write lock, or fails.
UpdateDevice(d) ==
    /\ writer = NoClient
    /\ \E caption \in Caption \cup {NULL}, type \in DeviceType \cup {NULL} :
        devices' = [devices EXCEPT ![d] = Upserted(@, caption, type)]
    /\ UNCHANGED vars

DevicesNext ==
    \/ Next /\ UNCHANGED devices
    \/ \E d \in Device : UpdateDevice(d)

DevicesSpec == DevicesInit /\ [][DevicesNext]_devicesVars

DevicesSerialSpec ==
    DevicesInit /\ [][DevicesNext /\ OneAtATime /\ Undisturbed]_devicesVars

-----------------------------------------------------------------------------
\* devices_for_user

\* The inner join is on the user: without a row of subscriptions, of whichever device
\* and deleted or not, there is nothing to list.
Joined ==
    {d \in Device : devices[d] # NoDevice /\ \E e \in Device : table[e] # <<>>}

\* "caption!": the list is an error if a caption is NULL.
ListFails == \E d \in Joined : devices[d].caption = NULL

Listed == IF ListFails THEN {} ELSE Joined

-----------------------------------------------------------------------------
\* Properties

DevicesTypeOK == devices \in [Device -> DeviceRow \cup {NoDevice}]

\* A device that is listed stays listed, whatever is unsubscribed from, rolled back or
\* left out of an update, until a device is made that has no caption
\* (backend_sql.rs:146-204).
DevicesStayListed ==
    [][Listed \subseteq Listed'
        \/ \E d \in Device : devices[d] = NoDevice /\ devices'[d] # NoDevice
                                /\ devices'[d].caption = NULL]_devicesVars
=============================================================================
