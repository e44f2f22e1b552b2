-------------------------- MODULE SingleProc_proofs --------------------------
(* np_single_proc: the table of users, the loop that serves it, and the pipes   *)
(* that are filed under its ids.                                                *)
(*                                                                              *)
(* UserTable for any number of ids, descriptors and nicknames.  The invariant   *)
(* that carries the rest is FirstMatchIsLive: below a used slot no slot, used   *)
(* or left behind, holds the same descriptor.  It holds because find_id fills   *)
(* the table from below: when a slot is taken all slots below are in use, by    *)
(* sockets that are open and therefore different from the new one; from then    *)
(* on a slot below can only be overwritten with the descriptor of a socket that *)
(* is open beside it.                                                           *)
EXTENDS SelectLoop, UserPipes, FiniteSetTheorems, FunctionTheorems, SequenceTheorems,
        TLAPS

FirstMatchIsLive ==
    \A j \in live : \A i \in 1..(j - 1) : socketfd[i] # socketfd[j]

(* The table and the clients agree, read from the socket and from the slot.     *)
ClientHasSlot ==
    \A fd \in socket_all : /\ client[fd].id \in live
                           /\ socketfd[client[fd].id] = fd
                           /\ nickname[client[fd].id] = client[fd].name
SlotHasClient ==
    \A i \in live : socketfd[i] \in socket_all /\ client[socketfd[i]].id = i

NoTwins ==
    \A i, j \in live :
        nickname[i] = nickname[j] /\ nickname[i] # NoName => i = j

IInv ==
    /\ TypeOK
    /\ FirstMatchIsLive
    /\ ClientHasSlot
    /\ SlotHasClient
    /\ NoTwins
    /\ CountIsExact

-----------------------------------------------------------------------------
(* find_id: a server that is not full finds an unused id inside the table.      *)
LEMMA FreeIdExists ==
    ASSUME TypeOK, CountIsExact, n < MaxId, NEW id, find_id(id)
    PROVE  id \in Ids /\ ~id_record[id]
<1>1. MaxId \in Nat
  BY MaxIdAssumption
<1>2. ASSUME id \notin Ids PROVE FALSE
  <2>1. id = MaxId + 1
    BY <1>1, <1>2 DEF find_id, Ids
  <2>2. live = 1..MaxId
    BY <1>1, <2>1 DEF find_id, live, Ids
  <2>3. Cardinality(1..MaxId) = MaxId
    BY <1>1, FS_Interval
  <2> QED
    BY <1>1, <2>2, <2>3 DEF CountIsExact
<1> QED
  BY <1>2 DEF find_id

(* socketfd_to_id: for a connected socket, the id its client was given.         *)
LEMMA SocketOfClient ==
    ASSUME TypeOK, FirstMatchIsLive, ClientHasSlot, NEW fd \in socket_all
    PROVE  /\ socketfd_to_id(fd) = client[fd].id
           /\ socketfd_to_id(fd) \in live
<1> DEFINE id == client[fd].id
<1>1. id \in live /\ id \in Ids /\ socketfd[id] = fd
  BY DEF ClientHasSlot, live
<1>2. \A i \in 1..(id - 1) : socketfd[i] # fd
  BY <1>1 DEF FirstMatchIsLive
<1>3. FirstSlot(fd, id)
  BY <1>1, <1>2 DEF FirstSlot
<1>4. ASSUME NEW x \in 0..MaxId, FirstSlot(fd, x) PROVE x = id
  BY <1>1, <1>2, <1>4, MaxIdAssumption DEF FirstSlot, Ids
<1>5. id \in 0..MaxId
  BY <1>1, MaxIdAssumption DEF Ids
<1>6. socketfd_to_id(fd) = id
  BY <1>3, <1>4, <1>5 DEF socketfd_to_id
<1> QED
  BY <1>1, <1>6

(* The loops over id_record reach the sockets of the connected clients.         *)
LEMMA SocketsOfLive ==
    ASSUME TypeOK, ClientHasSlot, SlotHasClient
    PROVE  sockets(live) = socket_all
BY DEF ClientHasSlot, SlotHasClient, sockets

LEMMA LiveIsFinite == IsFiniteSet(live)
<1>1. IsFiniteSet(1..MaxId)
  BY FS_Interval, MaxIdAssumption
<1>2. live \in SUBSET (1..MaxId)
  BY DEF live, Ids
<1> QED
  BY <1>1, <1>2, FS_Subset

-----------------------------------------------------------------------------
LEMMA InitIInv == Init => IInv
<1> SUFFICES ASSUME Init PROVE IInv
  OBVIOUS
<1>1. live = {}
  BY DEF Init, live
<1>2. TypeOK
  BY MaxIdAssumption DEF Init, TypeOK, AllNames, Events, Silence, Kinds
<1>3. CountIsExact
  BY <1>1, FS_EmptySet DEF Init, CountIsExact
<1> QED
  BY <1>1, <1>2, <1>3
  DEF Init, IInv, FirstMatchIsLive, ClientHasSlot, SlotHasClient, NoTwins

(* login takes the lowest unused slot for a socket no slot in use has.          *)
LEMMA LoginIInv ==
    ASSUME IInv, NEW fd \in Fds, login(fd)
    PROVE  IInv'
<1> PICK id \in 1..(MaxId + 1) :
        /\ find_id(id)
        /\ socketfd' = [socketfd EXCEPT ![id] = fd]
        /\ nickname' = [nickname EXCEPT ![id] = NoName]
        /\ id_record' = [id_record EXCEPT ![id] = TRUE]
        /\ n' = n + 1
        /\ socket_all' = socket_all \cup {fd}
        /\ client' = [client EXCEPT ![fd] = [id |-> id, name |-> NoName]]
        /\ event' = [kind |-> "entered", by |-> fd, name |-> NoName, ids |-> {id},
                     to |-> {socketfd'[i] : i \in live \cup {id}}]
  BY DEF login
<1>1. id \in Ids /\ ~id_record[id] /\ n < MaxId /\ fd \notin socket_all
  BY FreeIdExists DEF login, IInv
<1>2. live' = live \cup {id} /\ id \notin live
  BY <1>1 DEF live, IInv, TypeOK
<1>3. \A i \in 1..(id - 1) : i \in live
  BY <1>1, MaxIdAssumption DEF find_id, live, Ids
<1>4. TypeOK'
  <2>1. socketfd' \in [Ids -> Fds \cup {NoFd}]
    BY <1>1 DEF IInv, TypeOK
  <2>2. {socketfd'[i] : i \in live \cup {id}} \in SUBSET (Fds \cup {NoFd})
    BY <1>1, <2>1 DEF live
  <2>3. event' \in Events
    BY <1>1, <2>2, MaxIdAssumption DEF Events, Kinds, AllNames, Ids
  <2>4. n' \in 0..MaxId
    BY <1>1, MaxIdAssumption DEF IInv, TypeOK
  <2>5. client' \in [Fds -> [id : 0..MaxId, name : AllNames]]
    BY <1>1, MaxIdAssumption DEF IInv, TypeOK, AllNames, Ids
  <2> QED
    BY <1>1, <2>1, <2>3, <2>4, <2>5 DEF IInv, TypeOK, AllNames
<1>5. FirstMatchIsLive'
  <2> SUFFICES ASSUME NEW j \in live', NEW i \in 1..(j - 1)
               PROVE  socketfd'[i] # socketfd'[j]
    BY DEF FirstMatchIsLive
  <2>1. i \in Ids /\ j \in Ids
    BY <1>1, <1>2, MaxIdAssumption DEF live, Ids
  <2>2. CASE j = id
    BY <1>1, <1>2, <1>3, <2>1, <2>2 DEF IInv, TypeOK, SlotHasClient, Ids
  <2>3. CASE j # id /\ i = id
    BY <1>1, <1>2, <2>1, <2>3 DEF IInv, TypeOK, SlotHasClient
  <2>4. CASE j # id /\ i # id
    BY <1>1, <1>2, <2>1, <2>4 DEF IInv, TypeOK, FirstMatchIsLive
  <2> QED
    BY <2>2, <2>3, <2>4
<1>6. ClientHasSlot'
  BY <1>1, <1>2 DEF IInv, TypeOK, ClientHasSlot, live
<1>7. SlotHasClient'
  BY <1>1, <1>2 DEF IInv, TypeOK, SlotHasClient, live
<1>8. NoTwins'
  BY <1>1, <1>2 DEF IInv, TypeOK, NoTwins, live
<1>9. CountIsExact'
  BY <1>2, LiveIsFinite, FS_AddElement DEF IInv, CountIsExact
<1> QED
  BY <1>4, <1>5, <1>6, <1>7, <1>8, <1>9 DEF IInv

(* logout frees the client's own id and leaves the rest of the table alone.     *)
LEMMA LogoutIInv ==
    ASSUME IInv, NEW fd \in Fds, logout(fd)
    PROVE  IInv'
<1> DEFINE id == socketfd_to_id(fd)
<1>1. id = client[fd].id /\ id \in live /\ id \in Ids /\ fd \in socket_all
  BY SocketOfClient DEF logout, IInv, live
<1>2. live' = live \ {id}
  BY <1>1 DEF logout, live, IInv, TypeOK
<1>3. Cardinality(live') = n - 1
  BY <1>1, <1>2, LiveIsFinite, FS_RemoveElement DEF IInv, CountIsExact
<1>4. TypeOK'
  <2>1. live' \in SUBSET Ids /\ IsFiniteSet(live')
    BY <1>2, LiveIsFinite, FS_RemoveElement DEF live
  <2>2. n' \in Nat
    BY <1>3, <2>1, FS_CardinalityType DEF logout
  <2>3. n' \in 0..MaxId
    BY <2>2, MaxIdAssumption DEF logout, IInv, TypeOK
  <2>4. sockets(live \ {id}) \in SUBSET (Fds \cup {NoFd})
    BY DEF sockets, IInv, TypeOK, live
  <2>5. event' \in Events
    <3>1. nickname[id] \in AllNames /\ {id} \in SUBSET (0..MaxId)
      BY <1>1, MaxIdAssumption DEF IInv, TypeOK, Ids
    <3>2. event' = [kind |-> "left", by |-> fd, name |-> nickname[id],
                    ids |-> {id}, to |-> sockets(live \ {id})]
      BY DEF logout
    <3> QED
      BY <2>4, <3>1, <3>2 DEF Events, Kinds
  <2> QED
    BY <1>1, <2>3, <2>5 DEF logout, IInv, TypeOK
<1>5. FirstMatchIsLive' /\ NoTwins'
  BY <1>2 DEF logout, IInv, FirstMatchIsLive, NoTwins
<1>6. ClientHasSlot'
  BY <1>1, <1>2 DEF logout, IInv, ClientHasSlot
<1>7. SlotHasClient'
  BY <1>1, <1>2 DEF logout, IInv, SlotHasClient
<1>8. CountIsExact'
  BY <1>3 DEF logout, CountIsExact
<1> QED
  BY <1>4, <1>5, <1>6, <1>7, <1>8 DEF IInv

(* name changes the client's own slot, to a name no used slot has.              *)
LEMMA NameIInv ==
    ASSUME IInv, NEW fd \in Fds, NEW newname \in Names, name(fd, newname)
    PROVE  IInv'
<1> DEFINE id == socketfd_to_id(fd)
<1>1. id = client[fd].id /\ id \in live /\ id \in Ids /\ fd \in socket_all
  BY SocketOfClient DEF name, IInv, live
<1>2. live' = live /\ UNCHANGED <<id_record, socketfd, n, socket_all>>
  BY DEF name, live
<1>3. \A S \in SUBSET Ids : sockets(S) \in SUBSET (Fds \cup {NoFd})
  BY DEF sockets, IInv, TypeOK
<1>4. {id} \in SUBSET Ids /\ live \in SUBSET Ids
  BY <1>1 DEF live
<1>5. CASE /\ \A i \in live : nickname[i] # newname
           /\ nickname' = [nickname EXCEPT ![id] = newname]
           /\ client' = [client EXCEPT ![fd].name = newname]
           /\ event' = [kind |-> "named", by |-> fd, name |-> newname,
                        ids |-> {id}, to |-> sockets(live)]
  <2>1. event' \in Events
    BY <1>1, <1>3, <1>4, <1>5, MaxIdAssumption DEF Events, Kinds, AllNames, Ids
  <2>2. TypeOK'
    BY <1>1, <1>2, <1>5, <2>1 DEF IInv, TypeOK, AllNames
  <2>3. FirstMatchIsLive' /\ CountIsExact'
    BY <1>2 DEF IInv, FirstMatchIsLive, CountIsExact
  <2>4. ClientHasSlot'
    BY <1>1, <1>2, <1>5 DEF IInv, TypeOK, ClientHasSlot
  <2>5. SlotHasClient'
    BY <1>1, <1>2, <1>5 DEF IInv, TypeOK, SlotHasClient
  <2>6. NoTwins'
    BY <1>1, <1>2, <1>5 DEF IInv, TypeOK, NoTwins, live
  <2> QED
    BY <2>2, <2>3, <2>4, <2>5, <2>6 DEF IInv
<1>6. CASE /\ event' = [kind |-> "taken", by |-> fd, name |-> newname,
                        ids |-> {id}, to |-> sockets({id})]
           /\ UNCHANGED <<nickname, client>>
  <2>1. event' \in Events
    BY <1>1, <1>3, <1>4, <1>6, MaxIdAssumption DEF Events, Kinds, AllNames, Ids
  <2> QED
    BY <1>2, <1>6, <2>1
    DEF IInv, TypeOK, FirstMatchIsLive, ClientHasSlot, SlotHasClient, NoTwins,
        CountIsExact
<1> QED
  BY <1>5, <1>6 DEF name

(* yell, tell and who only print.                                               *)
LEMMA TalkIInv ==
    ASSUME IInv, NEW fd \in Fds,
           broadcast(fd) \/ (\E receiver \in Ids : tell(fd, receiver)) \/ who(fd)
    PROVE  IInv'
<1>1. fd \in socket_all /\ UNCHANGED <<table, socket_all, client>>
  BY DEF broadcast, tell, who
<1> DEFINE id == socketfd_to_id(fd)
<1>2. id \in live /\ id \in Ids
  BY <1>1, SocketOfClient DEF IInv, live
<1>3. \A S \in SUBSET Ids : sockets(S) \in SUBSET (Fds \cup {NoFd})
  BY DEF sockets, IInv, TypeOK
<1>4. live \in SUBSET Ids /\ Ids \subseteq 0..MaxId
  BY MaxIdAssumption DEF live, Ids
<1>5. nickname[id] \in AllNames
  BY <1>2 DEF IInv, TypeOK
<1>6. event' \in Events
  <2>1. CASE broadcast(fd)
    BY <1>2, <1>3, <1>4, <1>5, <2>1 DEF broadcast, Events, Kinds
  <2>2. ASSUME NEW receiver \in Ids, tell(fd, receiver) PROVE event' \in Events
    <3>1. {receiver} \in SUBSET Ids /\ {id} \in SUBSET Ids
      BY <1>2
    <3> QED
      BY <1>3, <1>4, <1>5, <2>2, <3>1 DEF tell, Events, Kinds
  <2>3. CASE who(fd)
    BY <1>4, <1>5, <2>3 DEF who, Events, Kinds
  <2> QED
    BY <2>1, <2>2, <2>3
<1> QED
  BY <1>1, <1>6
  DEF table, IInv, TypeOK, FirstMatchIsLive, ClientHasSlot, SlotHasClient,
      NoTwins, CountIsExact, live

LEMMA NextIInv == IInv /\ [Next]_vars => IInv'
<1> SUFFICES ASSUME IInv, [Next]_vars PROVE IInv'
  OBVIOUS
<1>1. ASSUME NEW fd \in Fds, login(fd) PROVE IInv'
  BY <1>1, LoginIInv
<1>2. ASSUME NEW fd \in Fds, logout(fd) PROVE IInv'
  BY <1>2, LogoutIInv
<1>3. ASSUME NEW fd \in Fds, NEW newname \in Names, name(fd, newname) PROVE IInv'
  BY <1>3, NameIInv
<1>4. ASSUME NEW fd \in Fds, broadcast(fd) PROVE IInv'
  BY <1>4, TalkIInv
<1>5. ASSUME NEW fd \in Fds, NEW receiver \in Ids, tell(fd, receiver) PROVE IInv'
  BY <1>5, TalkIInv
<1>6. ASSUME NEW fd \in Fds, who(fd) PROVE IInv'
  BY <1>6, TalkIInv
<1>7. CASE UNCHANGED vars
  BY <1>7
  DEF vars, IInv, TypeOK, FirstMatchIsLive, ClientHasSlot, SlotHasClient, NoTwins,
      CountIsExact, live
<1> QED
  BY <1>1, <1>2, <1>3, <1>4, <1>5, <1>6, <1>7 DEF Next

(* No lower slot, stale or live, has the descriptor of a live one; slots in use *)
(* and clients are the same; names and the count are right.                     *)
THEOREM InductiveInvariant == Spec => []IInv
BY InitIInv, NextIInv, PTL DEF Spec

-----------------------------------------------------------------------------
(* The table keeps its shape: in particular a login never falls off the end of  *)
(* user[31], whatever the order of logins and logouts.                          *)
THEOREM TypeCorrect == Spec => []TypeOK
<1>1. IInv => TypeOK
  BY DEF IInv
<1> QED
  BY <1>1, InductiveInvariant, PTL

(* socketfd_to_id answers the id of the client that the socket belongs to, for  *)
(* every history of reused ids and descriptors.                                 *)
THEOREM SocketsResolve == Spec => []SocketResolves
<1>1. IInv => SocketResolves
  BY SocketOfClient DEF IInv, SocketResolves
<1> QED
  BY <1>1, InductiveInvariant, PTL

(* The ids in use are those of the connected clients.                           *)
THEOREM TableIsRight == Spec => []TableMatchesClients
<1>1. IInv => TableMatchesClients
  BY DEF IInv, TableMatchesClients, ClientHasSlot, SlotHasClient
<1> QED
  BY <1>1, InductiveInvariant, PTL

(* total_member is the number of ids in use.                                    *)
THEOREM CountIsRight == Spec => []CountIsExact
<1>1. IInv => CountIsExact
  BY DEF IInv
<1> QED
  BY <1>1, InductiveInvariant, PTL

(* Nicknames are unique and each user has the one it was given.                 *)
THEOREM NicknamesAreRight == Spec => []NicknamesAreOwned
<1>1. IInv => NicknamesAreOwned
  BY DEF IInv, NicknamesAreOwned, ClientHasSlot, NoTwins
<1> QED
  BY <1>1, InductiveInvariant, PTL

-----------------------------------------------------------------------------
(* What one operation prints, from the state that it found.  Each case names    *)
(* the record that the operation builds; sockets(live) is socket_all.           *)
LEMMA StepDelivers ==
    ASSUME IInv, Next
    PROVE  DeliveryIsExact' /\ SpeaksForItself'
<1> USE DEF DeliveryIsExact, SpeaksForItself, DeliveredTo, SpeaksAs
<1>1. IInv'
  BY NextIInv
<1>2. sockets(live) = socket_all
  BY SocketsOfLive DEF IInv
<1>3. ASSUME NEW fd \in socket_all
      PROVE  LET id == socketfd_to_id(fd) IN
             /\ id = client[fd].id /\ id \in live
             /\ socketfd[id] = fd /\ nickname[id] = client[fd].name
  BY <1>3, SocketOfClient DEF IInv, ClientHasSlot
<1>4. ASSUME NEW fd \in Fds, login(fd)
      PROVE  DeliveryIsExact' /\ SpeaksForItself'
  <2> PICK id \in 1..(MaxId + 1) :
          /\ find_id(id)
          /\ id_record' = [id_record EXCEPT ![id] = TRUE]
          /\ event' = [kind |-> "entered", by |-> fd, name |-> NoName,
                       ids |-> {id}, to |-> {socketfd'[i] : i \in live \cup {id}}]
    BY <1>4 DEF login
  <2>1. id \in Ids
    BY <1>4, FreeIdExists DEF login, IInv
  <2>2. live' = live \cup {id}
    BY <2>1 DEF live, IInv, TypeOK
  <2>3. {socketfd'[i] : i \in live'} = socket_all'
    BY <1>1 DEF IInv, ClientHasSlot, SlotHasClient
  <2> QED
    BY <2>2, <2>3
<1>5. ASSUME NEW fd \in Fds, logout(fd)
      PROVE  DeliveryIsExact' /\ SpeaksForItself'
  <2> DEFINE id == socketfd_to_id(fd)
  <2>1. /\ fd \in socket_all
        /\ UNCHANGED <<socketfd, client>>
        /\ socket_all' = socket_all \ {fd}
        /\ id_record' = [id_record EXCEPT ![id] = FALSE]
        /\ event' = [kind |-> "left", by |-> fd, name |-> nickname[id],
                     ids |-> {id}, to |-> sockets(live \ {id})]
    BY <1>5 DEF logout
  <2>2. live' = live \ {id}
    BY <1>3, <2>1 DEF live, IInv, TypeOK
  <2>3. {socketfd'[i] : i \in live'} = socket_all'
    BY <1>1 DEF IInv, ClientHasSlot, SlotHasClient
  <2>4. sockets(live \ {id}) = socket_all'
    BY <2>1, <2>2, <2>3 DEF sockets
  <2> QED
    BY <1>3, <2>1, <2>4
<1>6. ASSUME NEW fd \in Fds, NEW newname \in Names, name(fd, newname)
      PROVE  DeliveryIsExact' /\ SpeaksForItself'
  <2> DEFINE id == socketfd_to_id(fd)
  <2>1. fd \in socket_all /\ UNCHANGED socket_all
    BY <1>6 DEF name
  <2>2. CASE event' = [kind |-> "named", by |-> fd, name |-> newname,
                       ids |-> {id}, to |-> sockets(live)]
    BY <1>2, <2>1, <2>2
  <2>3. CASE event' = [kind |-> "taken", by |-> fd, name |-> newname,
                       ids |-> {id}, to |-> sockets({id})]
    BY <1>3, <2>1, <2>3 DEF sockets
  <2> QED
    BY <1>6, <2>2, <2>3 DEF name
<1>7. ASSUME NEW fd \in Fds, broadcast(fd)
      PROVE  DeliveryIsExact' /\ SpeaksForItself'
  BY <1>2, <1>3, <1>7 DEF broadcast
<1>8. ASSUME NEW fd \in Fds, NEW receiver \in Ids, tell(fd, receiver)
      PROVE  DeliveryIsExact' /\ SpeaksForItself'
  <2> DEFINE id == socketfd_to_id(fd)
  <2>1. fd \in socket_all /\ UNCHANGED <<socket_all, client>>
    BY <1>8 DEF tell
  <2>2. CASE /\ receiver \in live
             /\ event' = [kind |-> "told", by |-> fd, name |-> nickname[id],
                          ids |-> {receiver}, to |-> sockets({receiver})]
    <3>1. sockets({receiver}) = {g \in socket_all : client[g].id \in {receiver}}
      BY <2>2 DEF sockets, IInv, ClientHasSlot, SlotHasClient
    <3> QED
      BY <1>3, <2>1, <2>2, <3>1
  <2>3. CASE event' = [kind |-> "nobody", by |-> fd, name |-> nickname[id],
                       ids |-> {receiver}, to |-> sockets({id})]
    BY <1>3, <2>1, <2>3 DEF sockets
  <2> QED
    BY <1>8, <2>2, <2>3 DEF tell
<1>9. ASSUME NEW fd \in Fds, who(fd)
      PROVE  DeliveryIsExact' /\ SpeaksForItself'
  <2>1. live = {client[g].id : g \in socket_all}
    BY DEF IInv, ClientHasSlot, SlotHasClient
  <2> QED
    BY <1>3, <1>9, <2>1 DEF who
<1> QED
  BY <1>4, <1>5, <1>6, <1>7, <1>8, <1>9 DEF Next

(* Every message reaches exactly the clients that it is for.                    *)
THEOREM DeliveryIsRight == Spec => []DeliveryIsExact
<1>1. Init => DeliveryIsExact
  BY DEF Init, Silence, DeliveryIsExact, DeliveredTo
<1>2. IInv /\ DeliveryIsExact /\ [Next]_vars => DeliveryIsExact'
  BY StepDelivers DEF vars, DeliveryIsExact, DeliveredTo
<1> QED
  BY <1>1, <1>2, InductiveInvariant, PTL DEF Spec

(* What is printed in a client's name carries that client's nickname.           *)
THEOREM SpeechIsRight == Spec => []SpeaksForItself
<1>1. Init => SpeaksForItself
  BY DEF Init, Silence, SpeaksForItself, SpeaksAs
<1>2. IInv /\ SpeaksForItself /\ [Next]_vars => SpeaksForItself'
  BY StepDelivers DEF vars, SpeaksForItself, SpeaksAs
<1> QED
  BY <1>1, <1>2, InductiveInvariant, PTL DEF Spec

(* No step changes another user's nickname.                                     *)
THEOREM NamesAreOwn == Spec => OthersKeepTheirNames
<1>1. ASSUME IInv, Next PROVE OwnNameOnly
  <2> SUFFICES ASSUME NEW i \in Ids, nickname'[i] # nickname[i]
               PROVE  /\ event'.kind \in {"entered", "named"}
                      /\ client'[event'.by].id = i
    BY DEF OwnNameOnly
  <2>1. ASSUME NEW fd \in Fds, login(fd)
        PROVE  event'.kind = "entered" /\ client'[event'.by].id = i
    BY <1>1, <2>1 DEF login, IInv, TypeOK
  <2>2. ASSUME NEW fd \in Fds, NEW newname \in Names, name(fd, newname)
        PROVE  event'.kind = "named" /\ client'[event'.by].id = i
    <3>1. fd \in socket_all /\ socketfd_to_id(fd) = client[fd].id
      BY <1>1, <2>2, SocketOfClient DEF name, IInv
    <3> QED
      BY <1>1, <2>2, <3>1 DEF name, IInv, TypeOK
  <2>3. ~ UNCHANGED nickname
    OBVIOUS
  <2> QED
    BY <1>1, <2>1, <2>2, <2>3 DEF Next, logout, broadcast, tell, who, table
<1>2. IInv /\ [Next]_vars => [OwnNameOnly]_vars
  BY <1>1
<1> QED
  BY <1>2, InductiveInvariant, PTL DEF Spec, OthersKeepTheirNames

-----------------------------------------------------------------------------
(* The loop over the table, for any number of ids, descriptors, names and       *)
(* connections.  A pass of the loop changes the table by the table's own steps: *)
(* what is shown above of the table holds inside the loop.  The                *)
(* snapshot of select stays good for a reason of two parts: a descriptor is     *)
(* removed from the set that select watches only when it is served itself, and  *)
(* what waits to be read is taken only by the turn that reads it.               *)

LoopIInv ==
    /\ IInv
    /\ LoopTypeOK
    /\ NeverBlocks
    /\ PromptOrLine

-----------------------------------------------------------------------------
(* Every step of the loop is one of the table, or leaves the table alone.       *)
LEMMA LoopStepIsTableStep == [LoopNext]_loopVars => [Next]_vars
<1> SUFFICES ASSUME LoopNext PROVE [Next]_vars
  BY DEF loopVars
<1>1. CASE Connect
  BY <1>1 DEF Connect
<1>2. ASSUME NEW fd \in Fds, Type(fd) PROVE [Next]_vars
  BY <1>2 DEF Type
<1>3. CASE Select
  BY <1>3 DEF Select
<1>4. CASE LeaveWaiting
  BY <1>4 DEF LeaveWaiting
<1>5. ASSUME NEW fd \in Fds, AcceptClient(fd) PROVE Next
  BY <1>5 DEF AcceptClient, Next
<1>6. ASSUME NEW fd \in Fds, ServeLine(fd) \/ RunCommand(fd) PROVE [Next]_vars
  BY <1>6 DEF ServeLine, RunCommand, Does, Next
<1>7. ASSUME NEW fd \in Fds, ServeExit(fd) PROVE Next
  BY <1>7 DEF ServeExit, Next
<1>8. ASSUME NEW fd \in Fds, CommandEnds(fd) PROVE UNCHANGED vars
  BY <1>8 DEF CommandEnds
<1> QED
  BY <1>1, <1>2, <1>3, <1>4, <1>5, <1>6, <1>7, <1>8 DEF LoopNext, Server

(* The loop implements the table: every theorem about Spec is one about         *)
(* LoopSpec.                                                                    *)
THEOREM LoopImplementsTable == LoopSpec => Spec
<1>1. LoopInit => Init
  BY DEF LoopInit
<1> QED
  BY <1>1, LoopStepIsTableStep, PTL DEF LoopSpec, Spec

-----------------------------------------------------------------------------
LEMMA LoopInitIInv == LoopInit => LoopIInv
<1> SUFFICES ASSUME LoopInit PROVE LoopIInv
  OBVIOUS
<1>1. IInv
  BY InitIInv DEF LoopInit
<1>2. socket_all = {} /\ TypeOK
  BY <1>1 DEF LoopInit, Init, IInv
<1>3. LoopTypeOK
  <2>1. pass = (socket_writen # {})
    BY DEF LoopInit
  <2> QED
    BY <1>2, <2>1, LoopAssumption DEF LoopInit, LoopTypeOK
<1>4. NeverBlocks /\ PromptOrLine
  BY <1>2 DEF LoopInit, NeverBlocks, PromptOrLine
<1> QED
  BY <1>1, <1>3, <1>4 DEF LoopIInv

(* accept: the connection that was seen is still there, and what the descriptor *)
(* was before has left nothing behind.                                          *)
LEMMA AcceptLoopIInv ==
    ASSUME LoopIInv, NEW fd \in Fds, AcceptClient(fd)
    PROVE  (LoopTypeOK /\ NeverBlocks /\ PromptOrLine)'
<1>1. TypeOK'
  BY LoginIInv DEF LoopIInv, AcceptClient, IInv
<1>2. server_sockfd \in socket_writen /\ server_sockfd \notin Fds
  BY LoopAssumption DEF AcceptClient, Turn, server_sockfd
<1>3. backlog \in 1..MaxWaiting /\ backlog' \in 0..MaxWaiting
  <2>1. backlog > 0
    BY <1>2 DEF LoopIInv, NeverBlocks, LoopTypeOK, TypeOK
  <2> QED
    BY <2>1, LoopAssumption DEF LoopIInv, LoopTypeOK, AcceptClient
<1>4. /\ socket_all' = socket_all \cup {fd}
      /\ fd \notin socket_all
      /\ open' = open \cup {fd}
      /\ inbox' = inbox
      /\ prompt' = [prompt EXCEPT ![fd] = TRUE]
      /\ socket_writen' = socket_writen \ {server_sockfd}
      /\ pass' = (socket_writen' # {})
      /\ awaited = NoFd /\ awaited' = NoFd
  BY DEF AcceptClient, login, Served, Turn
<1>5. LoopTypeOK'
  BY <1>1, <1>3, <1>4 DEF LoopIInv, LoopTypeOK
<1>6. NeverBlocks'
  BY <1>4 DEF LoopIInv, NeverBlocks
<1>7. PromptOrLine'
  BY <1>4 DEF LoopIInv, PromptOrLine, LoopTypeOK
<1> QED
  BY <1>5, <1>6, <1>7

(* A prompt for fd, which nobody waits for any more.                            *)
LEMMA PromptLoopIInv ==
    ASSUME LoopIInv, TypeOK', NEW fd \in Fds, Prompt(fd), awaited' = NoFd,
           fd \in socket_all, socket_all' = socket_all
    PROVE  (LoopTypeOK /\ NeverBlocks /\ PromptOrLine)'
<1>1. /\ inbox' = [inbox EXCEPT ![fd] = "empty"]
      /\ prompt' = [prompt EXCEPT ![fd] = TRUE]
      /\ socket_writen' = socket_writen \ {fd}
      /\ pass' = (socket_writen' # {})
      /\ open' = open /\ backlog' = backlog
  BY DEF Prompt, Served
<1>2. LoopTypeOK'
  BY <1>1 DEF LoopIInv, LoopTypeOK
<1>3. NeverBlocks'
  BY <1>1 DEF LoopIInv, NeverBlocks, LoopTypeOK
<1>4. PromptOrLine'
  BY <1>1 DEF LoopIInv, PromptOrLine, LoopTypeOK
<1> QED
  BY <1>2, <1>3, <1>4

LEMMA LineLoopIInv ==
    ASSUME LoopIInv, NEW fd \in Fds, Turn(fd), Does(fd), TypeOK',
           ServeLine(fd) \/ RunCommand(fd)
    PROVE  (LoopTypeOK /\ NeverBlocks /\ PromptOrLine)'
<1>1. socket_all' = socket_all
  BY DEF Does, name, broadcast, tell, who, vars
<1>2. fd \in socket_writen /\ fd # server_sockfd /\ fd \in socket_all
  <2>1. fd \in socket_writen /\ fd # server_sockfd
    BY LoopAssumption DEF Turn, server_sockfd
  <2> QED
    BY <2>1 DEF LoopIInv, NeverBlocks
<1>3. CASE ServeLine(fd)
  BY <1>1, <1>2, <1>3, PromptLoopIInv DEF ServeLine, Turn
<1>4. CASE RunCommand(fd)
  <2>1. /\ inbox[fd] = "line" /\ awaited' = fd
        /\ UNCHANGED <<socket_writen, pass, open, backlog, inbox, prompt>>
    BY <1>4 DEF RunCommand
  <2>2. LoopTypeOK'
    BY <2>1 DEF LoopIInv, LoopTypeOK
  <2>3. NeverBlocks'
    BY <1>1, <1>2, <2>1 DEF LoopIInv, NeverBlocks, LoopTypeOK
  <2>4. PromptOrLine'
    BY <1>1, <2>1 DEF LoopIInv, PromptOrLine, LoopTypeOK
  <2> QED
    BY <2>2, <2>3, <2>4
<1> QED
  BY <1>3, <1>4

(* exit: the one descriptor that leaves the set has just left the copy.         *)
LEMMA ExitLoopIInv ==
    ASSUME LoopIInv, NEW fd \in Fds, ServeExit(fd)
    PROVE  (LoopTypeOK /\ NeverBlocks /\ PromptOrLine)'
<1>1. fd \in socket_all /\ socket_all' = socket_all \ {fd}
  BY DEF ServeExit, logout
<1>2. TypeOK'
  BY LogoutIInv DEF LoopIInv, ServeExit, IInv
<1>3. /\ inbox[fd] = "exit"
      /\ inbox' = [inbox EXCEPT ![fd] = "empty"]
      /\ prompt' = prompt
      /\ socket_writen' = socket_writen \ {fd}
      /\ pass' = (socket_writen' # {})
      /\ open' = open \ {fd} /\ backlog' = backlog
      /\ awaited = NoFd /\ awaited' = NoFd
  BY DEF ServeExit, Served, Turn
<1>4. LoopTypeOK'
  BY <1>2, <1>3 DEF LoopIInv, LoopTypeOK
<1>5. NeverBlocks'
  BY <1>1, <1>3 DEF LoopIInv, NeverBlocks, LoopTypeOK
<1>6. PromptOrLine'
  BY <1>1, <1>3 DEF LoopIInv, PromptOrLine, LoopTypeOK
<1> QED
  BY <1>4, <1>5, <1>6

LEMMA LoopNextIInv == LoopIInv /\ [LoopNext]_loopVars => LoopIInv'
<1> SUFFICES ASSUME LoopIInv, [LoopNext]_loopVars PROVE LoopIInv'
  OBVIOUS
<1>1. IInv'
  BY LoopStepIsTableStep, NextIInv DEF LoopIInv
<1>2. TypeOK'
  BY <1>1 DEF IInv
<1>3. CASE Connect
  BY <1>1, <1>2, <1>3, LoopAssumption
  DEF Connect, LoopIInv, LoopTypeOK, NeverBlocks, PromptOrLine, vars
<1>4. ASSUME NEW fd \in Fds, Type(fd) PROVE LoopIInv'
  <2>1. /\ socket_all' = socket_all /\ socket_writen' = socket_writen
        /\ pass' = pass /\ open' = open /\ backlog' = backlog
        /\ prompt' = [prompt EXCEPT ![fd] = FALSE]
        /\ prompt[fd] /\ awaited' = awaited
    BY <1>4 DEF Type, vars
  <2>2. PICK l \in Lines : inbox' = [inbox EXCEPT ![fd] = l]
    BY <1>4 DEF Type
  <2>3. l # "empty"
    BY DEF Lines
  <2>4. LoopTypeOK'
    BY <1>2, <2>1, <2>2 DEF LoopIInv, LoopTypeOK
  <2>5. NeverBlocks'
    <3>1. awaited # NoFd => awaited # fd
      BY <2>1 DEF LoopIInv, NeverBlocks, PromptOrLine
    <3>2. \A g \in Fds : inbox'[g] = IF g = fd THEN l ELSE inbox[g]
      BY <2>2 DEF LoopIInv, LoopTypeOK
    <3>3. awaited # NoFd => awaited \in Fds
      BY DEF LoopIInv, LoopTypeOK
    <3> QED
      BY <2>1, <2>3, <3>1, <3>2, <3>3 DEF LoopIInv, LoopTypeOK, TypeOK, NeverBlocks
  <2>6. PromptOrLine'
    BY <2>1, <2>2, <2>3 DEF LoopIInv, LoopTypeOK, PromptOrLine
  <2> QED
    BY <1>1, <2>4, <2>5, <2>6 DEF LoopIInv
<1>5. CASE Select
  <2>1. /\ socket_all' = socket_all /\ open' = open /\ backlog' = backlog
        /\ inbox' = inbox /\ prompt' = prompt
        /\ socket_writen' = Readable /\ Readable # {} /\ pass' = TRUE
        /\ awaited = NoFd /\ awaited' = NoFd
    BY <1>5 DEF Select, vars
  <2>2. LoopTypeOK'
    BY <1>2, <2>1 DEF LoopIInv, LoopTypeOK, Readable, TypeOK
  <2> QED
    BY <1>1, <2>1, <2>2 DEF LoopIInv, NeverBlocks, PromptOrLine, Readable
<1>6. CASE LeaveWaiting
  BY <1>1, <1>2, <1>6
  DEF LeaveWaiting, Turn, Served, LoopIInv, LoopTypeOK, NeverBlocks, PromptOrLine, vars
<1>7. ASSUME NEW fd \in Fds, AcceptClient(fd) PROVE LoopIInv'
  BY <1>1, <1>7, AcceptLoopIInv DEF LoopIInv
<1>8. ASSUME NEW fd \in Fds, ServeLine(fd) \/ RunCommand(fd) PROVE LoopIInv'
  BY <1>1, <1>2, <1>8, LineLoopIInv DEF LoopIInv, ServeLine, RunCommand
<1>9. ASSUME NEW fd \in Fds, ServeExit(fd) PROVE LoopIInv'
  BY <1>1, <1>9, ExitLoopIInv DEF LoopIInv
<1>10. CASE UNCHANGED loopVars
  BY <1>1, <1>2, <1>10
  DEF loopVars, loop, LoopIInv, LoopTypeOK, NeverBlocks, PromptOrLine, vars
<1>11. ASSUME NEW fd \in Fds, CommandEnds(fd) PROVE LoopIInv'
  <2>1. fd # NoFd /\ fd \in socket_all /\ socket_all' = socket_all
    BY <1>11, NoFdAssumption DEF CommandEnds, LoopIInv, NeverBlocks, vars
  <2> QED
    BY <1>1, <1>2, <1>11, <2>1, PromptLoopIInv DEF CommandEnds, LoopIInv
<1> QED
  BY <1>3, <1>4, <1>5, <1>6, <1>7, <1>8, <1>9, <1>10, <1>11 DEF LoopNext, Server

(* The invariant of the table and what the copy of the socket set, the lines    *)
(* that wait and the descriptors still to be served say of each other.          *)
THEOREM LoopInductiveInvariant == LoopSpec => []LoopIInv
BY LoopInitIInv, LoopNextIInv, PTL DEF LoopSpec

-----------------------------------------------------------------------------
(* The loop and the table keep their shapes.                                    *)
THEOREM LoopTypeCorrect == LoopSpec => []LoopTypeOK
<1>1. LoopIInv => LoopTypeOK
  BY DEF LoopIInv
<1> QED
  BY <1>1, LoopInductiveInvariant, PTL

(* select never fails for a closed descriptor, and recv and accept never block: *)
(* however old the snapshot is and whatever was served before.  The server      *)
(* waits for commands of connected clients and for nothing else.                *)
THEOREM LoopNeverBlocks == LoopSpec => []NeverBlocks
<1>1. LoopIInv => NeverBlocks
  BY DEF LoopIInv
<1> QED
  BY <1>1, LoopInductiveInvariant, PTL

(* A client is asked for a line exactly when none of it waits.                  *)
THEOREM LoopAsksInTurn == LoopSpec => []PromptOrLine
<1>1. LoopIInv => PromptOrLine
  BY DEF LoopIInv
<1> QED
  BY <1>1, LoopInductiveInvariant, PTL

-----------------------------------------------------------------------------
LEMMA SameCardinality == \A S : Fair!Cardinality(S) = Cardinality(S)
BY DEF Cardinality, Fair!Cardinality

(* There are as many clients as ids in use.                                     *)
LEMMA CountIsClients ==
    ASSUME IInv
    PROVE  n = Cardinality(socket_all)
<1> DEFINE f == [i \in live |-> socketfd[i]]
<1>1. f \in Bijection(live, socket_all)
  <2>1. f \in [live -> socket_all]
    BY DEF IInv, SlotHasClient
  <2>2. \A i, j \in live : f[i] = f[j] => i = j
    BY DEF IInv, SlotHasClient
  <2>3. \A fd \in socket_all : \E i \in live : f[i] = fd
    BY DEF IInv, ClientHasSlot
  <2> QED
    BY <2>1, <2>2, <2>3, Fun_IsBij
<1>2. Cardinality(live) = Cardinality(socket_all)
  BY <1>1, LiveIsFinite, FS_Bijection DEF ExistsBijection
<1> QED
  BY <1>2 DEF IInv, CountIsExact

(* The safety half of the refinement: hidden behind select's copy and the       *)
(* table, every step of the loop is one of a server that accepts while there is *)
(* room and answers one line, or is invisible to its clients.                   *)
THEOREM LoopIsServer == LoopSpec => Fair!Safety
<1>1. LoopInit => Fair!Init
  BY DEF LoopInit, Init, Fair!Init
<1>2. LoopIInv /\ [LoopNext]_loopVars => [Fair!Next]_(Fair!vars)
  <2> SUFFICES ASSUME LoopIInv, [LoopNext]_loopVars PROVE [Fair!Next]_(Fair!vars)
    OBVIOUS
  <2>1. CASE Connect
    BY <2>1 DEF Connect, Fair!Next, Fair!Connect, vars
  <2>2. ASSUME NEW fd \in Fds, Type(fd) PROVE Fair!Next
    BY <2>2 DEF Type, Fair!Next, Fair!Type, Fair!Lines, Lines, vars
  <2>3. CASE Select \/ LeaveWaiting
    BY <2>3 DEF Select, LeaveWaiting, Fair!vars, vars
  <2>4. ASSUME NEW fd \in Fds, AcceptClient(fd) PROVE Fair!Next
    <3>1. backlog > 0
      BY <2>4, LoopAssumption
      DEF AcceptClient, Turn, LoopIInv, NeverBlocks, LoopTypeOK, TypeOK, server_sockfd
    <3>2. Cardinality(socket_all) < MaxId
      BY <2>4, CountIsClients DEF AcceptClient, login, LoopIInv
    <3>3. Fair!Accept
      BY <2>4, <3>1, <3>2, SameCardinality DEF AcceptClient, login, Fair!Accept
    <3> QED
      BY <3>3 DEF Fair!Next
  <2>5. ASSUME NEW fd \in Fds, ServeLine(fd) PROVE Fair!Next
    <3>1. socket_all' = socket_all
      BY <2>5 DEF ServeLine, Does, name, broadcast, tell, who, vars
    <3>2. fd \in socket_all
      BY <2>5, LoopAssumption
      DEF ServeLine, Turn, LoopIInv, NeverBlocks, server_sockfd
    <3>3. Fair!Answer(fd)
      BY <2>5, <3>1, <3>2 DEF ServeLine, Prompt, Fair!Answer
    <3> QED
      BY <3>3 DEF Fair!Next
  <2>6. ASSUME NEW fd \in Fds, ServeExit(fd) PROVE Fair!Next
    <3>1. Fair!Answer(fd)
      BY <2>6 DEF ServeExit, logout, Fair!Answer
    <3> QED
      BY <3>1 DEF Fair!Next
  <2>7. CASE UNCHANGED loopVars
    BY <2>7 DEF loopVars, loop, vars, Fair!vars
  <2>8. ASSUME NEW fd \in Fds, RunCommand(fd) PROVE UNCHANGED Fair!vars
    BY <2>8 DEF RunCommand, Does, name, broadcast, tell, who, vars, Fair!vars
  <2>9. ASSUME NEW fd \in Fds, CommandEnds(fd) PROVE Fair!Next
    <3>1. fd \in socket_all /\ socket_all' = socket_all /\ inbox[fd] = "line"
      BY <2>9, NoFdAssumption DEF CommandEnds, LoopIInv, NeverBlocks, vars
    <3>2. Fair!Answer(fd)
      BY <2>9, <3>1 DEF CommandEnds, Prompt, Fair!Answer
    <3> QED
      BY <3>2 DEF Fair!Next
  <2> QED
    BY <2>1, <2>2, <2>3, <2>4, <2>5, <2>6, <2>7, <2>8, <2>9 DEF LoopNext, Server
<1> QED
  BY <1>1, <1>2, LoopInductiveInvariant, PTL DEF LoopSpec, Fair!Safety

-----------------------------------------------------------------------------
(* The pipes filed under ids, for any number of ids, descriptors, names and     *)
(* numbers.  Both searches of user_pipe look for a pair and stop at the first   *)
(* record: OnePipePerPair is inductive once it is known that records are pairs  *)
(* of ids, since a refused or a read pipe leaves the others as they were.  That *)
(* a line stays within its user's pipes needs the table: the id that            *)
(* socketfd_to_id finds is the one its client was given.                        *)

Records == [sender : Ids, receiver : Ids]
Distinct(q) == \A k, l \in 1..Len(q) : q[k] = q[l] => k = l

PipesIInv ==
    /\ IInv
    /\ PipesTypeOK
    /\ OnePipePerPair

-----------------------------------------------------------------------------
(* Taking a record out leaves the others, and each of them once.                *)
LEMMA RemoveRecord ==
    ASSUME NEW q \in Seq(Records), Distinct(q), NEW k \in 1..Len(q)
    PROVE  /\ RemoveAt(q, k) \in Seq(Records)
           /\ Distinct(RemoveAt(q, k))
           /\ \A s, r \in Ids : [sender |-> s, receiver |-> r] # q[k] =>
                (PipeAt(RemoveAt(q, k), s, r) = {} <=> PipeAt(q, s, r) = {})
<1> DEFINE a == SubSeq(q, 1, k - 1)
           b == SubSeq(q, k + 1, Len(q))
           t == RemoveAt(q, k)
<1>0. Len(q) \in Nat /\ \A i \in 1..Len(q) : q[i] \in Records
  BY LenProperties, ElementOfSeq
<1>1. /\ a \in Seq(Records) /\ Len(a) = k - 1
      /\ \A i \in 1..(k - 1) : a[i] = q[i]
  <2>1. \A i \in 1..(k - 1) : q[i] \in Records
    BY <1>0
  <2>2. /\ a \in Seq(Records)
        /\ Len(a) = IF 1 <= k - 1 THEN (k - 1) - 1 + 1 ELSE 0
        /\ \A i \in 1..((k - 1) - 1 + 1) : a[i] = q[1 + i - 1]
    BY <2>1, SubSeqProperties
  <2> QED
    BY <2>2
<1>2. /\ b \in Seq(Records) /\ Len(b) = Len(q) - k
      /\ \A i \in 1..(Len(q) - k) : b[i] = q[k + i]
  <2>1. \A i \in (k + 1)..Len(q) : q[i] \in Records
    BY <1>0
  <2>2. /\ b \in Seq(Records)
        /\ Len(b) = IF k + 1 <= Len(q) THEN Len(q) - (k + 1) + 1 ELSE 0
        /\ \A i \in 1..(Len(q) - (k + 1) + 1) : b[i] = q[(k + 1) + i - 1]
    BY <1>0, <2>1, SubSeqProperties
  <2> QED
    BY <1>0, <2>2
<1>3. /\ t \in Seq(Records) /\ Len(t) = Len(q) - 1
      /\ \A i \in 1..(Len(q) - 1) : t[i] = IF i < k THEN q[i] ELSE q[i + 1]
  <2>1. t = a \o b
    BY DEF RemoveAt
  <2>2. /\ a \o b \in Seq(Records) /\ Len(a \o b) = Len(a) + Len(b)
        /\ \A i \in 1..(Len(a) + Len(b)) :
                (a \o b)[i] = IF i <= Len(a) THEN a[i] ELSE b[i - Len(a)]
    BY <1>1, <1>2, ConcatProperties
  <2> HIDE DEF a, b, t
  <2>3. t \in Seq(Records) /\ Len(t) = Len(q) - 1
    BY <1>0, <1>1, <1>2, <2>1, <2>2
  <2>4. ASSUME NEW i \in 1..(Len(q) - 1)
        PROVE  t[i] = IF i < k THEN q[i] ELSE q[i + 1]
    <3>1. t[i] = IF i <= k - 1 THEN a[i] ELSE b[i - (k - 1)]
      BY <1>0, <1>1, <1>2, <2>1, <2>2
    <3>2. CASE i < k
      BY <1>0, <1>1, <3>1, <3>2
    <3>3. CASE ~(i < k)
      <4> DEFINE j == i - (k - 1)
      <4>1. j \in 1..(Len(q) - k) /\ k + j = i + 1 /\ ~(i <= k - 1)
        BY <1>0, <3>3
      <4>2. t[i] = b[j]
        BY <3>1, <4>1
      <4> HIDE DEF j
      <4>3. b[j] = q[k + j]
        BY <1>2, <4>1
      <4> QED
        BY <3>3, <4>1, <4>2, <4>3
    <3> QED
      BY <3>2, <3>3
  <2> QED
    BY <2>3, <2>4
<1> HIDE DEF t
<1>4. Distinct(t)
  BY <1>0, <1>3 DEF Distinct
<1>5. ASSUME NEW s \in Ids, NEW r \in Ids, [sender |-> s, receiver |-> r] # q[k]
      PROVE  PipeAt(t, s, r) = {} <=> PipeAt(q, s, r) = {}
  <2>1. q[k].sender # s \/ q[k].receiver # r
    BY <1>0, <1>5 DEF Records
  <2>2. ASSUME NEW i \in PipeAt(t, s, r) PROVE PipeAt(q, s, r) # {}
    <3>1. i \in 1..(Len(q) - 1) /\ t[i].sender = s /\ t[i].receiver = r
      BY <1>0, <1>3 DEF PipeAt
    <3>2. PICK j \in 1..Len(q) : t[i] = q[j]
      BY <1>0, <1>3, <3>1
    <3> QED
      BY <3>1, <3>2 DEF PipeAt
  <2>3. ASSUME NEW i \in PipeAt(q, s, r) PROVE PipeAt(t, s, r) # {}
    <3>1. i \in 1..Len(q) /\ i # k
      BY <2>1 DEF PipeAt
    <3>2. CASE i < k
      BY <1>0, <1>3, <3>1, <3>2 DEF PipeAt
    <3>3. CASE i > k
      <4>1. i - 1 \in 1..Len(t) /\ t[i - 1] = q[i]
        BY <1>0, <1>3, <3>1, <3>3
      <4> QED
        BY <4>1 DEF PipeAt
    <3> QED
      BY <1>0, <3>1, <3>2, <3>3
  <2> QED
    BY <2>2, <2>3
<1> QED
  BY <1>3, <1>4, <1>5 DEF t

(* `<sender` takes a record of that sender and this reader, or none.            *)
LEMMA ReadRecord ==
    ASSUME NEW q \in Seq(Records), Distinct(q), NEW id \in Ids, NEW sender
    PROVE  LET t == get_userpipe_read(q, id, sender) IN
           /\ t \in Seq(Records)
           /\ Distinct(t)
           /\ \A s, r \in Ids : PipeAt(q, s, r) = {} => PipeAt(t, s, r) = {}
           /\ \A s, r \in Ids :
                r # id /\ PipeAt(t, s, r) = {} => PipeAt(q, s, r) = {}
<1> DEFINE t == get_userpipe_read(q, id, sender)
           here == PipeAt(q, sender, id)
<1>1. CASE sender \in live /\ here # {}
  <2> DEFINE k == CHOOSE k \in here : \A l \in here : k <= l
  <2>1. \A i, j \in here : i = j
    <3>1. \A i \in 1..Len(q) : q[i] \in Records
      BY ElementOfSeq
    <3> QED
      BY <3>1 DEF PipeAt, Distinct, Records
  <2>2. \E i \in here : \A l \in here : i <= l
    <3>1. PICK i : i \in here
      BY <1>1
    <3>2. i <= i
      BY <3>1, LenProperties DEF PipeAt
    <3> QED
      BY <2>1, <3>1, <3>2
  <2>3. k \in here
    BY <2>2
  <2>4. t = RemoveAt(q, k)
    BY <1>1 DEF get_userpipe_read
  <2> HIDE DEF k, t
  <2>5. k \in 1..Len(q) /\ q[k].receiver = id
    BY <2>3 DEF PipeAt
  <2>6. \A s, r \in Ids :
            r # id \/ PipeAt(q, s, r) = {} => [sender |-> s, receiver |-> r] # q[k]
    BY <2>5 DEF PipeAt
  <2>7. t \in Seq(Records) /\ Distinct(t)
    BY <2>4, <2>5, RemoveRecord
  <2>8. \A s, r \in Ids : [sender |-> s, receiver |-> r] # q[k] =>
                (PipeAt(t, s, r) = {} <=> PipeAt(q, s, r) = {})
    BY <2>4, <2>5, RemoveRecord
  <2> QED
    BY <2>6, <2>7, <2>8 DEF t
<1>2. CASE ~(sender \in live /\ here # {})
  BY <1>2 DEF get_userpipe_read
<1> QED
  BY <1>1, <1>2

(* `>receiver` adds a record of this sender that was not there, or none.        *)
LEMMA AddRecord ==
    ASSUME NEW q \in Seq(Records), Distinct(q), NEW id \in Ids, NEW receiver
    PROVE  LET t == add_userpipe(q, id, receiver) IN
           /\ t \in Seq(Records)
           /\ Distinct(t)
           /\ \A s, r \in Ids : PipeAt(t, s, r) = {} => PipeAt(q, s, r) = {}
           /\ \A s, r \in Ids :
                s # id /\ PipeAt(q, s, r) = {} => PipeAt(t, s, r) = {}
<1> DEFINE t == add_userpipe(q, id, receiver)
           new == [sender |-> id, receiver |-> receiver]
<1>1. CASE receiver \in live /\ PipeAt(q, id, receiver) = {}
  <2>1. new \in Records
    BY <1>1 DEF live, Records
  <2>2. t = Append(q, new)
    BY <1>1 DEF add_userpipe
  <2>3. Len(q) \in Nat /\ \A i \in 1..Len(q) : q[i] \in Records
    BY LenProperties, ElementOfSeq
  <2> HIDE DEF t
  <2>4. /\ t \in Seq(Records) /\ Len(t) = Len(q) + 1
        /\ \A i \in 1..Len(q) : t[i] = q[i]
        /\ t[Len(q) + 1] = new
    BY <2>1, <2>2, <2>3, AppendProperties
  <2>5. \A i \in 1..Len(q) : q[i] # new
    BY <1>1 DEF PipeAt
  <2>6. Distinct(t)
    BY <2>3, <2>4, <2>5 DEF Distinct
  <2>7. ASSUME NEW s \in Ids, NEW r \in Ids
        PROVE  /\ PipeAt(t, s, r) = {} => PipeAt(q, s, r) = {}
               /\ s # id => PipeAt(t, s, r) = PipeAt(q, s, r)
    <3>1. PipeAt(q, s, r) \subseteq PipeAt(t, s, r)
      BY <2>3, <2>4 DEF PipeAt
    <3>2. s # id => PipeAt(t, s, r) \subseteq PipeAt(q, s, r)
      BY <2>3, <2>4 DEF PipeAt
    <3> QED
      BY <3>1, <3>2
  <2> QED
    BY <2>4, <2>6, <2>7 DEF t
<1>2. CASE ~(receiver \in live /\ PipeAt(q, id, receiver) = {})
  BY <1>2 DEF add_userpipe
<1> QED
  BY <1>1, <1>2

(* A count-down leaves numbers in range, those of other ids as they are.        *)
LEMMA CountedDown ==
    ASSUME PipesTypeOK, NEW id \in Ids, NEW skip \in 0..MaxSkip
    PROVE  /\ future_pipe_number_subone(id) \in [Ids -> SUBSET (-1..MaxSkip)]
           /\ FutureAfter(id, skip) \in [Ids -> SUBSET (-1..MaxSkip)]
           /\ \A i \in Ids \ {id} :
                /\ future_pipe_number_subone(id)[i] = future_pipe[i]
                /\ FutureAfter(id, skip)[i] = future_pipe[i]
<1> DEFINE sub == future_pipe_number_subone(id)
<1>1. future_pipe \in [Ids -> SUBSET (-1..MaxSkip)] /\ MaxSkip \in Nat
  BY MaxSkipAssumption DEF PipesTypeOK
<1>2. Decremented(future_pipe[id]) \subseteq -1..MaxSkip
  BY <1>1 DEF Decremented
<1>3. /\ sub \in [Ids -> SUBSET (-1..MaxSkip)]
      /\ \A i \in Ids \ {id} : sub[i] = future_pipe[i]
  BY <1>1, <1>2 DEF future_pipe_number_subone
<1> HIDE DEF sub
<1>4. (sub[id] \ {0}) \cup {k \in {skip} : k > 0} \in SUBSET (-1..MaxSkip)
  BY <1>1, <1>3
<1>5. FutureAfter(id, skip) =
        [sub EXCEPT ![id] = (sub[id] \ {0}) \cup {k \in {skip} : k > 0}]
  BY DEF FutureAfter, sub
<1> QED
  BY <1>3, <1>4, <1>5 DEF sub

-----------------------------------------------------------------------------
(* What a line of the user with that id does not touch.                         *)
OthersKept(id) ==
    /\ \A i \in Ids \ {id} : future_pipe'[i] = future_pipe[i]
    /\ \A s, r \in Ids :
        /\ s # id /\ PipeAt(user_pipe, s, r) = {} => PipeAt(user_pipe', s, r) = {}
        /\ r # id /\ PipeAt(user_pipe', s, r) = {} => PipeAt(user_pipe, s, r) = {}

LEMMA IdOfLine ==
    ASSUME IInv, NEW fd \in socket_all
    PROVE  socketfd_to_id(fd) \in Ids /\ socketfd_to_id(fd) = client[fd].id
BY SocketOfClient DEF IInv, live

(* A line of commands, with whatever it reads, writes and counts down.          *)
LEMMA CommandLinePipes ==
    ASSUME PipesIInv, NEW fd \in Fds, NEW in \in 0..MaxId, NEW out \in 0..MaxId,
           NEW skip \in 0..MaxSkip, CommandLine(fd, in, skip, out)
    PROVE  PipesIInv' /\ OthersKept(client[fd].id) /\ fd \in socket_all
                      /\ event'.by = fd
<1> DEFINE id == socketfd_to_id(fd)
           rest == IF in > 0 THEN get_userpipe_read(user_pipe, id, in) ELSE user_pipe
<1>1. fd \in socket_all /\ id \in Ids /\ id = client[fd].id
  BY IdOfLine DEF CommandLine, PipesIInv
<1>2. user_pipe \in Seq(Records) /\ Distinct(user_pipe)
  BY DEF PipesIInv, PipesTypeOK, OnePipePerPair, Records, Distinct
<1>3. /\ future_pipe' = FutureAfter(id, skip)
      /\ user_pipe' = IF skip = 0 /\ out > 0 THEN add_userpipe(rest, id, out) ELSE rest
      /\ event' = [Silence EXCEPT !.by = fd] /\ UNCHANGED <<table, socket_all, client>>
  BY DEF CommandLine
<1> HIDE DEF id
<1>4. /\ rest \in Seq(Records) /\ Distinct(rest)
      /\ \A s, r \in Ids : PipeAt(user_pipe, s, r) = {} => PipeAt(rest, s, r) = {}
      /\ \A s, r \in Ids :
            r # id /\ PipeAt(rest, s, r) = {} => PipeAt(user_pipe, s, r) = {}
  <2>1. CASE in > 0
    BY <1>1, <1>2, <2>1, ReadRecord, SMTT(30)
  <2>2. CASE ~(in > 0)
    BY <1>2, <2>2
  <2> QED
    BY <2>1, <2>2
<1> HIDE DEF rest
<1>5. /\ user_pipe' \in Seq(Records) /\ Distinct(user_pipe')
      /\ \A s, r \in Ids : PipeAt(user_pipe', s, r) = {} => PipeAt(rest, s, r) = {}
      /\ \A s, r \in Ids :
            s # id /\ PipeAt(rest, s, r) = {} => PipeAt(user_pipe', s, r) = {}
  <2>1. CASE skip = 0 /\ out > 0
    BY <1>1, <1>3, <1>4, <2>1, AddRecord, SMTT(30)
  <2>2. CASE ~(skip = 0 /\ out > 0)
    BY <1>3, <1>4, <2>2
  <2> QED
    BY <2>1, <2>2
<1>6. /\ future_pipe' \in [Ids -> SUBSET (-1..MaxSkip)]
      /\ \A i \in Ids \ {id} : future_pipe'[i] = future_pipe[i]
  BY <1>1, <1>3, CountedDown DEF PipesIInv
<1>7. IInv'
  <2>1. IInv /\ [Silence EXCEPT !.by = fd] \in Events
    BY MaxIdAssumption DEF PipesIInv, Silence, Events, AllNames, Kinds
  <2> QED
    BY <1>3, <2>1 DEF IInv, TypeOK, FirstMatchIsLive, ClientHasSlot, SlotHasClient,
                      NoTwins, CountIsExact, live, table
<1>8. PipesTypeOK' /\ OnePipePerPair'
  BY <1>5, <1>6, <1>7 DEF PipesTypeOK, OnePipePerPair, Distinct, Records, IInv
<1>9. OthersKept(id)
  BY <1>4, <1>5, <1>6 DEF OthersKept
<1>10. event'.by = fd
  BY <1>3 DEF Silence
<1> QED
  BY <1>1, <1>7, <1>8, <1>9, <1>10 DEF PipesIInv

(* A built-in counts as a line of its user, and touches no user pipe.           *)
LEMMA BuiltinPipes ==
    ASSUME PipesIInv, NEW fd \in Fds, Builtin(fd)
    PROVE  /\ PipesIInv' /\ OthersKept(client[fd].id) /\ fd \in socket_all
           /\ event'.by = fd
<1> DEFINE id == socketfd_to_id(fd)
<1>1. fd \in socket_all
  BY DEF Builtin, name, broadcast, tell, who
<1>2. id \in Ids /\ id = client[fd].id
  BY <1>1, IdOfLine DEF PipesIInv
<1>3. IInv'
  <2>1. Next
    BY DEF Builtin, Next
  <2> QED
    BY <2>1, NextIInv DEF PipesIInv
<1>4. future_pipe' = future_pipe_number_subone(id) /\ user_pipe' = user_pipe
  BY DEF Builtin
<1>5. event'.by = fd
  <2>1. ASSUME NEW newname \in Names, name(fd, newname) PROVE event'.by = fd
    BY <2>1 DEF name
  <2>2. ASSUME NEW receiver \in Ids, tell(fd, receiver) PROVE event'.by = fd
    BY <2>2 DEF tell
  <2>3. broadcast(fd) \/ who(fd) => event'.by = fd
    BY DEF broadcast, who
  <2> QED
    BY <2>1, <2>2, <2>3 DEF Builtin
<1> HIDE DEF id
<1>6. /\ future_pipe' \in [Ids -> SUBSET (-1..MaxSkip)]
      /\ \A i \in Ids \ {id} : future_pipe'[i] = future_pipe[i]
  <2>1. 0 \in 0..MaxSkip
    BY MaxSkipAssumption
  <2> QED
    BY <1>2, <1>4, <2>1, CountedDown DEF PipesIInv
<1>7. PipesTypeOK' /\ OnePipePerPair'
  BY <1>3, <1>4, <1>6 DEF PipesIInv, PipesTypeOK, OnePipePerPair, IInv
<1> QED
  BY <1>1, <1>2, <1>3, <1>4, <1>5, <1>6, <1>7 DEF PipesIInv, OthersKept

LEMMA PipesInitIInv == PipesInit => PipesIInv
<1> SUFFICES ASSUME PipesInit PROVE PipesIInv
  OBVIOUS
<1>1. IInv
  BY InitIInv DEF PipesInit
<1>2. user_pipe \in Seq(Records) /\ Len(user_pipe) = 0
  BY EmptySeq DEF PipesInit
<1>3. future_pipe \in [Ids -> SUBSET (-1..MaxSkip)]
  BY DEF PipesInit
<1> QED
  BY <1>1, <1>2, <1>3 DEF PipesIInv, IInv, PipesTypeOK, OnePipePerPair, Records

(* logins and logouts are steps of the table that no pipe sees.                 *)
LEMMA ComeAndGoPipes ==
    ASSUME PipesIInv, NEW fd \in Fds, Login(fd) \/ Logout(fd)
    PROVE  PipesIInv' /\ UNCHANGED pipes
<1>1. Next /\ UNCHANGED pipes
  BY DEF Login, Logout, Next
<1>2. IInv'
  BY <1>1, NextIInv DEF PipesIInv
<1> QED
  BY <1>1, <1>2 DEF PipesIInv, IInv, PipesTypeOK, OnePipePerPair, pipes

LEMMA NextPipesIInv == PipesIInv /\ [PipesNext]_pipevars => PipesIInv'
<1> SUFFICES ASSUME PipesIInv, [PipesNext]_pipevars PROVE PipesIInv'
  OBVIOUS
<1>1. ASSUME NEW fd \in Fds, Login(fd) \/ Logout(fd) PROVE PipesIInv'
  BY <1>1, ComeAndGoPipes
<1>2. ASSUME NEW fd \in Fds, Builtin(fd) PROVE PipesIInv'
  BY <1>2, BuiltinPipes
<1>3. ASSUME NEW fd \in Fds, NEW in \in 0..MaxId, NEW out \in 0..MaxId,
             NEW skip \in 0..MaxSkip, CommandLine(fd, in, skip, out)
      PROVE  PipesIInv'
  BY <1>3, CommandLinePipes
<1>4. CASE UNCHANGED pipevars
  <2>1. IInv'
    BY <1>4, NextIInv DEF PipesIInv, pipevars
  <2> QED
    BY <1>4, <2>1 DEF PipesIInv, IInv, PipesTypeOK, OnePipePerPair, pipevars, pipes
<1> QED
  BY <1>1, <1>2, <1>3, <1>4 DEF PipesNext

-----------------------------------------------------------------------------
(* The table's invariant, the records' shapes and one record for each pair.     *)
THEOREM PipesInductiveInvariant == PipesSpec => []PipesIInv
BY PipesInitIInv, NextPipesIInv, PTL DEF PipesSpec

(* Records name ids, and no number exceeds what |N can say.                     *)
THEOREM PipesTypeCorrect == PipesSpec => []PipesTypeOK
<1>1. PipesIInv => PipesTypeOK
  BY DEF PipesIInv
<1> QED
  BY <1>1, PipesInductiveInvariant, PTL

(* From one user to another there is never a second pipe.                       *)
THEOREM OneRecordPerPair == PipesSpec => []OnePipePerPair
<1>1. PipesIInv => OnePipePerPair
  BY DEF PipesIInv
<1> QED
  BY <1>1, PipesInductiveInvariant, PTL

(* A line changes pipes of its own user only, whatever ids and descriptors were *)
(* reused before.                                                               *)
THEOREM PipesAreOwn == PipesSpec => OthersKeepTheirPipes
<1>1. ASSUME NEW fd \in socket_all, event'.by = fd, OthersKept(client[fd].id)
      PROVE  TouchesOwnOnly
  BY <1>1 DEF TouchesOwnOnly, OthersKept
<1>2. ASSUME PipesIInv, PipesNext, ~UNCHANGED pipes PROVE TouchesOwnOnly
  <2>1. ASSUME NEW fd \in Fds, Builtin(fd) PROVE TouchesOwnOnly
    BY <1>1, <1>2, <2>1, BuiltinPipes
  <2>2. ASSUME NEW fd \in Fds, NEW in \in 0..MaxId, NEW out \in 0..MaxId,
               NEW skip \in 0..MaxSkip, CommandLine(fd, in, skip, out)
        PROVE  TouchesOwnOnly
    BY <1>1, <1>2, <2>2, CommandLinePipes
  <2> QED
    BY <1>2, <2>1, <2>2, ComeAndGoPipes DEF PipesNext
<1>3. PipesIInv /\ [PipesNext]_pipevars => [TouchesOwnOnly]_pipes
  BY <1>2 DEF pipevars
<1> QED
  BY <1>3, PipesInductiveInvariant, PTL DEF PipesSpec, OthersKeepTheirPipes
=============================================================================
