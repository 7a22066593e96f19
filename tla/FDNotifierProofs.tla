--------------------------- MODULE FDNotifierProofs ---------------------------
(***************************************************************************)
(* Proofs about FDNotifier, for any number of descriptors and files.       *)
(***************************************************************************)
EXTENDS FDNotifier, TLAPS

\* The waiter dispatches, and holds the lock.
Dispatching == pc.waiter \in {"next", "handler", "remove"}

\* A descriptor that is closed and about to be removed.
Removing(fd) == pc.waiter = "remove" /\ current = fd

Adding(fd) == pc.main = "add" /\ added = fd

Heard(fd) == fd \in fds /\ fd \in DOMAIN listeners /\ listeners[fd] = file[fd]

LockInv == listMux = "waiter" <=> Dispatching

\* A file has one descriptor, and numbers of files are not used again.
FilesInv ==
    \A fd \in Fd : file[fd] # 0 =>
        /\ file[fd] <= opened
        /\ \A other \in Fd : file[other] = file[fd] => other = fd

\* Open files are heard of, or about to be; and handlers are for open files, except for
\* the one that is about to be removed.
ListenersInv ==
    /\ \A fd \in Fd : file[fd] # 0 => Heard(fd) \/ Adding(fd)
    /\ \A fd \in DOMAIN listeners : listeners[fd] = file[fd] \/ Removing(fd)
    /\ \A fd \in Fd : Adding(fd) =>
         file[fd] # 0 /\ (fd \in DOMAIN listeners => Removing(fd))
    /\ \A fd \in Fd : Removing(fd) => file[fd] = 0 \/ Adding(fd)

\* What select has found stays readable until its turn has come.
ReadyInv ==
    /\ pc.waiter \in {"dispatch", "next", "handler", "remove"} =>
         \A fd \in ready : file[fd] # 0 /\ file[fd] \in readable
    /\ pc.waiter \in {"handler", "remove"} =>
         current \notin ready /\ current \in DOMAIN listeners
    /\ pc.waiter = "handler" =>
         /\ listeners[current] = file[current]
         /\ file[current] \in readable

IInv ==
    /\ TypeOK
    /\ ~Aborted => LockInv /\ FilesInv /\ ListenersInv /\ ReadyInv

------------------------------------------------------------------------------
(* Types.                                                                  *)

\* The threads stay within their program counters.
LEMMA Places ==
    ASSUME TypeOK
    PROVE  /\ \A p \in WaiterAt \ {"aborted"} :
                ~Aborted /\ WaiterTo(p) => pc'.waiter = p /\ pc'.main = pc.main /\ ~Aborted'
           /\ \A p \in MainAt :
                ~Aborted /\ MainTo(p) => pc'.main = p /\ pc'.waiter = pc.waiter /\ ~Aborted'
           /\ ~Aborted => pc.waiter \in WaiterAt /\ pc.main \in MainAt
           /\ Aborted => pc.main = "aborted"
BY DEF TypeOK, WaiterTo, MainTo, Aborted, WaiterAt, MainAt

LEMMA PlacesTyped ==
    ASSUME TypeOK, ~Aborted
    PROVE  /\ \A p \in WaiterAt : WaiterTo(p) => pc' \in [waiter : WaiterAt, main : MainAt]
           /\ \A p \in MainAt : MainTo(p) => pc' \in [waiter : WaiterAt, main : MainAt]
BY DEF TypeOK, WaiterTo, MainTo, Aborted

LEMMA AbortTyped ==
    ASSUME Abort
    PROVE  Aborted' /\ pc' \in [waiter : {"aborted"}, main : {"aborted"}]
BY DEF Abort, Aborted

\* The descriptors with room in the set.
LEMMA Fits ==
    \A fd \in Fd : FitsSet(fd) => fd \in 0 .. FD_SETSIZE - 1
BY NotifierAssumption DEF FitsSet, Fd

LEMMA OpenTyped ==
    ASSUME TypeOK, NEW fd \in Fd, Open(fd)
    PROVE  /\ opened + 1 \in File
           /\ opened' = opened + 1 /\ opened' \in 0 .. MaxFiles
           /\ file' \in [Fd -> 0 .. MaxFiles]
           /\ file[fd] = 0 /\ file'[fd] = opened + 1
           /\ \A d \in Fd \ {fd} : file'[d] = file[d]
<1>1. opened + 1 \in File /\ opened + 1 \in 0 .. MaxFiles
  BY NotifierAssumption DEF TypeOK, Open, File
<1> QED
  BY <1>1 DEF TypeOK, Open, Free

LEMMA AddTyped ==
    ASSUME TypeOK, NEW fd \in 0 .. FD_SETSIZE - 1, NEW f \in File, AddFileDescriptor(fd, f)
    PROVE  /\ fds' = fds \cup {fd} /\ fds' \subseteq 0 .. FD_SETSIZE - 1
           /\ DOMAIN listeners' = DOMAIN listeners \cup {fd} /\ DOMAIN listeners' \subseteq Fd
           /\ listeners' \in [DOMAIN listeners' -> File]
           /\ \A d \in DOMAIN listeners : listeners'[d] = listeners[d]
           /\ fd \notin DOMAIN listeners => listeners'[fd] = f
<1>1. fd \in Fd
  BY NotifierAssumption DEF Fd
<1>2. CASE fd \in DOMAIN listeners
  BY <1>1, <1>2 DEF TypeOK, AddFileDescriptor
<1>3. CASE fd \notin DOMAIN listeners
  BY <1>1, <1>3 DEF TypeOK, AddFileDescriptor
<1> QED
  BY <1>2, <1>3

LEMMA RemoveTyped ==
    ASSUME TypeOK, NEW fd, RemoveFileDescriptor(fd)
    PROVE  /\ fds' = fds
           /\ DOMAIN listeners' = DOMAIN listeners \ {fd} /\ DOMAIN listeners' \subseteq Fd
           /\ listeners' \in [DOMAIN listeners' -> File]
           /\ \A d \in DOMAIN listeners \ {fd} : listeners'[d] = listeners[d]
BY DEF TypeOK, RemoveFileDescriptor

------------------------------------------------------------------------------
(* The steps of the waiter outside the handlers.                           *)

\* Steps that only move the waiter and choose what it looks at.
LEMMA QuietStep ==
    ASSUME IInv, ~Aborted, UNCHANGED <<kernel, fds, listeners, added>>,
           NEW p \in WaiterAt, WaiterTo(p), p # "remove", pc.waiter # "remove",
           stop' \in BOOLEAN, listMux' \in {"nobody", "waiter"},
           ready' \subseteq Fd, current' \in Fd,
           LockInv', ReadyInv'
    PROVE  IInv'
<1>1. TypeOK'
  BY PlacesTyped DEF IInv, TypeOK, kernel
<1>2. pc'.waiter = p /\ pc'.main = pc.main
  BY Places DEF IInv, WaiterAt
<1>3. FilesInv'
  BY DEF IInv, FilesInv, kernel
<1>4. ListenersInv'
  <2>1. file' = file /\ fds' = fds /\ listeners' = listeners /\ added' = added
    BY DEF kernel
  <2>2. \A fd : ~Removing(fd) /\ ~Removing(fd)'
    BY <1>2 DEF Removing
  <2>3. \A fd : (Adding(fd)' <=> Adding(fd)) /\ (Heard(fd)' <=> Heard(fd))
    BY <1>2, <2>1 DEF Adding, Heard
  <2> QED
    BY <2>1, <2>2, <2>3 DEF IInv, ListenersInv
<1> QED
  BY <1>1, <1>3, <1>4 DEF IInv

\* The loop of the waiter keeps the invariant.
LEMMA LoopStep ==
    ASSUME IInv, ~Aborted,
           StartListening \/ While \/ CopySet \/ Select \/ Dispatch \/ NextReady \/ DispatchEnds
    PROVE  IInv'
<1> USE DEF IInv, TypeOK
<1>0. 0 .. FD_SETSIZE - 1 \subseteq Fd
  BY NotifierAssumption DEF Fd
<1>p. \A p \in WaiterAt : WaiterTo(p) => pc'.waiter = p /\ pc'.main = pc.main
  BY Places DEF WaiterAt
<1>1. CASE StartListening
  <2>1. WaiterTo("while") /\ pc'.waiter = "while"
    BY <1>1, <1>p DEF StartListening, WaiterAt
  <2>2. LockInv' /\ ReadyInv'
    BY <1>1, <2>1 DEF StartListening, LockInv, ReadyInv, Dispatching
  <2> QED
    BY <1>1, <2>1, <2>2, QuietStep DEF StartListening, WaiterAt
<1>2. CASE While
  <2>1. PICK p \in {"ended", "copy"} : WaiterTo(p)
    BY <1>2 DEF While
  <2>2. pc'.waiter = p
    BY <2>1, <1>p DEF WaiterAt
  <2>3. LockInv' /\ ReadyInv'
    BY <1>2, <2>2 DEF While, LockInv, ReadyInv, Dispatching
  <2> QED
    BY <1>2, <2>1, <2>3, QuietStep DEF While, WaiterAt
<1>3. CASE CopySet
  <2>1. WaiterTo("select") /\ pc'.waiter = "select"
    BY <1>3, <1>p DEF CopySet, WaiterAt
  <2>2. LockInv' /\ ReadyInv'
    BY <1>3, <2>1 DEF CopySet, LockInv, ReadyInv, Dispatching
  <2> QED
    BY <1>0, <1>3, <2>1, <2>2, QuietStep DEF CopySet, WaiterAt
<1>4. CASE Select
  <2>1. PICK p \in {"dispatch", "while"} :
             WaiterTo(p) /\ (p = "dispatch" => \A fd \in ready : file[fd] # 0)
    BY <1>4 DEF Select
  <2>2. pc'.waiter = p
    BY <2>1, <1>p DEF WaiterAt
  <2>3. ready' = {fd \in ready : file[fd] \in readable}
    BY <1>4 DEF Select
  <2>4. LockInv' /\ ReadyInv'
    BY <1>4, <2>1, <2>2, <2>3 DEF Select, LockInv, ReadyInv, Dispatching, kernel
  <2> QED
    BY <1>4, <2>1, <2>3, <2>4, QuietStep DEF Select, WaiterAt
<1>5. CASE Dispatch
  <2>1. WaiterTo("next") /\ pc'.waiter = "next"
    BY <1>5, <1>p DEF Dispatch, WaiterAt
  <2>2. LockInv' /\ ReadyInv'
    BY <1>5, <2>1 DEF Dispatch, LockInv, ReadyInv, Dispatching, kernel
  <2> QED
    BY <1>5, <2>1, <2>2, QuietStep DEF Dispatch, WaiterAt
<1>6. CASE NextReady
  <2>1. PICK fd \in ready :
             /\ ready' = ready \ {fd}
             /\ IF fd \in DOMAIN listeners
                THEN current' = fd /\ WaiterTo("handler")
                ELSE UNCHANGED <<current, pc>>
    BY <1>6 DEF NextReady, Rest
  <2>2. pc.waiter = "next"
    BY <1>6 DEF NextReady
  <2>3. fd \in Fd /\ file[fd] # 0 /\ file[fd] \in readable
    BY <2>2 DEF ReadyInv
  <2>4. CASE fd \in DOMAIN listeners
    <3>1. current' = fd /\ WaiterTo("handler") /\ pc'.waiter = "handler"
      BY <2>1, <2>4, <1>p DEF WaiterAt
    <3>2. listeners[fd] = file[fd]
      BY <2>2, <2>4 DEF ListenersInv, Removing
    <3>3. LockInv' /\ ReadyInv'
      BY <1>6, <2>1, <2>2, <2>3, <2>4, <3>1, <3>2
         DEF NextReady, LockInv, ReadyInv, Dispatching, kernel
    <3> QED
      BY <1>6, <2>1, <2>2, <2>3, <3>1, <3>3, QuietStep DEF NextReady, WaiterAt
  <2>5. CASE fd \notin DOMAIN listeners
    <3>1. UNCHANGED <<current, pc>> /\ WaiterTo("next")
      BY <2>1, <2>2, <2>5 DEF WaiterTo
    <3>2. LockInv' /\ ReadyInv'
      BY <1>6, <2>1, <2>2, <3>1 DEF NextReady, LockInv, ReadyInv, Dispatching, kernel
    <3> QED
      BY <1>6, <2>1, <2>2, <3>1, <3>2, QuietStep DEF NextReady, WaiterAt
  <2> QED
    BY <2>4, <2>5
<1>7. CASE DispatchEnds
  <2>1. WaiterTo("while") /\ pc'.waiter = "while"
    BY <1>7, <1>p DEF DispatchEnds, WaiterAt
  <2>2. LockInv' /\ ReadyInv'
    BY <1>7, <2>1 DEF DispatchEnds, LockInv, ReadyInv, Dispatching
  <2> QED
    BY <1>7, <2>1, <2>2, QuietStep DEF DispatchEnds, WaiterAt
<1> QED
  BY <1>1, <1>2, <1>3, <1>4, <1>5, <1>6, <1>7

------------------------------------------------------------------------------
(* Handlers.                                                               *)

LEMMA ReadsStep ==
    ASSUME IInv, ~Aborted, HandlerReads
    PROVE  IInv'
<1> USE DEF IInv
<1>1. /\ readable' \subseteq File
      /\ readable' \in {readable, readable \ {file[current]}}
      /\ pc.waiter = "handler" /\ WaiterTo("next")
      /\ UNCHANGED <<file, opened, fds, listeners, stop, listMux, ready, current, added>>
  BY DEF HandlerReads, TypeOK
<1>2. pc'.waiter = "next" /\ pc'.main = pc.main
  BY <1>1, Places DEF WaiterAt
<1>3. TypeOK'
  BY <1>1, PlacesTyped DEF TypeOK, WaiterAt
<1>4. LockInv' /\ FilesInv'
  BY <1>1, <1>2 DEF LockInv, FilesInv, Dispatching
<1>5. ListenersInv'
  BY <1>1, <1>2 DEF ListenersInv, Removing, Adding, Heard
<1>6. ReadyInv'
  <2>1. current \notin ready /\ listeners[current] = file[current] /\ current \in DOMAIN listeners
    BY <1>1 DEF ReadyInv
  <2>2. \A fd \in ready : fd \in Fd /\ file[fd] # 0 /\ file[fd] \in readable
    BY <1>1 DEF ReadyInv, TypeOK
  <2>3. current \in Fd
    BY DEF TypeOK
  <2>4. \A fd \in ready : file[fd] # file[current]
    BY <2>1, <2>2, <2>3 DEF FilesInv
  <2> QED
    BY <1>1, <1>2, <2>2, <2>4 DEF ReadyInv
<1> QED
  BY <1>3, <1>4, <1>5, <1>6

\* A file that is opened has a number of its own, and its descriptor had no handler unless
\* it is being removed.
LEMMA OpenedAnew ==
    ASSUME IInv, ~Aborted, NEW fd \in Fd, Open(fd)
    PROVE  /\ FilesInv'
           /\ fd \in DOMAIN listeners => Removing(fd)
           /\ ~Adding(fd)
<1>1. /\ file' \in [Fd -> 0 .. MaxFiles]
      /\ opened' = opened + 1 /\ opened \in Nat
      /\ file[fd] = 0 /\ file'[fd] = opened + 1
      /\ \A d \in Fd \ {fd} : file'[d] = file[d]
  BY OpenTyped, NotifierAssumption DEF IInv, TypeOK
<1>2. \A d \in Fd : file[d] \in Nat
  BY NotifierAssumption DEF IInv, TypeOK
<1>3. FilesInv'
  <2>1. FilesInv
    BY DEF IInv
  <2>2. \A d \in Fd \ {fd} : file'[d] # 0 => file'[d] < opened + 1
    BY <1>1, <1>2, <2>1 DEF FilesInv
  <2> QED
    BY <1>1, <1>2, <2>1, <2>2 DEF FilesInv
<1>4. fd \in DOMAIN listeners => Removing(fd)
  BY <1>1 DEF IInv, TypeOK, ListenersInv, File
<1>5. ~Adding(fd)
  BY <1>1 DEF IInv, ListenersInv
<1> QED
  BY <1>3, <1>4, <1>5

LEMMA AcceptsStep ==
    ASSUME IInv, ~Aborted, HandlerAccepts
    PROVE  IInv'
<1> USE DEF IInv
<1>1. PICK fd \in Fd :
        /\ Open(fd)
        /\ IF FitsSet(fd)
           THEN AddFileDescriptor(fd, opened + 1) /\ WaiterTo("next")
           ELSE Abort /\ UNCHANGED <<fds, listeners>>
  BY DEF HandlerAccepts
<1>2. pc.waiter = "handler" /\ UNCHANGED <<readable, stop, listMux, ready, current, added>>
  BY DEF HandlerAccepts
<1>3. /\ opened + 1 \in File /\ opened' \in 0 .. MaxFiles
      /\ file' \in [Fd -> 0 .. MaxFiles]
      /\ file[fd] = 0 /\ file'[fd] = opened + 1
      /\ \A d \in Fd \ {fd} : file'[d] = file[d]
  BY <1>1, OpenTyped
<1>4. CASE ~FitsSet(fd)
  <2>1. Aborted' /\ pc' \in [waiter : {"aborted"}, main : {"aborted"}]
    BY <1>1, <1>4, AbortTyped
  <2>2. TypeOK'
    BY <1>1, <1>2, <1>3, <1>4, <2>1 DEF TypeOK
  <2> QED
    BY <2>1, <2>2
<1>5. CASE FitsSet(fd)
  <2>1. fd \in 0 .. FD_SETSIZE - 1 /\ AddFileDescriptor(fd, opened + 1) /\ WaiterTo("next")
    BY <1>1, <1>5, Fits
  <2>2. /\ fds' = fds \cup {fd} /\ fds' \subseteq 0 .. FD_SETSIZE - 1
        /\ DOMAIN listeners' = DOMAIN listeners \cup {fd} /\ DOMAIN listeners' \subseteq Fd
        /\ listeners' \in [DOMAIN listeners' -> File]
        /\ \A d \in DOMAIN listeners : listeners'[d] = listeners[d]
        /\ fd \notin DOMAIN listeners => listeners'[fd] = opened + 1
    BY <1>3, <2>1, AddTyped
  <2>3. pc'.waiter = "next" /\ pc'.main = pc.main
    BY <2>1, Places DEF WaiterAt
  <2>4. TypeOK'
    BY <1>2, <1>3, <2>1, <2>2, PlacesTyped DEF TypeOK, WaiterAt
  <2>5. FilesInv' /\ fd \notin DOMAIN listeners /\ ~Adding(fd)
    BY <1>1, <1>2, OpenedAnew DEF Removing
  <2>6. LockInv'
    BY <1>2, <2>3 DEF LockInv, Dispatching
  <2>7. ListenersInv'
    <3>1. \A d \in Fd : (Adding(d)' <=> Adding(d)) /\ ~Removing(d) /\ ~Removing(d)'
      BY <1>2, <2>3 DEF Adding, Removing
    <3>2. \A d \in Fd \ {fd} : Heard(d) => Heard(d)'
      BY <1>3, <2>2 DEF Heard
    <3>3. Heard(fd)'
      BY <1>3, <2>2, <2>5 DEF Heard
    <3>4. \A d \in DOMAIN listeners' : listeners'[d] = file'[d]
      BY <1>3, <2>2, <2>5, <3>1 DEF ListenersInv, TypeOK
    <3>5. \A d \in Fd : Adding(d) => file'[d] # 0 /\ d \notin DOMAIN listeners'
      BY <1>3, <2>2, <2>5, <3>1 DEF ListenersInv
    <3> QED
      BY <1>3, <3>1, <3>2, <3>3, <3>4, <3>5 DEF ListenersInv
  <2>8. ReadyInv'
    <3>1. \A d \in ready : d \in Fd \ {fd} /\ file[d] # 0 /\ file[d] \in readable
      BY <1>2, <1>3 DEF ReadyInv, TypeOK
    <3> QED
      BY <1>2, <1>3, <2>3, <3>1 DEF ReadyInv
  <2> QED
    BY <2>4, <2>5, <2>6, <2>7, <2>8
<1> QED
  BY <1>4, <1>5

LEMMA ClosesStep ==
    ASSUME IInv, ~Aborted, HandlerCloses
    PROVE  IInv'
<1> USE DEF IInv
<1>1. /\ pc.waiter = "handler" /\ WaiterTo("remove")
      /\ UNCHANGED <<opened, fds, listeners, stop, listMux, ready, current, added>>
      /\ current \in Fd
  BY DEF HandlerCloses, Close, TypeOK
<1>2. /\ file' \in [Fd -> 0 .. MaxFiles]
      /\ file'[current] = 0
      /\ \A d \in Fd \ {current} : file'[d] = file[d]
      /\ readable' = readable \ {file[current]}
  BY <1>1, NotifierAssumption DEF HandlerCloses, Close, TypeOK
<1>3. pc'.waiter = "remove" /\ pc'.main = pc.main
  BY <1>1, Places DEF WaiterAt
<1>4. TypeOK'
  BY <1>1, <1>2, PlacesTyped DEF TypeOK, WaiterAt
<1>5. LockInv'
  BY <1>1, <1>3 DEF LockInv, Dispatching
<1>6. FilesInv'
  BY <1>1, <1>2 DEF FilesInv
<1>7. current \in DOMAIN listeners /\ current \notin ready /\ listeners[current] = file[current]
  BY <1>1 DEF ReadyInv
<1>8. ListenersInv'
  <2>1. \A d \in Fd : (Adding(d)' <=> Adding(d)) /\ ~Removing(d) /\ (Removing(d)' <=> d = current)
    BY <1>1, <1>3 DEF Adding, Removing
  <2>2. \A d \in Fd \ {current} : Heard(d) => Heard(d)'
    BY <1>1, <1>2 DEF Heard
  <2>3. \A d \in Fd : file'[d] # 0 => Heard(d)' \/ Adding(d)
    BY <1>2, <2>2 DEF ListenersInv
  <2>4. \A d \in DOMAIN listeners : listeners[d] = file'[d] \/ d = current
    BY <1>2, <2>1 DEF ListenersInv, TypeOK
  <2>5. \A d \in Fd : Adding(d) => d # current /\ file'[d] # 0 /\ d \notin DOMAIN listeners
    BY <1>2, <1>7, <2>1 DEF ListenersInv
  <2> QED
    BY <1>1, <1>2, <2>1, <2>3, <2>4, <2>5 DEF ListenersInv, TypeOK
<1>9. ReadyInv'
  <2>1. \A d \in ready : d \in Fd /\ d # current /\ file[d] # 0 /\ file[d] \in readable
    BY <1>1, <1>7 DEF ReadyInv, TypeOK
  <2>2. \A d \in ready : file'[d] = file[d] /\ file[d] # file[current]
    BY <1>1, <1>2, <2>1 DEF FilesInv
  <2> QED
    BY <1>1, <1>2, <1>3, <1>7, <2>1, <2>2 DEF ReadyInv
<1> QED
  BY <1>4, <1>5, <1>6, <1>8, <1>9

LEMMA RemovesStep ==
    ASSUME IInv, ~Aborted, HandlerRemoves
    PROVE  IInv'
<1> USE DEF IInv
<1>1. pc.waiter = "remove" /\ UNCHANGED <<kernel, stop, listMux, ready, current, added>>
  BY DEF HandlerRemoves
<1>2. current \in DOMAIN listeners /\ current \in Fd
  BY <1>1 DEF ReadyInv, TypeOK
<1>3. RemoveFileDescriptor(current) /\ WaiterTo("next")
  BY <1>2 DEF HandlerRemoves
<1>4. /\ fds' = fds
      /\ DOMAIN listeners' = DOMAIN listeners \ {current} /\ DOMAIN listeners' \subseteq Fd
      /\ listeners' \in [DOMAIN listeners' -> File]
      /\ \A d \in DOMAIN listeners \ {current} : listeners'[d] = listeners[d]
  BY <1>3, RemoveTyped
<1>5. pc'.waiter = "next" /\ pc'.main = pc.main
  BY <1>3, Places DEF WaiterAt
<1>6. TypeOK'
  BY <1>1, <1>3, <1>4, PlacesTyped DEF TypeOK, WaiterAt, kernel
<1>7. LockInv' /\ FilesInv' /\ ReadyInv'
  BY <1>1, <1>5 DEF LockInv, Dispatching, FilesInv, ReadyInv, kernel
<1>8. ListenersInv'
  <2>1. \A d \in Fd : (Adding(d)' <=> Adding(d)) /\ ~Removing(d)' /\ (Removing(d) <=> d = current)
    BY <1>1, <1>5 DEF Adding, Removing
  <2>2. \A d \in Fd \ {current} : Heard(d) => Heard(d)'
    BY <1>1, <1>4 DEF Heard, kernel
  <2>3. \A d \in Fd : file[d] # 0 => Heard(d)' \/ Adding(d)
    BY <2>1, <2>2 DEF ListenersInv
  <2>4. \A d \in DOMAIN listeners' : listeners'[d] = file[d]
    BY <1>4, <2>1 DEF ListenersInv, TypeOK
  <2>5. \A d \in Fd : Adding(d) => file[d] # 0 /\ d \notin DOMAIN listeners'
    BY <1>4, <2>1 DEF ListenersInv
  <2> QED
    BY <1>1, <2>1, <2>3, <2>4, <2>5 DEF ListenersInv, kernel
<1> QED
  BY <1>6, <1>7, <1>8

LEMMA ThrowsStep ==
    ASSUME IInv, HandlerThrows
    PROVE  IInv'
<1>1. Aborted' /\ pc' \in [waiter : {"aborted"}, main : {"aborted"}]
  BY AbortTyped DEF HandlerThrows
<1>2. TypeOK'
  BY <1>1 DEF HandlerThrows, IInv, TypeOK, kernel
<1> QED
  BY <1>1, <1>2 DEF IInv

------------------------------------------------------------------------------
(* The main thread and the kernel.                                         *)

LEMMA OpensStep ==
    ASSUME IInv, ~Aborted, MainOpens
    PROVE  IInv'
<1> USE DEF IInv
<1>1. PICK fd \in Fd : Open(fd) /\ added' = fd
  BY DEF MainOpens
<1>2. /\ pc.main = "idle" /\ MainTo("add")
      /\ UNCHANGED <<readable, fds, listeners, stop, listMux, ready, current>>
  BY DEF MainOpens
<1>3. /\ opened + 1 \in File /\ opened' \in 0 .. MaxFiles
      /\ file' \in [Fd -> 0 .. MaxFiles]
      /\ file[fd] = 0 /\ file'[fd] = opened + 1 /\ opened + 1 # 0
      /\ \A d \in Fd \ {fd} : file'[d] = file[d]
  BY <1>1, OpenTyped, NotifierAssumption DEF File, TypeOK
<1>4. pc'.main = "add" /\ pc'.waiter = pc.waiter
  BY <1>2, Places DEF MainAt
<1>5. TypeOK'
  BY <1>1, <1>2, <1>3, PlacesTyped DEF TypeOK, MainAt
<1>6. FilesInv' /\ (fd \in DOMAIN listeners => Removing(fd))
  BY <1>1, OpenedAnew
<1>7. LockInv'
  BY <1>2, <1>4 DEF LockInv, Dispatching
<1>8. ListenersInv'
  <2>1. \A d \in Fd : ~Adding(d) /\ (Adding(d)' <=> d = fd) /\ (Removing(d)' <=> Removing(d))
    BY <1>1, <1>2, <1>4 DEF Adding, Removing
  <2>2. \A d \in Fd \ {fd} : Heard(d) => Heard(d)'
    BY <1>2, <1>3 DEF Heard
  <2>3. \A d \in Fd : file'[d] # 0 => Heard(d)' \/ d = fd
    BY <1>3, <2>1, <2>2 DEF ListenersInv
  <2>4. \A d \in DOMAIN listeners : listeners[d] = file'[d] \/ Removing(d)
    BY <1>3, <1>6 DEF ListenersInv, TypeOK
  <2>5. \A d \in Fd : Removing(d) => file'[d] = 0 \/ d = fd
    BY <1>3, <2>1 DEF ListenersInv
  <2> QED
    BY <1>2, <1>3, <1>6, <2>1, <2>3, <2>4, <2>5 DEF ListenersInv, TypeOK
<1>9. ReadyInv'
  <2>1. pc.waiter \in {"dispatch", "next", "handler", "remove"} =>
             \A d \in ready : d \in Fd \ {fd} /\ file[d] # 0 /\ file[d] \in readable
    BY <1>3 DEF ReadyInv, TypeOK
  <2>2. pc.waiter = "handler" => current # fd /\ current \in Fd
    BY <1>3, <1>6 DEF ReadyInv, Removing, TypeOK
  <2> QED
    BY <1>2, <1>3, <1>4, <2>1, <2>2 DEF ReadyInv
<1> QED
  BY <1>5, <1>6, <1>7, <1>8, <1>9

LEMMA AddsStep ==
    ASSUME IInv, ~Aborted, MainAdds
    PROVE  IInv'
<1> USE DEF IInv
<1>1. /\ pc.main = "add" /\ added \in Fd
      /\ UNCHANGED <<kernel, stop, listMux, ready, current, added>>
  BY DEF MainAdds, TypeOK
<1>2. CASE ~FitsSet(added)
  <2>1. Abort /\ UNCHANGED <<fds, listeners>>
    BY <1>2 DEF MainAdds
  <2>2. Aborted' /\ pc' \in [waiter : {"aborted"}, main : {"aborted"}]
    BY <2>1, AbortTyped
  <2>3. TypeOK'
    BY <1>1, <2>1, <2>2 DEF TypeOK, kernel
  <2> QED
    BY <2>2, <2>3
<1>3. CASE FitsSet(added)
  <2>1. /\ listMux = "nobody" /\ MainTo("idle")
        /\ AddFileDescriptor(added, file[added])
        /\ added \in 0 .. FD_SETSIZE - 1
    BY <1>1, <1>3, Fits DEF MainAdds
  <2>2. ~Dispatching
    BY <2>1 DEF LockInv
  <2>3. file[added] # 0 /\ added \notin DOMAIN listeners
    BY <1>1, <2>2 DEF ListenersInv, Adding, Removing, Dispatching
  <2>4. file[added] \in File
    BY <1>1, <2>3, NotifierAssumption DEF TypeOK, File
  <2>5. /\ fds' = fds \cup {added} /\ fds' \subseteq 0 .. FD_SETSIZE - 1
        /\ DOMAIN listeners' = DOMAIN listeners \cup {added} /\ DOMAIN listeners' \subseteq Fd
        /\ listeners' \in [DOMAIN listeners' -> File]
        /\ \A d \in DOMAIN listeners : listeners'[d] = listeners[d]
        /\ listeners'[added] = file[added]
    BY <2>1, <2>3, <2>4, AddTyped
  <2>6. pc'.main = "idle" /\ pc'.waiter = pc.waiter
    BY <2>1, Places DEF MainAt
  <2>7. TypeOK'
    BY <1>1, <2>1, <2>5, PlacesTyped DEF TypeOK, MainAt, kernel
  <2>8. LockInv' /\ FilesInv'
    BY <1>1, <2>6 DEF LockInv, Dispatching, FilesInv, kernel
  <2>9. ListenersInv'
    <3>1. \A d \in Fd : ~Adding(d)' /\ (Adding(d) <=> d = added) /\ ~Removing(d) /\ ~Removing(d)'
      BY <1>1, <2>2, <2>6 DEF Adding, Removing, Dispatching
    <3>2. \A d \in Fd : Heard(d) \/ d = added => Heard(d)'
      BY <1>1, <2>5 DEF Heard, kernel
    <3>3. \A d \in DOMAIN listeners' : listeners'[d] = file[d]
      BY <1>1, <2>5, <3>1 DEF ListenersInv, TypeOK
    <3> QED
      BY <1>1, <3>1, <3>2, <3>3 DEF ListenersInv, kernel
  <2>10. ReadyInv'
    BY <1>1, <2>2, <2>6 DEF ReadyInv, Dispatching, kernel
  <2> QED
    BY <2>7, <2>8, <2>9, <2>10
<1> QED
  BY <1>2, <1>3

LEMMA EndsStep ==
    ASSUME IInv, ~Aborted, Destroy \/ Join
    PROVE  IInv'
<1> USE DEF IInv
<1>1. PICK p \in {"join", "joined"} : MainTo(p)
  BY DEF Destroy, Join
<1>2. /\ pc.main \in {"idle", "join"} /\ stop' \in BOOLEAN
      /\ UNCHANGED <<kernel, fds, listeners, listMux, ready, current, added>>
  BY DEF Destroy, Join, TypeOK
<1>3. pc'.main = p /\ pc'.waiter = pc.waiter
  BY <1>1, Places DEF MainAt
<1>4. TypeOK'
  BY <1>1, <1>2, PlacesTyped DEF TypeOK, MainAt, kernel
<1>5. LockInv' /\ FilesInv' /\ ReadyInv'
  BY <1>2, <1>3 DEF LockInv, Dispatching, FilesInv, ReadyInv, kernel
<1>6. ListenersInv'
  BY <1>2, <1>3 DEF ListenersInv, Adding, Removing, Heard, kernel
<1> QED
  BY <1>4, <1>5, <1>6

LEMMA ArrivesStep ==
    ASSUME IInv, NEW fd \in Fd, DataArrives(fd)
    PROVE  IInv'
<1> USE DEF IInv
<1>1. /\ readable' = readable \cup {file[fd]} /\ file[fd] # 0
      /\ UNCHANGED <<file, opened, fds, listeners, stop, listMux, pc, ready, current, added>>
  BY DEF DataArrives
<1>2. file[fd] \in File
  BY <1>1, NotifierAssumption DEF TypeOK, File
<1>3. TypeOK' /\ (Aborted' <=> Aborted)
  BY <1>1, <1>2 DEF TypeOK, Aborted
<1>4. ~Aborted => LockInv' /\ FilesInv'
  BY <1>1 DEF LockInv, Dispatching, FilesInv
<1>5. ~Aborted => ListenersInv'
  BY <1>1 DEF ListenersInv, Adding, Removing, Heard
<1>6. ~Aborted => ReadyInv'
  BY <1>1 DEF ReadyInv
<1> QED
  BY <1>3, <1>4, <1>5, <1>6

------------------------------------------------------------------------------

LEMMA InitIInv == Init => IInv
<1> SUFFICES ASSUME Init PROVE IInv
  OBVIOUS
<1>1. \A fd \in Fd : file[fd] = 0
  BY DEF Init
<1>2. TypeOK
  BY NotifierAssumption DEF Init, TypeOK, Fd, File, WaiterAt, MainAt
<1>3. LockInv /\ FilesInv /\ ReadyInv
  BY <1>1 DEF Init, LockInv, Dispatching, FilesInv, ReadyInv
<1>4. ListenersInv
  BY <1>1 DEF Init, ListenersInv, Adding, Removing
<1> QED
  BY <1>2, <1>3, <1>4 DEF IInv

\* Every step keeps the invariant; after an abort only data arrive.
LEMMA NextIInv == IInv /\ [Next]_vars => IInv'
<1> SUFFICES ASSUME IInv, [Next]_vars PROVE IInv'
  OBVIOUS
<1>1. CASE UNCHANGED vars
  BY <1>1 DEF vars, IInv, TypeOK, Aborted, LockInv, Dispatching, FilesInv, ListenersInv,
     Heard, Adding, Removing, ReadyInv
<1>2. CASE \E fd \in Fd : DataArrives(fd)
  BY <1>2, ArrivesStep
<1>3. CASE Waiter
  <2>1. ~Aborted
    BY <1>3 DEF Aborted, Waiter, StartListening, While, CopySet, Select, Dispatch, NextReady,
       DispatchEnds, Handler, HandlerReads, HandlerAccepts, HandlerCloses, HandlerRemoves, HandlerThrows
  <2> QED
    BY <1>3, <2>1, LoopStep, ReadsStep, AcceptsStep, ClosesStep, RemovesStep, ThrowsStep
       DEF Waiter, Handler
<1>4. CASE Main
  <2>1. ~Aborted
    BY <1>4, Places DEF IInv, Main, MainOpens, MainAdds, Destroy, Join
  <2> QED
    BY <1>4, <2>1, OpensStep, AddsStep, EndsStep DEF Main
<1> QED
  BY <1>1, <1>2, <1>3, <1>4 DEF Next

LEMMA AlwaysIInv == Spec => []IInv
<1>1. Init => IInv
  BY InitIInv
<1>2. IInv /\ [Next]_vars => IInv'
  BY NextIInv
<1> QED
  BY <1>1, <1>2, PTL DEF Spec

\* Every variable of the notifier keeps its type: no descriptor beyond FD_SETSIZE is ever
\* set in fds, and a handler is only removed by the waiter that has it (FileDescriptorNotifier
\* .cpp:21-41).
THEOREM TypeCorrect == Spec => []TypeOK
<1>1. IInv => TypeOK
  BY DEF IInv
<1> QED
  BY <1>1, AlwaysIInv, PTL

\* A handler only hears of the file it was added for, and finds something to read in it,
\* and every open file has its handler, although the numbers of closed files are given to
\* new ones while the waiter dispatches (FileDescriptorNotifier.cpp:44-75).
THEOREM HandlersOfTheirFiles == Spec => []HandlersMatchFiles
<1>1. IInv => HandlersMatchFiles
  BY DEF IInv, HandlersMatchFiles, ListenersInv, ReadyInv, Heard, Adding
<1> QED
  BY <1>1, AlwaysIInv, PTL

==============================================================================
