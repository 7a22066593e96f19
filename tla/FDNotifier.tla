------------------------------ MODULE FDNotifier ------------------------------
(***************************************************************************)
(* The file descriptor notifier with its own thread (async = true): the    *)
(* waiter selects on the descriptors that were added, and calls a handler  *)
(* for each readable one while it holds listMux.  Handlers do any of what  *)
(* those of UDPManager, the tunnel and HTTPServer do: read, accept a       *)
(* connection and add it, close their own descriptor and remove it, or     *)
(* throw.  (At this commit handleConnectionData always throws, because     *)
(* HTTPServer files a connection under the listening descriptor; what it   *)
(* does with a connection that it finds is modelled beside that.)  The     *)
(* main thread opens and adds descriptors meanwhile, and destroys the      *)
(* notifier.                                                               *)
(*                                                                         *)
(* The kernel gives the lowest free number to a file that is opened, so    *)
(* that the number of a closed file comes again.  Files are numbered       *)
(* beside that, to tell which of them a handler was added for.             *)
(*                                                                         *)
(* What a thread does between lock and unlock is one step, except for the  *)
(* dispatch, during which handlers run and the main thread may open files. *)
(***************************************************************************)
EXTENDS Integers

CONSTANTS
    FD_SETSIZE,     \* 1024: the descriptors that an fd_set has room for
    MaxFiles        \* bound: files opened

ASSUME NotifierAssumption ==
    /\ FD_SETSIZE \in Nat \ {0}
    /\ MaxFiles \in Nat

VARIABLES
    file,         \* descriptor -> the file it stands for, 0 when it is closed
    opened,       \* how many files were opened
    readable,     \* the files with something to read
    fds,
    listeners,    \* descriptor -> the file that the handler was added for
    stop,
    listMux,      \* the thread that holds it
    pc,
    ready,        \* waiter: fds_read, once select has returned
    current,      \* waiter: the descriptor whose handler runs
    added         \* main: the descriptor to add

kernel == <<file, opened, readable>>
vars == <<file, opened, readable, fds, listeners, stop, listMux, pc, ready, current, added>>

\* Descriptors, one of them beyond an fd_set.
Fd == 0 .. FD_SETSIZE
File == 1 .. MaxFiles

\* The waiter's program counter in startListening and waitForFD, and the main thread's.
WaiterAt == {"start", "while", "copy", "select", "dispatch", "next", "handler", "remove", "ended"}
MainAt == {"idle", "add", "join", "joined"}

TypeOK ==
    /\ file \in [Fd -> 0 .. MaxFiles]
    /\ opened \in 0 .. MaxFiles
    /\ readable \subseteq File
    /\ fds \subseteq 0 .. FD_SETSIZE - 1
    /\ DOMAIN listeners \subseteq Fd
    /\ listeners \in [DOMAIN listeners -> File]
    /\ stop \in BOOLEAN
    /\ listMux \in {"nobody", "waiter"}
    /\ pc \in [waiter : WaiterAt, main : MainAt] \cup [waiter : {"aborted"}, main : {"aborted"}]
    /\ ready \subseteq Fd
    /\ current \in Fd
    /\ added \in Fd

\* The constructor has started the thread; `stop' is not initialised.
Init ==
    /\ file = [fd \in Fd |-> 0]
    /\ opened = 0
    /\ readable = {}
    /\ fds = {}
    /\ listeners = [fd \in {} |-> 0]
    /\ stop \in BOOLEAN
    /\ listMux = "nobody"
    /\ pc = [waiter |-> "start", main |-> "idle"]
    /\ ready = {}
    /\ current = 0
    /\ added = 0

\* The waiter goes on at `place'.
WaiterTo(place) == pc' = [pc EXCEPT !.waiter = place]
MainTo(place) == pc' = [pc EXCEPT !.main = place]

\* An exception that nobody catches, or an assertion that fails: the process ends.
Abort == pc' = [waiter |-> "aborted", main |-> "aborted"]

------------------------------------------------------------------------------
(* The kernel.                                                             *)

Free == {fd \in Fd : file[fd] = 0}

\* open, socket or accept: the lowest number that is free.
Open(fd) ==
    /\ opened < MaxFiles
    /\ fd \in Free
    /\ \A other \in Free : fd <= other
    /\ opened' = opened + 1
    /\ file' = [file EXCEPT ![fd] = opened + 1]

Close(fd) ==
    /\ file' = [file EXCEPT ![fd] = 0]
    /\ readable' = readable \ {file[fd]}
    /\ UNCHANGED opened

DataArrives(fd) ==
    /\ file[fd] # 0
    /\ readable' = readable \cup {file[fd]}
    /\ UNCHANGED <<file, opened, fds, listeners, stop, listMux, pc, ready, current, added>>

------------------------------------------------------------------------------
(* addFileDescriptor and removeFileDescriptor, by a thread that has the    *)
(* lock or gets it: listMux is recursive.                                  *)

\* Mutation of FitsSet: off by one.
FitsSetAlmost(fd) == fd <= FD_SETSIZE

FitsSet(fd) == fd < FD_SETSIZE

\* std::map::insert: a listener that is there already stays.
AddFileDescriptor(fd, f) ==
    /\ fds' = fds \cup {fd}
    /\ listeners' = IF fd \in DOMAIN listeners THEN listeners
                    ELSE [d \in DOMAIN listeners \cup {fd} |-> IF d = fd THEN f ELSE listeners[d]]

\* Mutation of RemoveFileDescriptor: the descriptor is no longer selected, but its handler
\* stays.
RemoveSelectionOnly(fd) == fds' = fds \ {fd} /\ UNCHANGED listeners

\* The descriptor stays in fds.
RemoveFileDescriptor(fd) ==
    /\ listeners' = [d \in DOMAIN listeners \ {fd} |-> listeners[d]]
    /\ UNCHANGED fds

------------------------------------------------------------------------------
(* The waiter: startListening and waitForFD.                               *)

StartListening ==
    /\ pc.waiter = "start"
    /\ stop' = FALSE
    /\ WaiterTo("while")
    /\ UNCHANGED <<kernel, fds, listeners, listMux, ready, current, added>>

\* Mutation of While: the thread listens once more when it was told to stop.
WhileStarting ==
    /\ pc.waiter = "while"
    /\ WaiterTo("copy")
    /\ stop' = FALSE
    /\ UNCHANGED <<kernel, fds, listeners, listMux, ready, current, added>>

While ==
    /\ pc.waiter = "while"
    /\ WaiterTo(IF stop THEN "ended" ELSE "copy")
    /\ UNCHANGED <<kernel, fds, listeners, stop, listMux, ready, current, added>>

CopySet ==
    /\ pc.waiter = "copy"
    /\ listMux = "nobody"
    /\ ready' = fds
    /\ WaiterTo("select")
    /\ UNCHANGED <<kernel, fds, listeners, stop, listMux, current, added>>

\* Descriptors that were closed make select fail, and nothing is done; otherwise it
\* leaves those that are readable, or none when the time is over.
Select ==
    LET found == {fd \in ready : file[fd] \in readable}
    IN  /\ pc.waiter = "select"
        /\ ready' = found
        /\ WaiterTo(IF (\A fd \in ready : file[fd] # 0) /\ found # {} THEN "dispatch" ELSE "while")
        /\ UNCHANGED <<kernel, fds, listeners, stop, listMux, current, added>>

Dispatch ==
    /\ pc.waiter = "dispatch"
    /\ listMux = "nobody"
    /\ listMux' = "waiter"
    /\ WaiterTo("next")
    /\ UNCHANGED <<kernel, fds, listeners, stop, ready, current, added>>

\* Mutation of Rest: the loop ends with the first descriptor.
RestNone(fd) == {}

\* What is left of the loop over all descriptors after fd.
Rest(fd) == ready \ {fd}

\* The next descriptor that is set, if it still has a listener.
NextReady ==
    /\ pc.waiter = "next"
    /\ \E fd \in ready :
        /\ \A other \in ready : fd <= other
        /\ ready' = Rest(fd)
        /\ IF fd \in DOMAIN listeners
           THEN current' = fd /\ WaiterTo("handler")
           ELSE UNCHANGED <<current, pc>>
    /\ UNCHANGED <<kernel, fds, listeners, stop, listMux, added>>

DispatchEnds ==
    /\ pc.waiter = "next"
    /\ ready = {}
    /\ listMux' = "nobody"
    /\ WaiterTo("while")
    /\ UNCHANGED <<kernel, fds, listeners, stop, ready, current, added>>

------------------------------------------------------------------------------
(* Handlers, which run in the waiter.                                      *)

\* UDPManager::handleIncoming, pollMessages of the tunnel: a datagram is read; there may be more.
HandlerReads ==
    /\ pc.waiter = "handler"
    /\ readable' \in {readable, readable \ {file[current]}}
    /\ WaiterTo("next")
    /\ UNCHANGED <<file, opened, fds, listeners, stop, listMux, ready, current, added>>

\* handleIncomingConnection: the connection is accepted and added.
HandlerAccepts ==
    /\ pc.waiter = "handler"
    /\ \E fd \in Fd :
        /\ Open(fd)
        /\ IF FitsSet(fd)
           THEN AddFileDescriptor(fd, opened + 1) /\ WaiterTo("next")
           ELSE Abort /\ UNCHANGED <<fds, listeners>>
    /\ UNCHANGED <<readable, stop, listMux, ready, current, added>>

\* handleConnectionData, of a request that is done: the descriptor is closed ...
HandlerCloses ==
    /\ pc.waiter = "handler"
    /\ Close(current)
    /\ WaiterTo("remove")
    /\ UNCHANGED <<fds, listeners, stop, listMux, ready, current, added>>

\* ... and removed.
HandlerRemoves ==
    /\ pc.waiter = "remove"
    /\ IF current \in DOMAIN listeners
       THEN RemoveFileDescriptor(current) /\ WaiterTo("next")
       ELSE Abort /\ UNCHANGED <<fds, listeners>>
    /\ UNCHANGED <<kernel, stop, listMux, ready, current, added>>

\* accept fails, or handleConnectionData knows no connection of that descriptor.
HandlerThrows ==
    /\ pc.waiter = "handler"
    /\ Abort
    /\ UNCHANGED <<kernel, fds, listeners, stop, listMux, ready, current, added>>

Handler == HandlerReads \/ HandlerAccepts \/ HandlerCloses \/ HandlerRemoves \/ HandlerThrows

Waiter == StartListening \/ While \/ CopySet \/ Select \/ Dispatch \/ NextReady \/ DispatchEnds \/ Handler

------------------------------------------------------------------------------
(* The main thread.                                                        *)

MainOpens ==
    /\ pc.main = "idle"
    /\ \E fd \in Fd : Open(fd) /\ added' = fd
    /\ MainTo("add")
    /\ UNCHANGED <<readable, fds, listeners, stop, listMux, ready, current>>

MainAdds ==
    /\ pc.main = "add"
    /\ IF FitsSet(added)
       THEN /\ listMux = "nobody"
            /\ AddFileDescriptor(added, file[added])
            /\ MainTo("idle")
       ELSE Abort /\ UNCHANGED <<fds, listeners>>
    /\ UNCHANGED <<kernel, stop, listMux, ready, current, added>>

\* ~FDNotifier.
Destroy ==
    /\ pc.main = "idle"
    /\ stop' = TRUE
    /\ MainTo("join")
    /\ UNCHANGED <<kernel, fds, listeners, listMux, ready, current, added>>

Join ==
    /\ pc.main = "join"
    /\ pc.waiter = "ended"
    /\ MainTo("joined")
    /\ UNCHANGED <<kernel, fds, listeners, stop, listMux, ready, current, added>>

Main == MainOpens \/ MainAdds \/ Destroy \/ Join

------------------------------------------------------------------------------

Next == Waiter \/ Main \/ \E fd \in Fd : DataArrives(fd)

Spec == Init /\ [][Next]_vars

\* The threads run: what they can do they do.
FairSpec == Spec /\ WF_vars(Waiter) /\ WF_vars(Join)

------------------------------------------------------------------------------
(* Properties.                                                             *)

Aborted == pc.waiter = "aborted"

\* Every file that is open has its own handler, unless its owner is about to add it; and a
\* handler that is called finds its own file under its descriptor and something to read
\* in it, although numbers of closed files come again: no handler hears of another's file.
HandlersMatchFiles ==
    ~Aborted =>
        /\ \A fd \in Fd : file[fd] # 0 =>
             \/ fd \in fds \cap DOMAIN listeners /\ listeners[fd] = file[fd]
             \/ pc.main = "add" /\ added = fd
        /\ pc.waiter = "handler" =>
             current \in DOMAIN listeners /\ listeners[current] = file[current]
                /\ file[current] \in readable

\* A descriptor that was closed and removed makes every select fail.
SelectFails == \E fd \in fds : file[fd] = 0

\* The owner of a descriptor is told that there is something to read, whatever comes at
\* other descriptors, unless select fails or the notifier is destroyed.
ReadableHandled ==
    \A fd \in 0 .. FD_SETSIZE - 1 :
        fd \in DOMAIN listeners /\ listeners[fd] = file[fd] /\ file[fd] \in readable
            ~> (pc.waiter = "handler" /\ current = fd) \/ SelectFails \/ stop \/ Aborted

\* The destructor returns, however busy the descriptors are, if the thread had begun to
\* listen when it was called.
DestructionEnds ==
    pc.main = "join" /\ stop /\ pc.waiter # "start" ~> pc.main = "joined" \/ Aborted

==============================================================================
