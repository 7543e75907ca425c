---- MODULE TransmissionProofs ----
(***************************************************************************)
(* The streaming protocol for any number of browsers, frames and           *)
(* descriptors, in a program that starts its server once: no frame is      *)
(* missed by a sleeper, torn, repeated or sent out of order; no socket is  *)
(* closed by anybody but its owner; and a stopped server thread is never   *)
(* held up.                                                                *)
(***************************************************************************)
EXTENDS Transmission, TLAPS

(* image_init calls start_server once, and nothing calls it again.         *)
OneStart == \A s, t \in Servers : s = t

(* What the streams rely on: who holds the mutex, and how far each of them *)
(* has come.                                                               *)
FramesOK == latest_frame_id \in Nat /\ current_jpeg \in Nat /\ last \in [Clients -> Nat]
            /\ copy \in [Clients -> Nat]

PlacesOK == cpc \in [Clients -> ClientPlaces] /\ spc \in [Servers -> ServerPlaces]

LockOK == \A c \in Clients : cpc[c] \in LockedPlaces <=> frame_mutex = c

(* The frame data are reset while there is no server thread yet, and hence *)
(* no browser.                                                             *)
StartOK ==
    /\ mpc \in {"clear", "spawn"} => \A s \in Servers : spc[s] = "none"
    /\ (\A s \in Servers : spc[s] = "none") => \A c \in Clients : cpc[c] = "none"

JpegOK == IF mpc = "clear" THEN latest_frame_id = 0 ELSE current_jpeg = latest_frame_id

StreamOK ==
    \A c \in Clients :
        /\ cpc[c] = "none" => last[c] = 0
        /\ cpc[c] # "none" => last[c] <= latest_frame_id
        /\ cpc[c] \in {"wait", "asleep"} => latest_frame_id = last[c]
        /\ cpc[c] = "ready" /\ running => latest_frame_id # last[c]
        /\ cpc[c] = "take" => latest_frame_id # last[c] /\ copy[c] = current_jpeg
        /\ cpc[c] = "send" => copy[c] = last[c]

IInv == FramesOK /\ PlacesOK /\ LockOK /\ StartOK /\ JpegOK /\ StreamOK

(* Every step is one of these.                                             *)
LEMMA NextCases ==
    ASSUME [Next]_vars
    PROVE  \/ start_server \/ start_clear \/ start_spawn
           \/ stop_server \/ stop_close \/ stop_broadcast \/ update_frame
           \/ \E s \in Servers : Listener(s)
           \/ \E s \in Servers : server_connection(s)
           \/ \E c \in Clients : Client(c)
           \/ \E c \in Clients : stream_spurious(c)
           \/ UNCHANGED vars
    BY DEF Next, Caller

LEMMA InitOK == Init => IInv
    BY OwnersAssumption DEF Init, IInv, FramesOK, PlacesOK, LockOK, StartOK, JpegOK, StreamOK,
       LockedPlaces, ClientPlaces, ServerPlaces, Free

LEMMA ClientStepOK ==
    ASSUME OneStart, IInv, NEW c \in Clients, Client(c) \/ stream_spurious(c)
    PROVE  IInv'
<1> USE OwnersAssumption
    DEF IInv, FramesOK, PlacesOK, LockOK, StartOK, JpegOK, StreamOK,
        At, Goto, ClientStep, callerVars, serverVars, streamVars,
        LockedPlaces, ClientPlaces, ServerPlaces, Free
<1>1. CASE client_recv(c)
  BY <1>1 DEF client_recv
<1>2. CASE client_page(c)
  BY <1>2 DEF client_page
<1>3. CASE client_stats(c)
  BY <1>3 DEF client_stats
<1>4. CASE client_snapshot(c)
  BY <1>4 DEF client_snapshot
<1>5. CASE client_close(c)
  BY <1>5 DEF client_close
<1>6. CASE stream_test(c)
  BY <1>6 DEF stream_test
<1>7. CASE stream_lock(c)
  BY <1>7 DEF stream_lock
<1>8. CASE stream_check(c)
  BY <1>8 DEF stream_check
<1>9. CASE stream_wait(c)
  BY <1>9 DEF stream_wait
<1>10. CASE stream_ready(c)
  BY <1>10 DEF stream_ready
<1>11. CASE stream_take(c)
  BY <1>11 DEF stream_take
<1>12. CASE stream_send(c)
  BY <1>12 DEF stream_send
<1>13. CASE stream_spurious(c)
  BY <1>13 DEF stream_spurious
<1> QED
  BY <1>1, <1>2, <1>3, <1>4, <1>5, <1>6, <1>7, <1>8, <1>9, <1>10, <1>11, <1>12, <1>13 DEF Client

LEMMA StepOK == OneStart /\ IInv /\ [Next]_vars => IInv'
<1> SUFFICES ASSUME OneStart, IInv, [Next]_vars PROVE IInv'
  OBVIOUS
<1> USE OwnersAssumption, FramesAssumption
    DEF OneStart, IInv, FramesOK, PlacesOK, LockOK, StartOK, JpegOK, StreamOK,
        data, fdVars, callerVars, serverVars, clientVars, streamVars,
        LockedPlaces, ClientPlaces, ServerPlaces, Free
<1>1. CASE start_server
  BY <1>1 DEF start_server
<1>2. CASE start_clear
  BY <1>2 DEF start_clear
<1>3. CASE start_spawn
  BY <1>3 DEF start_spawn
<1>4. CASE stop_server
  BY <1>4 DEF stop_server
<1>5. CASE stop_close
  BY <1>5 DEF stop_close
<1>6. CASE stop_broadcast
  BY <1>6 DEF stop_broadcast, Woken
<1>7. CASE update_frame
  BY <1>7 DEF update_frame, Woken
<1>8. CASE \E s \in Servers : Listener(s)
  <2> PICK s \in Servers : Listener(s)
    BY <1>8
  <2>1. UNCHANGED <<running, data, callerVars, clientVars, streamVars>>
    BY DEF Listener, server_socket, server_publish, server_bind, server_test, server_accept,
           server_error, server_failed, server_close
  <2>2. spc[s] # "none" /\ \E p \in ServerPlaces \ {"none"} : spc' = [spc EXCEPT ![s] = p]
    BY DEF Listener, server_socket, server_publish, server_bind, server_test, server_accept,
           server_error, server_failed, server_close
  <2> QED
    BY <2>1, <2>2
<1>9. CASE \E s \in Servers : server_connection(s)
  BY <1>9 DEF server_connection
<1>10. CASE \E c \in Clients : Client(c) \/ stream_spurious(c)
  BY <1>10, ClientStepOK
<1>11. CASE UNCHANGED vars
  BY <1>11 DEF vars
<1> QED
  BY NextCases, <1>1, <1>2, <1>3, <1>4, <1>5, <1>6, <1>7, <1>8, <1>9, <1>10, <1>11

LEMMA Inductive == OneStart => (Spec => []IInv)
<1> SUFFICES ASSUME OneStart PROVE Spec => []IInv
  OBVIOUS
<1>1. IInv /\ [Next]_vars => IInv'
  BY StepOK
<1> QED
  BY <1>1, InitOK, PTL DEF Spec

(* What a browser is sent under a number is the frame of that number.      *)
THEOREM WholeFramesHold == OneStart => (Spec => []WholeFrames)
<1> SUFFICES ASSUME OneStart PROVE Spec => []WholeFrames
  OBVIOUS
<1>1. IInv => WholeFrames
  BY DEF IInv, StreamOK, WholeFrames
<1> QED
  BY <1>1, Inductive, PTL

(* A browser's thread that sleeps has sent the newest frame.               *)
THEOREM NoMissedFrameHolds == OneStart => (Spec => []NoMissedFrame)
<1> SUFFICES ASSUME OneStart PROVE Spec => []NoMissedFrame
  OBVIOUS
<1>1. IInv => NoMissedFrame
  BY DEF IInv, StreamOK, NoMissedFrame
<1> QED
  BY <1>1, Inductive, PTL

(* Only the step that takes a frame leads to a send, and it takes a frame  *)
(* newer than the one before.                                              *)
LEMMA OrderStep ==
    IInv /\ [Next]_vars =>
        [\A c \in Clients : cpc[c] # "send" /\ cpc'[c] = "send" => last'[c] > last[c]]_vars
<1> SUFFICES ASSUME IInv, [Next]_vars, NEW c \in Clients, cpc[c] # "send", cpc'[c] = "send"
             PROVE  last'[c] > last[c]
  OBVIOUS
<1> USE DEF IInv, FramesOK, PlacesOK, StreamOK, At, Goto
<1>1. CASE \E d \in Clients : stream_take(d)
  BY <1>1 DEF stream_take
<1>2. CASE ~\E d \in Clients : stream_take(d)
  <2>1. cpc' = cpc \/ cpc' = Woken
        \/ \E d \in Clients, p \in ClientPlaces \ {"send"} : cpc' = [cpc EXCEPT ![d] = p]
    <3>1. CASE \E d \in Clients : Client(d) \/ stream_spurious(d)
      BY <3>1, <1>2
      DEF Client, client_recv, client_page, client_stats, client_snapshot, client_close,
          stream_test, stream_lock, stream_check, stream_wait, stream_ready, stream_send,
          stream_spurious, ClientPlaces, LockedPlaces
    <3>2. CASE \E s \in Servers : server_connection(s)
      BY <3>2 DEF server_connection, ClientPlaces
    <3>3. CASE \E s \in Servers : Listener(s)
      BY <3>3 DEF Listener, server_socket, server_publish, server_bind, server_test,
                  server_accept, server_error, server_failed, server_close, clientVars
    <3>4. CASE start_server \/ start_clear \/ start_spawn \/ stop_server \/ stop_close
               \/ stop_broadcast \/ update_frame \/ UNCHANGED vars
      BY <3>4 DEF start_server, start_clear, start_spawn, stop_server, stop_close,
                  stop_broadcast, update_frame, vars, clientVars
    <3> QED
      BY <3>1, <3>2, <3>3, <3>4, NextCases
  <2> QED
    BY <2>1 DEF Woken
<1> QED
  BY <1>1, <1>2

(* No browser is sent a frame twice, or an older one after a newer one.    *)
THEOREM FrameOrderHolds == OneStart => (Spec => FrameOrder)
<1> SUFFICES ASSUME OneStart PROVE Spec => FrameOrder
  OBVIOUS
<1> QED
  BY OrderStep, Inductive, PTL DEF Spec, FrameOrder
----------------------------------------------------------------------------
(* The types and the mutex, for any number of starts as well.              *)
Numbers ==
    /\ latest_frame_id \in Frames /\ current_jpeg \in Frames
    /\ copy \in [Clients -> Frames] /\ last \in [Clients -> Frames]
Threads ==
    /\ mpc \in CallerPlaces
    /\ spc \in [Servers -> ServerPlaces]
    /\ cpc \in [Clients -> ClientPlaces]
MutexOK == frame_mutex \in Clients \union {Free} /\ LockOK
Descriptors ==
    /\ server_sock_fd \in Fds \union {-1}
    /\ file \in [Fds -> Clients \union Servers \union {Free}]
    /\ shut \subseteq Servers
    /\ sfd \in [Servers -> Fds \union {-1}]
    /\ sock \in [Servers -> Servers]
    /\ cfd \in [Clients -> Fds \union {-1}]

LEMMA NumbersOK == ASSUME Numbers, [Next]_vars PROVE Numbers'
<1> USE FramesAssumption DEF Numbers, Frames, callerVars, data, streamVars, ClientStep
<1>1. CASE start_server \/ start_clear \/ start_spawn \/ stop_server \/ stop_close
           \/ stop_broadcast \/ update_frame
  BY <1>1 DEF start_server, start_clear, start_spawn, stop_server, stop_close,
              stop_broadcast, update_frame
<1>2. CASE \E s \in Servers : Listener(s) \/ server_connection(s)
  BY <1>2 DEF Listener, server_socket, server_publish, server_bind, server_test, server_accept,
              server_error, server_failed, server_close, server_connection
<1>3. CASE \E c \in Clients : Client(c) \/ stream_spurious(c)
  BY <1>3 DEF Client, client_recv, client_page, client_stats, client_snapshot, client_close,
              stream_test, stream_lock, stream_check, stream_wait, stream_ready, stream_take,
              stream_send, stream_spurious
<1>4. CASE UNCHANGED vars
  BY <1>4 DEF vars
<1> QED BY NextCases, <1>1, <1>2, <1>3, <1>4

LEMMA ThreadsOK == ASSUME Threads, [Next]_vars PROVE Threads'
<1> USE DEF Threads, callerVars, serverVars, clientVars, ClientStep, At, Goto, Woken,
            CallerPlaces, ServerPlaces, ClientPlaces, LockedPlaces
<1>1. CASE start_server \/ start_clear \/ start_spawn \/ stop_server \/ stop_close
           \/ stop_broadcast \/ update_frame
  BY <1>1 DEF start_server, start_clear, start_spawn, stop_server, stop_close,
              stop_broadcast, update_frame
<1>2. CASE \E s \in Servers : Listener(s) \/ server_connection(s)
  BY <1>2 DEF Listener, server_socket, server_publish, server_bind, server_test, server_accept,
              server_error, server_failed, server_close, server_connection
<1>3. CASE \E c \in Clients : Client(c) \/ stream_spurious(c)
  BY <1>3 DEF Client, client_recv, client_page, client_stats, client_snapshot, client_close,
              stream_test, stream_lock, stream_check, stream_wait, stream_ready, stream_take,
              stream_send, stream_spurious
<1>4. CASE UNCHANGED vars
  BY <1>4 DEF vars
<1> QED BY NextCases, <1>1, <1>2, <1>3, <1>4

LEMMA MutexStepOK == ASSUME Threads, MutexOK, [Next]_vars PROVE MutexOK'
<1> USE OwnersAssumption
    DEF Threads, MutexOK, LockOK, data, clientVars, ClientStep, At, Goto, Woken, LockedPlaces, Free
<1>1. CASE start_server \/ start_clear \/ start_spawn \/ stop_server \/ stop_close
           \/ stop_broadcast \/ update_frame
  BY <1>1 DEF start_server, start_clear, start_spawn, stop_server, stop_close,
              stop_broadcast, update_frame
<1>2. CASE \E s \in Servers : Listener(s) \/ server_connection(s)
  BY <1>2 DEF Listener, server_socket, server_publish, server_bind, server_test, server_accept,
              server_error, server_failed, server_close, server_connection
<1>3. CASE \E c \in Clients : Client(c) \/ stream_spurious(c)
  BY <1>3 DEF Client, client_recv, client_page, client_stats, client_snapshot, client_close,
              stream_test, stream_lock, stream_check, stream_wait, stream_ready, stream_take,
              stream_send, stream_spurious
<1>4. CASE UNCHANGED vars
  BY <1>4 DEF vars
<1> QED BY NextCases, <1>1, <1>2, <1>3, <1>4

LEMMA DescriptorsOK == ASSUME Descriptors, [Next]_vars PROVE Descriptors'
<1> USE DEF Descriptors, fdVars, serverVars, clientVars, ClientStep, Closed, close_server_socket,
            Listening
<1>1. CASE start_server \/ start_clear \/ start_spawn \/ stop_server \/ stop_close
           \/ stop_broadcast \/ update_frame
  BY <1>1 DEF start_server, start_clear, start_spawn, stop_server, stop_close,
              stop_broadcast, update_frame
<1>2. CASE \E s \in Servers : Listener(s) \/ server_connection(s)
  BY <1>2 DEF Listener, server_socket, server_publish, server_bind, server_test, server_accept,
              server_error, server_failed, server_close, server_connection
<1>3. CASE \E c \in Clients : Client(c) \/ stream_spurious(c)
  BY <1>3 DEF Client, client_recv, client_page, client_stats, client_snapshot, client_close,
              stream_test, stream_lock, stream_check, stream_wait, stream_ready, stream_take,
              stream_send, stream_spurious
<1>4. CASE UNCHANGED vars
  BY <1>4 DEF vars
<1> QED BY NextCases, <1>1, <1>2, <1>3, <1>4

LEMMA RunningOK == ASSUME running \in BOOLEAN, [Next]_vars PROVE running' \in BOOLEAN
<1>1. UNCHANGED running \/ running' = TRUE \/ running' = FALSE
  BY DEF Next, Caller, start_server, start_clear, start_spawn, stop_server, stop_close,
         stop_broadcast, update_frame, Listener, server_socket, server_publish, server_bind,
         server_test, server_accept, server_error, server_failed, server_close,
         server_connection, Client, client_recv, client_page, client_stats, client_snapshot,
         client_close, stream_test, stream_lock, stream_check, stream_wait, stream_ready,
         stream_take, stream_send, stream_spurious, ClientStep, vars
<1> QED BY <1>1

(* Any number of browsers and of starts: each variable keeps to its type,  *)
(* and whoever is inside the section of send_mjpeg_stream, and no one      *)
(* else, holds frame_mutex.                                                *)
THEOREM TypesHold == Spec => []TypeOK
<1>1. Init => TypeOK
  <2> SUFFICES ASSUME Init PROVE TypeOK
    OBVIOUS
  <2>1. running \in BOOLEAN
    BY DEF Init
  <2>2. Numbers
    BY FramesAssumption DEF Init, Numbers, Frames
  <2>3. Threads
    BY DEF Init, Threads, CallerPlaces, ServerPlaces, ClientPlaces, LockedPlaces
  <2>4. MutexOK
    BY OwnersAssumption DEF Init, MutexOK, LockOK, LockedPlaces, Free
  <2>5. Descriptors
    BY DEF Init, Descriptors, Free
  <2> QED
    BY <2>1, <2>2, <2>3, <2>4, <2>5
       DEF TypeOK, Numbers, Threads, MutexOK, LockOK, Descriptors
<1>2. TypeOK <=> /\ running \in BOOLEAN
                 /\ Numbers /\ Threads /\ MutexOK /\ Descriptors
  BY DEF TypeOK, Numbers, Threads, MutexOK, LockOK, Descriptors
<1>3. TypeOK /\ [Next]_vars => TypeOK'
  <2> SUFFICES ASSUME TypeOK, [Next]_vars PROVE TypeOK'
    OBVIOUS
  <2>1. running' \in BOOLEAN /\ Numbers' /\ Threads' /\ MutexOK' /\ Descriptors'
    BY <1>2, RunningOK, NumbersOK, ThreadsOK, MutexStepOK, DescriptorsOK
  <2> QED
    BY <2>1 DEF TypeOK, Numbers, Threads, MutexOK, LockOK, Descriptors
<1> QED
  BY <1>1, <1>3, PTL DEF Spec
----------------------------------------------------------------------------
(* Who owns which descriptor, in a program that starts its server once: a  *)
(* client's thread its own, until it closes it; the published number is    *)
(* the listening socket, or free again after an error; nobody is accepted  *)
(* before the socket is bound; and the server thread gives up only once    *)
(* the server is stopped.                                                  *)
Serving(c) == cpc[c] \notin {"none", "done"}

ClientsOwn == \A c \in Clients : Serving(c) => cfd[c] \in Fds /\ file[cfd[c]] = c

Unbound == {"none", "socket", "publish", "bind"}

ServerOwns ==
    \A s \in Servers :
        /\ spc[s] \in Unbound => \A c \in Clients : cpc[c] = "none"
        /\ spc[s] \in {"none", "socket", "publish"} => server_sock_fd = -1
        /\ spc[s] \notin {"none", "socket", "done"} => sfd[s] \in Fds
        /\ spc[s] = "publish" => file[sfd[s]] = s
        /\ spc[s] \notin {"none", "socket", "publish", "done"} /\ server_sock_fd # -1 =>
              server_sock_fd = sfd[s] /\ file[sfd[s]] = s
        /\ spc[s] = "close" => ~running

NumbersFresh ==
    \A f \in Fds : file[f] \in Clients =>
        f # server_sock_fd /\ Serving(file[f]) /\ cfd[file[f]] = f

Owned == ClientsOwn /\ ServerOwns /\ NumbersFresh

LEMMA OwnedFirst == Init => Owned
  BY OwnersAssumption DEF Init, Owned, ClientsOwn, ServerOwns, NumbersFresh, Serving, Free

LEMMA OwnedByClient ==
    ASSUME Threads, Descriptors, Owned, NEW c \in Clients, Client(c) \/ stream_spurious(c)
    PROVE  Owned'
<1> USE DEF Threads, Descriptors, Owned, ClientsOwn, ServerOwns, NumbersFresh, Serving, Unbound
<1>1. UNCHANGED <<running, server_sock_fd, serverVars, cfd>>
  BY DEF Client, client_recv, client_page, client_stats, client_snapshot, client_close,
         stream_test, stream_lock, stream_check, stream_wait, stream_ready, stream_take,
         stream_send, stream_spurious, ClientStep
<1>2. CASE client_close(c)
  <2>1. /\ cpc[c] = "close" /\ cfd[c] \in Fds /\ file[cfd[c]] = c
        /\ \A d \in Clients : cpc'[d] = IF d = c THEN "done" ELSE cpc[d]
        /\ \A f \in Fds : file'[f] = IF f = cfd[c] THEN Free ELSE file[f]
    BY <1>2 DEF client_close, At, Goto, Closed
  <2>2. ClientsOwn'
    BY <1>1, <2>1
  <2>3. ServerOwns'
    BY <1>1, <2>1, OwnersAssumption DEF serverVars
  <2>4. NumbersFresh'
    BY <1>1, <2>1, <2>2, OwnersAssumption
  <2> QED
    BY <2>2, <2>3, <2>4
<1>3. CASE ~client_close(c)
  <2>1. file' = file /\ cpc[c] \notin {"none", "done"}
        /\ \E p \in ClientPlaces \ {"none", "done"} : cpc' = [cpc EXCEPT ![c] = p]
    BY <1>3 DEF Client, client_recv, client_page, client_stats, client_snapshot,
         stream_test, stream_lock, stream_check, stream_wait, stream_ready, stream_take,
         stream_send, stream_spurious, At, Goto, ClientPlaces, LockedPlaces
  <2> QED
    BY <1>1, <2>1 DEF serverVars
<1> QED
  BY <1>2, <1>3

(* Closing the published socket takes no number from a client's thread.    *)
LEMMA SocketClosed ==
    ASSUME Descriptors, ClientsOwn, NumbersFresh, close_server_socket, UNCHANGED clientVars
    PROVE  /\ ClientsOwn' /\ NumbersFresh' /\ server_sock_fd' = -1
           /\ server_sock_fd = -1 => file' = file
<1> USE DEF ClientsOwn, NumbersFresh, Descriptors, Serving, clientVars, fdVars
<1>1. CASE server_sock_fd = -1
  BY <1>1 DEF close_server_socket
<1>2. CASE server_sock_fd # -1
  <2>1. /\ server_sock_fd \in Fds /\ server_sock_fd' = -1
        /\ \A f \in Fds : file'[f] = IF f = server_sock_fd THEN Free ELSE file[f]
    BY <1>2 DEF close_server_socket, Closed
  <2>2. file[server_sock_fd] \notin Clients
    BY <2>1
  <2>3. ClientsOwn'
    BY <2>1, <2>2
  <2>4. NumbersFresh'
    BY <2>1, OwnersAssumption, FdsAssumption
  <2> QED
    BY <1>2, <2>1, <2>3, <2>4
<1> QED
  BY <1>1, <1>2

LEMMA OwnedByCaller ==
    ASSUME OneStart, Threads, Descriptors, Owned,
           start_server \/ start_clear \/ start_spawn \/ stop_server \/ stop_close
           \/ stop_broadcast \/ update_frame
    PROVE  Owned'
<1> USE DEF OneStart, Threads, Descriptors, Owned, ClientsOwn, ServerOwns, NumbersFresh, Serving, Unbound,
            serverVars, clientVars, fdVars
<1>1. CASE start_server
  BY <1>1 DEF start_server
<1>2. CASE start_clear
  BY <1>2 DEF start_clear
<1>3. CASE start_spawn
  BY <1>3 DEF start_spawn
<1>4. CASE stop_server
  BY <1>4 DEF stop_server
<1>5. CASE stop_close
  <2>1. UNCHANGED <<running, spc, sfd, clientVars>> /\ close_server_socket
    BY <1>5 DEF stop_close
  <2>2. /\ ClientsOwn' /\ NumbersFresh' /\ server_sock_fd' = -1
        /\ server_sock_fd = -1 => file' = file
    BY <2>1, SocketClosed
  <2>3. ServerOwns'
    BY <2>1, <2>2
  <2> QED
    BY <2>2, <2>3
<1>6. CASE stop_broadcast
  BY <1>6 DEF stop_broadcast, Woken
<1>7. CASE update_frame
  BY <1>7 DEF update_frame, Woken
<1> QED
  BY <1>1, <1>2, <1>3, <1>4, <1>5, <1>6, <1>7

LEMMA OwnedByServer ==
    ASSUME OneStart, Threads, Descriptors, Owned, NEW s \in Servers,
           Listener(s) \/ server_connection(s)
    PROVE  Owned'
<1> USE OwnersAssumption, FdsAssumption
    DEF OneStart, Threads, Descriptors, Owned, ClientsOwn, ServerOwns, NumbersFresh, Serving, Unbound,
        clientVars, fdVars
<1>1. CASE server_socket(s)
  BY <1>1 DEF server_socket, Lowest
<1>2. CASE server_publish(s)
  BY <1>2 DEF server_publish
<1>3. CASE server_bind(s)
  <2>1. /\ spc[s] = "bind" /\ sfd[s] \in Fds
        /\ \E p \in {"done", "loop"} : spc' = [spc EXCEPT ![s] = p]
        /\ \/ \A f \in Fds : file'[f] = IF f = sfd[s] THEN Free ELSE file[f]
           \/ file' = file
        /\ UNCHANGED <<running, server_sock_fd, sfd, clientVars>>
    BY <1>3 DEF server_bind, Closed
  <2>2. (\A c \in Clients : cpc[c] = "none") /\ \A f \in Fds : file[f] \notin Clients
    BY <2>1
  <2>3. (\A c \in Clients : cpc'[c] = "none") /\ \A f \in Fds : file'[f] \notin Clients
    BY <2>1, <2>2
  <2>4. spc'[s] \in {"done", "loop"} /\ (spc'[s] = "loop" => file' = file)
    <3>1. CASE spc' = [spc EXCEPT ![s] = "loop"]
      BY <3>1, <1>3 DEF server_bind
    <3>2. CASE spc' = [spc EXCEPT ![s] = "done"]
      BY <3>2
    <3> QED
      BY <2>1, <3>1, <3>2
  <2>5. ServerOwns'
    BY <2>1, <2>3, <2>4
  <2> QED
    BY <2>3, <2>5
<1>4. CASE server_test(s)
  BY <1>4 DEF server_test
<1>5. CASE server_accept(s)
  BY <1>5 DEF server_accept
<1>6. CASE server_connection(s)
  <2> PICK c \in Clients, f \in Fds :
        /\ cpc[c] = "none" /\ file[f] = Free
        /\ cfd' = [cfd EXCEPT ![c] = f] /\ file' = [file EXCEPT ![f] = c]
        /\ cpc' = [cpc EXCEPT ![c] = "recv"]
    BY <1>6 DEF server_connection, Lowest
  <2>1. /\ spc[s] = "blocked" /\ spc' = [spc EXCEPT ![s] = "loop"]
        /\ UNCHANGED <<running, server_sock_fd, sfd>>
    BY <1>6 DEF server_connection
  <2>2. f # server_sock_fd
    BY <2>1
  <2>3. ClientsOwn'
    BY <2>1
  <2>4. NumbersFresh'
    BY <2>1, <2>2
  <2>5. ServerOwns'
    BY <2>1, <2>2
  <2> QED
    BY <2>3, <2>4, <2>5
<1>7. CASE server_error(s)
  BY <1>7 DEF server_error
<1>8. CASE server_failed(s)
  BY <1>8 DEF server_failed
<1>9. CASE server_close(s)
  <2>1. /\ spc[s] = "close" /\ spc' = [spc EXCEPT ![s] = "done"] /\ close_server_socket
        /\ UNCHANGED <<running, sfd, clientVars>>
    BY <1>9 DEF server_close
  <2>2. ClientsOwn' /\ NumbersFresh' /\ server_sock_fd' = -1
    BY <2>1, SocketClosed
  <2>3. ServerOwns'
    BY <2>1, <2>2
  <2> QED
    BY <2>2, <2>3
<1> QED
  BY <1>1, <1>2, <1>3, <1>4, <1>5, <1>6, <1>7, <1>8, <1>9 DEF Listener

LEMMA OwnedStep == ASSUME OneStart, TypeOK, Owned, [Next]_vars PROVE Owned'
<1>1. Threads /\ Descriptors
  BY DEF TypeOK, Threads, Descriptors
<1>2. CASE UNCHANGED vars
  BY <1>2 DEF vars, fdVars, serverVars, clientVars, Owned, ClientsOwn, ServerOwns, NumbersFresh,
              Serving, Unbound
<1> QED
  BY <1>1, <1>2, NextCases, OwnedByCaller, OwnedByServer, OwnedByClient

(* What a step of each actor does to the descriptors.                      *)
LEMMA FilesByServer ==
    ASSUME NEW s \in Servers, Listener(s) \/ server_connection(s)
    PROVE  \/ file' = file
           \/ \E f \in Fds, o \in Clients \union Servers :
                  file[f] = Free /\ file' = [file EXCEPT ![f] = o]
           \/ spc[s] = "bind" /\ file' = Closed(sfd[s])
           \/ spc[s] = "close" /\ server_sock_fd # -1 /\ file' = Closed(server_sock_fd)
    BY DEF Listener, server_socket, server_publish, server_bind, server_test, server_accept,
           server_error, server_failed, server_close, server_connection, close_server_socket,
           Lowest, fdVars

LEMMA FilesByClient ==
    ASSUME Owned, NEW c \in Clients, Client(c) \/ stream_spurious(c)
    PROVE  \/ file' = file
           \/ cpc[c] = "close" /\ cfd[c] \in Fds /\ file[cfd[c]] = c /\ file' = Closed(cfd[c])
    BY DEF Owned, ClientsOwn, Serving, At, Client, client_recv, client_page, client_stats,
           client_snapshot, client_close, stream_test, stream_lock, stream_check, stream_wait,
           stream_ready, stream_take, stream_send, stream_spurious

LEMMA FilesByCaller ==
    ASSUME start_server \/ start_clear \/ start_spawn \/ stop_server \/ stop_close
           \/ stop_broadcast \/ update_frame \/ UNCHANGED vars
    PROVE  \/ file' = file
           \/ mpc = "close" /\ server_sock_fd # -1 /\ file' = Closed(server_sock_fd)
    BY DEF start_server, start_clear, start_spawn, stop_server, stop_close, stop_broadcast,
           update_frame, close_server_socket, vars, fdVars

(* The listening socket outlives everything but stop_server.               *)
LEMMA ServerKeeps ==
    ASSUME OneStart, TypeOK, Owned, [Next]_vars, NEW s \in Listening,
           running, mpc # "close", file[sfd[s]] = s
    PROVE  file'[sfd[s]] = s
<1>1. /\ s \in Servers /\ spc[s] \in {"loop", "accept", "blocked", "failed"}
      /\ sfd[s] \in Fds /\ file \in [Fds -> Clients \union Servers \union {Free}]
  BY DEF Listening, Owned, ServerOwns, TypeOK
<1>2. CASE start_server \/ start_clear \/ start_spawn \/ stop_server \/ stop_close
           \/ stop_broadcast \/ update_frame \/ UNCHANGED vars
  BY <1>1, <1>2, FilesByCaller
<1>3. ASSUME NEW t \in Servers, Listener(t) \/ server_connection(t) PROVE file'[sfd[s]] = s
  <2>1. t = s
    BY <1>1 DEF OneStart
  <2> QED
    BY <1>1, <1>3, <2>1, FilesByServer, OwnersAssumption
<1>4. ASSUME NEW c \in Clients, Client(c) \/ stream_spurious(c) PROVE file'[sfd[s]] = s
  BY <1>1, <1>4, FilesByClient, OwnersAssumption DEF Closed
<1> QED
  BY <1>2, <1>3, <1>4, NextCases

(* A browser's socket outlives everything but its own thread.              *)
LEMMA BrowserKeeps ==
    ASSUME OneStart, TypeOK, Owned, [Next]_vars, NEW c \in Clients,
           cpc[c] \notin {"none", "close", "done"}
    PROVE  file'[cfd[c]] = c
<1>1. /\ cfd[c] \in Fds /\ file[cfd[c]] = c /\ server_sock_fd # cfd[c]
      /\ file \in [Fds -> Clients \union Servers \union {Free}]
  BY DEF Owned, ClientsOwn, NumbersFresh, Serving, TypeOK
<1>2. CASE start_server \/ start_clear \/ start_spawn \/ stop_server \/ stop_close
           \/ stop_broadcast \/ update_frame \/ UNCHANGED vars
  BY <1>1, <1>2, FilesByCaller DEF Closed
<1>3. ASSUME NEW t \in Servers, Listener(t) \/ server_connection(t) PROVE file'[cfd[c]] = c
  <2>1. spc[t] # "bind"
    BY DEF Owned, ServerOwns, Unbound
  <2> QED
    BY <1>1, <1>3, <2>1, FilesByServer, OwnersAssumption DEF Closed
<1>4. ASSUME NEW d \in Clients, Client(d) \/ stream_spurious(d) PROVE file'[cfd[c]] = c
  BY <1>1, <1>4, FilesByClient DEF Closed
<1> QED
  BY <1>2, <1>3, <1>4, NextCases

LEMMA OwnedInductive == OneStart => (Spec => [](TypeOK /\ Owned))
<1> SUFFICES ASSUME OneStart PROVE Spec => [](TypeOK /\ Owned)
  OBVIOUS
<1>1. TypeOK /\ Owned /\ [Next]_vars => Owned'
  BY OwnedStep
<1> QED
  BY <1>1, OwnedFirst, TypesHold, PTL DEF Spec

(* In a program that starts its server once, with any number of browsers   *)
(* and descriptors: no close ever takes a socket from its owner - the      *)
(* running server keeps its own until stop_server, each browser's thread   *)
(* its own until it ends, also after bind or listen failed and left a      *)
(* closed number published.                                                *)
THEOREM OnlyOwnersCloseHolds == OneStart => (Spec => OnlyOwnersClose)
<1> SUFFICES ASSUME OneStart PROVE Spec => OnlyOwnersClose
  OBVIOUS
<1>1. TypeOK /\ Owned /\ [Next]_vars =>
        [/\ \A s \in Listening :
                running /\ mpc # "close" /\ file[sfd[s]] = s => file'[sfd[s]] = s
         /\ \A c \in Clients :
                cpc[c] \notin {"none", "close", "done"} => file'[cfd[c]] = c]_vars
  <2> SUFFICES ASSUME TypeOK, Owned, [Next]_vars
               PROVE  /\ \A s \in Listening :
                             running /\ mpc # "close" /\ file[sfd[s]] = s => file'[sfd[s]] = s
                      /\ \A c \in Clients :
                             cpc[c] \notin {"none", "close", "done"} => file'[cfd[c]] = c
    OBVIOUS
  <2> QED
    BY ServerKeeps, BrowserKeeps
<1> QED
  BY <1>1, OwnedInductive, PTL DEF Spec, OnlyOwnersClose
----------------------------------------------------------------------------
(* Why stop_server ends the server thread: from the moment the socket is   *)
(* closed nothing can hold the thread, and what it does takes it nearer to *)
(* its end.                                                                *)
Stopped == ~running /\ mpc # "close"

Accepting ==
    /\ mpc \in {"clear", "spawn"} => running
    /\ mpc \in {"close", "broadcast"} => ~running
    /\ \A s \in Servers :
        /\ mpc \in {"clear", "spawn"} => spc[s] = "none"
        /\ spc[s] \in {"bind", "loop", "accept", "blocked", "failed"} /\ ~Stopped =>
              server_sock_fd = sfd[s]
        /\ Stopped /\ spc[s] = "accept" => file[sfd[s]] # s
        /\ Stopped /\ spc[s] = "blocked" => s \in shut

(* The steps a server thread still has before it at most, from each place. *)
Left(place) ==
    CASE place = "none" -> 8
      [] place = "socket" -> 7
      [] place = "publish" -> 6
      [] place = "bind" -> 5
      [] place = "accept" -> 4
      [] place = "blocked" -> 3
      [] place \in {"loop", "failed"} -> 2
      [] place = "close" -> 1
      [] OTHER -> 0

(* No thread of a stopped server waits for a connection on a socket that   *)
(* nobody shut down.                                                       *)
NotLeftInAccept == \A s \in Servers : Stopped /\ spc[s] = "blocked" => sock[s] \in shut

(* Every step a thread of a stopped server takes brings it nearer its end. *)
WindsDown ==
    [][\A s \in Servers : Stopped /\ spc'[s] # spc[s] => Left(spc'[s]) < Left(spc[s])]_vars

LEMMA AcceptingFirst == Init => Accepting
  BY DEF Init, Accepting

LEMMA AcceptingByCaller ==
    ASSUME OneStart, TypeOK, Owned, Accepting,
           start_server \/ start_clear \/ start_spawn \/ stop_server \/ stop_close
           \/ stop_broadcast \/ update_frame \/ UNCHANGED vars
    PROVE  Accepting'
<1> USE DEF Accepting, Stopped, OneStart, fdVars, serverVars, callerVars
<1>1. CASE start_server \/ start_clear \/ start_spawn
  <2>1. spc \in [Servers -> ServerPlaces]
    BY DEF TypeOK
  <2> QED
    BY <1>1, <2>1 DEF start_server, start_clear, start_spawn
<1>2. CASE stop_server
  BY <1>2 DEF stop_server
<1>3. CASE stop_close
  <2>1. /\ mpc = "close" /\ mpc' = "broadcast" /\ UNCHANGED <<running, spc, sfd>>
        /\ close_server_socket
    BY <1>3 DEF stop_close
  <2>2. ASSUME NEW s \in Servers, spc[s] \in {"accept", "blocked"}
        PROVE  s \in shut' /\ file'[sfd[s]] # s
    <3>1. server_sock_fd = sfd[s] /\ sfd[s] \in Fds /\ server_sock_fd # -1
      BY <2>1, <2>2, FdsAssumption DEF Owned, ServerOwns
    <3>2. file[server_sock_fd] = s /\ file \in [Fds -> Clients \union Servers \union {Free}]
      BY <2>2, <3>1 DEF Owned, ServerOwns, TypeOK
    <3> QED
      BY <2>1, <3>1, <3>2, OwnersAssumption DEF close_server_socket, Closed
  <2> QED
    BY <2>1, <2>2
<1>4. CASE stop_broadcast
  BY <1>4 DEF stop_broadcast
<1>5. CASE update_frame \/ UNCHANGED vars
  BY <1>5 DEF update_frame, vars
<1> QED
  BY <1>1, <1>2, <1>3, <1>4, <1>5

LEMMA AcceptingByServer ==
    ASSUME OneStart, TypeOK, Owned, Accepting, NEW s \in Servers,
           Listener(s) \/ server_connection(s)
    PROVE  Accepting'
<1> USE DEF Accepting, Stopped, OneStart, fdVars, callerVars
<1>1. UNCHANGED <<running, mpc>> /\ spc \in [Servers -> ServerPlaces]
      /\ sock \in [Servers -> Servers] /\ sfd \in [Servers -> Fds \union {-1}]
      /\ file \in [Fds -> Clients \union Servers \union {Free}]
  BY DEF Listener, server_socket, server_publish, server_bind, server_test, server_accept,
         server_error, server_failed, server_close, server_connection, TypeOK
<1>2. CASE server_socket(s)
  BY <1>1, <1>2 DEF server_socket
<1>3. CASE server_publish(s)
  BY <1>1, <1>3 DEF server_publish
<1>4. CASE server_bind(s)
  <2>1. /\ spc[s] = "bind" /\ UNCHANGED <<server_sock_fd, sfd, shut>>
        /\ spc' = [spc EXCEPT ![s] = "done"] \/ spc' = [spc EXCEPT ![s] = "loop"]
    BY <1>4 DEF server_bind
  <2> QED
    BY <1>1, <2>1
<1>5. CASE server_test(s)
  BY <1>1, <1>5 DEF server_test
<1>6. CASE server_accept(s)
  BY <1>1, <1>6 DEF server_accept, Listening
<1>7. CASE server_error(s)
  BY <1>1, <1>7 DEF server_error
<1>8. CASE server_failed(s)
  BY <1>1, <1>8 DEF server_failed
<1>9. CASE server_close(s)
  BY <1>1, <1>9 DEF server_close
<1>10. CASE server_connection(s)
  BY <1>1, <1>10 DEF server_connection
<1> QED
  BY <1>2, <1>3, <1>4, <1>5, <1>6, <1>7, <1>8, <1>9, <1>10 DEF Listener

LEMMA AcceptingByClient ==
    ASSUME OneStart, TypeOK, Owned, Accepting, NEW c \in Clients, Client(c) \/ stream_spurious(c)
    PROVE  Accepting'
<1>1. UNCHANGED <<running, mpc, server_sock_fd, shut, spc, sfd>>
  BY DEF Client, client_recv, client_page, client_stats, client_snapshot, client_close,
         stream_test, stream_lock, stream_check, stream_wait, stream_ready, stream_take,
         stream_send, stream_spurious, ClientStep, callerVars, serverVars
<1>2. file' = file \/ (cfd[c] \in Fds /\ file' = Closed(cfd[c]))
  BY FilesByClient
<1>3. ASSUME NEW s \in Servers, spc[s] = "accept", file[sfd[s]] # s PROVE file'[sfd[s]] # s
  <2>1. sfd[s] \in Fds /\ file \in [Fds -> Clients \union Servers \union {Free}]
    BY <1>3 DEF Owned, ServerOwns, TypeOK
  <2> QED
    BY <1>2, <1>3, <2>1, OwnersAssumption DEF Closed
<1> QED
  BY <1>1, <1>3 DEF Accepting, Stopped

LEMMA AcceptingInductive == OneStart => (Spec => [](TypeOK /\ Owned /\ Accepting))
<1> SUFFICES ASSUME OneStart PROVE Spec => [](TypeOK /\ Owned /\ Accepting)
  OBVIOUS
<1>1. TypeOK /\ Owned /\ Accepting /\ [Next]_vars => Accepting'
  BY AcceptingByCaller, AcceptingByServer, AcceptingByClient, NextCases
<1> QED
  BY <1>1, AcceptingFirst, OwnedInductive, PTL DEF Spec

(* After stop_server has closed the socket the server thread is never left *)
(* in accept: a call it is in waits on the socket that was shut down, and  *)
(* one it is about to make finds a closed number.                          *)
THEOREM NotLeftInAcceptHolds == OneStart => (Spec => []NotLeftInAccept)
<1> SUFFICES ASSUME OneStart PROVE Spec => []NotLeftInAccept
  OBVIOUS
<1>1. TypeOK /\ Accepting => NotLeftInAccept
  BY DEF TypeOK, Accepting, NotLeftInAccept, OneStart
<1> QED
  BY <1>1, AcceptingInductive, PTL

LEMMA WindsDownStep ==
    ASSUME OneStart, TypeOK, Owned, Accepting, [Next]_vars, NEW s \in Servers,
           Stopped, spc'[s] # spc[s]
    PROVE  Left(spc'[s]) < Left(spc[s])
<1> USE DEF Left
<1>1. Listener(s) \/ server_connection(s)
  <2>1. ASSUME NEW c \in Clients, Client(c) \/ stream_spurious(c) PROVE spc' = spc
    BY <2>1 DEF Client, client_recv, client_page, client_stats, client_snapshot, client_close,
         stream_test, stream_lock, stream_check, stream_wait, stream_ready, stream_take,
         stream_send, stream_spurious, ClientStep, serverVars
  <2>2. ~start_spawn
    BY DEF start_spawn, Accepting, Stopped
  <2>3. CASE start_server \/ start_clear \/ stop_server \/ stop_close \/ stop_broadcast
             \/ update_frame \/ UNCHANGED vars
    BY <2>3 DEF start_server, start_clear, stop_server, stop_close, stop_broadcast,
                update_frame, vars, serverVars
  <2>4. ASSUME NEW t \in Servers, Listener(t) \/ server_connection(t)
        PROVE  Listener(s) \/ server_connection(s)
    <3>1. t = s
      BY DEF OneStart
    <3> QED
      BY <2>4, <3>1
  <2> QED
    BY <2>1, <2>2, <2>3, <2>4, NextCases
<1>2. spc \in [Servers -> ServerPlaces]
  BY DEF TypeOK
<1>3. CASE server_socket(s) \/ server_publish(s) \/ server_bind(s) \/ server_test(s)
           \/ server_failed(s) \/ server_close(s) \/ server_error(s)
  BY <1>2, <1>3 DEF server_socket, server_publish, server_bind, server_test, server_failed,
                    server_close, server_error, Stopped
<1>4. CASE server_accept(s)
  <2>1. file[sfd[s]] \notin Listening
    BY <1>4 DEF server_accept, Accepting, Listening, OneStart
  <2> QED
    BY <1>2, <1>4, <2>1 DEF server_accept
<1>5. ~server_connection(s)
  BY DEF server_connection, Accepting, TypeOK, OneStart
<1> QED
  BY <1>1, <1>3, <1>4, <1>5 DEF Listener

(* From then on every step of the thread takes it nearer its end: at most  *)
(* seven are left, so that the thread ends as soon as it is scheduled.     *)
THEOREM WindsDownHolds == OneStart => (Spec => WindsDown)
<1> SUFFICES ASSUME OneStart PROVE Spec => WindsDown
  OBVIOUS
<1>1. TypeOK /\ Owned /\ Accepting /\ [Next]_vars =>
        [\A s \in Servers : Stopped /\ spc'[s] # spc[s] => Left(spc'[s]) < Left(spc[s])]_vars
  BY WindsDownStep
<1> QED
  BY <1>1, AcceptingInductive, PTL DEF Spec, WindsDown
====
