---- MODULE Transmission ----
(***************************************************************************)
(* The MJPEG server of ww_transmission.cpp: the thread that calls start,   *)
(* stop and update_frame; one detached server thread per start; one        *)
(* detached thread per accepted browser.  Data shared without a lock       *)
(* (running) is read and written in steps of its own; frame_mutex is       *)
(* modelled with its holder wherever the section reads `running` inside.   *)
(* Descriptors are numbers the kernel hands out again: closing one says    *)
(* nothing about who owns the number by then.                              *)
(***************************************************************************)
EXTENDS Integers, FiniteSets

CONSTANTS
    Clients,      \* browser connections, each served by a thread of its own
    Servers,      \* server threads: one per call of start_server
    Fds,          \* descriptor numbers
    MaxFrames     \* bound on latest_frame_id

Free == "free"

ASSUME FdsAssumption == Fds \subseteq Nat /\ IsFiniteSet(Fds)
ASSUME FramesAssumption == MaxFrames \in Nat
ASSUME OwnersAssumption ==
    /\ Clients \cap Servers = {}
    /\ Free \notin Clients \union Servers

VARIABLES
    running,          \* the plain bool every thread reads
    latest_frame_id,
    current_jpeg,     \* 0 when empty, otherwise the number of the frame it holds
    server_sock_fd,   \* -1 when none
    frame_mutex,      \* its holder, or Free
    file,             \* descriptor number -> owner
    shut,             \* the server threads whose socket was shut down
    mpc,              \* where the calling thread is
    spc, sfd, sock,   \* server thread: place, its local server_sock, the socket it waits on
    cpc, cfd,         \* client thread: place, its local sock
    copy, last        \* jpeg_copy, last_frame_sent

data == <<latest_frame_id, current_jpeg, frame_mutex>>
callerVars == <<mpc>>
serverVars == <<spc, sfd, sock>>
streamVars == <<copy, last>>
clientVars == <<cpc, cfd>>
fdVars == <<server_sock_fd, file, shut>>
vars == <<running, data, fdVars, callerVars, serverVars, clientVars, streamVars>>

Init ==
    /\ running = FALSE
    /\ latest_frame_id = 0
    /\ current_jpeg = 0
    /\ server_sock_fd = -1
    /\ frame_mutex = Free
    /\ file = [f \in Fds |-> Free]
    /\ shut = {}
    /\ mpc = "idle"
    /\ spc = [s \in Servers |-> "none"]
    /\ sfd = [s \in Servers |-> -1]
    /\ sock = [s \in Servers |-> s]
    /\ cpc = [c \in Clients |-> "none"]
    /\ cfd = [c \in Clients |-> -1]
    /\ copy = [c \in Clients |-> 0]
    /\ last = [c \in Clients |-> 0]

----------------------------------------------------------------------------
(* The kernel's part: the lowest free number is handed out.                *)

Lowest(f) == file[f] = Free /\ \A g \in Fds : file[g] = Free => f <= g

NoFreeFd == \A f \in Fds : file[f] # Free

\* close(fd): the number is given back, whoever owns it at that moment
Closed(fd) == [file EXCEPT ![fd] = Free]

\* server threads whose socket is listening
Listening == {s \in Servers : spc[s] \in {"loop", "accept", "blocked", "failed", "close"}}

(* pthread_cond_broadcast(&frame_cond)                                     *)
Woken == [c \in Clients |-> IF cpc[c] = "asleep" THEN "woken" ELSE cpc[c]]

\* [variant] close without shutdown: a thread blocked in accept stays there
close_server_socket_quiet ==
    IF server_sock_fd = -1
    THEN UNCHANGED fdVars
    ELSE /\ file' = Closed(server_sock_fd)
         /\ server_sock_fd' = -1
         /\ UNCHANGED shut

close_server_socket ==
    IF server_sock_fd = -1
    THEN UNCHANGED fdVars
    ELSE /\ shut' = shut \union ({file[server_sock_fd]} \cap Servers)
         /\ file' = Closed(server_sock_fd)
         /\ server_sock_fd' = -1

----------------------------------------------------------------------------
(* The calling thread.                                                     *)

start_server ==
    /\ mpc = "idle" /\ ~running
    /\ \E s \in Servers : spc[s] = "none"
    /\ running' = TRUE
    /\ latest_frame_id' = 0
    /\ mpc' = "clear"
    /\ UNCHANGED <<current_jpeg, frame_mutex, fdVars, serverVars, clientVars, streamVars>>

start_clear ==
    /\ mpc = "clear"
    /\ current_jpeg' = 0
    /\ mpc' = "spawn"
    /\ UNCHANGED <<running, latest_frame_id, frame_mutex, fdVars, serverVars, clientVars, streamVars>>

start_spawn ==
    /\ mpc = "spawn"
    /\ mpc' = "idle"
    /\ \/ running' = FALSE /\ UNCHANGED spc
       \/ /\ \E s \in Servers : spc[s] = "none" /\ spc' = [spc EXCEPT ![s] = "socket"]
          /\ UNCHANGED running
    /\ UNCHANGED <<data, fdVars, sfd, sock, clientVars, streamVars>>

stop_server ==
    /\ mpc = "idle" /\ running
    /\ running' = FALSE
    /\ mpc' = "close"
    /\ UNCHANGED <<data, fdVars, serverVars, clientVars, streamVars>>

stop_close ==
    /\ mpc = "close"
    /\ close_server_socket
    /\ mpc' = "broadcast"
    /\ UNCHANGED <<running, data, serverVars, clientVars, streamVars>>

stop_broadcast ==
    /\ mpc = "broadcast"
    /\ cpc' = Woken
    /\ mpc' = "idle"
    /\ UNCHANGED <<running, data, fdVars, serverVars, cfd, streamVars>>

\* [variant] the frame is replaced without taking frame_mutex
update_frame_unlocked ==
    /\ mpc = "idle"
    /\ latest_frame_id < MaxFrames
    /\ current_jpeg' = latest_frame_id + 1
    /\ latest_frame_id' = latest_frame_id + 1
    /\ cpc' = Woken
    /\ UNCHANGED <<running, frame_mutex, fdVars, callerVars, serverVars, cfd, streamVars>>

\* [variant] the broadcast is forgotten
update_frame_silent ==
    /\ mpc = "idle"
    /\ frame_mutex = Free
    /\ latest_frame_id < MaxFrames
    /\ current_jpeg' = latest_frame_id + 1
    /\ latest_frame_id' = latest_frame_id + 1
    /\ UNCHANGED <<running, frame_mutex, fdVars, callerVars, serverVars, clientVars, streamVars>>

(* update_frame_mat and update_frame_jpeg: the critical section            *)
update_frame ==
    /\ mpc = "idle"
    /\ frame_mutex = Free
    /\ latest_frame_id < MaxFrames
    /\ current_jpeg' = latest_frame_id + 1
    /\ latest_frame_id' = latest_frame_id + 1
    /\ cpc' = Woken
    /\ UNCHANGED <<running, frame_mutex, fdVars, callerVars, serverVars, cfd, streamVars>>

Caller == start_server \/ start_clear \/ start_spawn \/ stop_server \/ stop_close
          \/ stop_broadcast \/ update_frame

----------------------------------------------------------------------------
(* server_thread_func                                                      *)

server_socket(s) ==
    /\ spc[s] = "socket"
    /\ \/ /\ spc' = [spc EXCEPT ![s] = "done"]
          /\ UNCHANGED <<sfd, file>>
       \/ \E f \in Fds :
            /\ Lowest(f)
            /\ sfd' = [sfd EXCEPT ![s] = f]
            /\ file' = [file EXCEPT ![f] = s]
            /\ spc' = [spc EXCEPT ![s] = "publish"]
    /\ UNCHANGED <<running, data, server_sock_fd, shut, callerVars, sock, clientVars, streamVars>>

server_publish(s) ==
    /\ spc[s] = "publish"
    /\ server_sock_fd' = sfd[s]
    /\ spc' = [spc EXCEPT ![s] = "bind"]
    /\ UNCHANGED <<running, data, file, shut, callerVars, sfd, sock, clientVars, streamVars>>

(* bind and listen; the error path closes the local number only            *)
server_bind(s) ==
    /\ spc[s] = "bind"
    /\ \/ /\ spc' = [spc EXCEPT ![s] = "done"]
          /\ file' = Closed(sfd[s])
       \/ /\ file[sfd[s]] = s
          /\ spc' = [spc EXCEPT ![s] = "loop"]
          /\ UNCHANGED file
    /\ UNCHANGED <<running, data, server_sock_fd, shut, callerVars, sfd, sock, clientVars, streamVars>>

server_test(s) ==
    /\ spc[s] = "loop"
    /\ spc' = [spc EXCEPT ![s] = IF running THEN "accept" ELSE "close"]
    /\ UNCHANGED <<running, data, fdVars, callerVars, sfd, sock, clientVars, streamVars>>

(* accept looks its number up once: it waits on the socket it finds        *)
server_accept(s) ==
    /\ spc[s] = "accept"
    /\ IF file[sfd[s]] \in Listening
       THEN /\ sock' = [sock EXCEPT ![s] = file[sfd[s]]]
            /\ spc' = [spc EXCEPT ![s] = "blocked"]
       ELSE /\ spc' = [spc EXCEPT ![s] = "failed"]
            /\ UNCHANGED sock
    /\ UNCHANGED <<running, data, fdVars, callerVars, sfd, clientVars, streamVars>>

(* a browser connects, and its thread is created and detached              *)
server_connection(s) ==
    /\ spc[s] = "blocked" /\ sock[s] \notin shut
    /\ \E c \in Clients, f \in Fds :
         /\ cpc[c] = "none"
         /\ Lowest(f)
         /\ cfd' = [cfd EXCEPT ![c] = f]
         /\ file' = [file EXCEPT ![f] = c]
         /\ cpc' = [cpc EXCEPT ![c] = "recv"]
    /\ spc' = [spc EXCEPT ![s] = "loop"]
    /\ UNCHANGED <<running, data, server_sock_fd, shut, callerVars, sfd, sock, streamVars>>

(* accept returns an error: the socket was shut down, or no number is left *)
server_error(s) ==
    /\ spc[s] = "blocked"
    /\ sock[s] \in shut \/ NoFreeFd
    /\ spc' = [spc EXCEPT ![s] = "failed"]
    /\ UNCHANGED <<running, data, fdVars, callerVars, sfd, sock, clientVars, streamVars>>

\* [variant] any error of accept leaves the loop
server_failed_leaves(s) ==
    /\ spc[s] = "failed"
    /\ spc' = [spc EXCEPT ![s] = "close"]
    /\ UNCHANGED <<running, data, fdVars, callerVars, sfd, sock, clientVars, streamVars>>

server_failed(s) ==
    /\ spc[s] = "failed"
    /\ spc' = [spc EXCEPT ![s] = IF running THEN "loop" ELSE "close"]
    /\ UNCHANGED <<running, data, fdVars, callerVars, sfd, sock, clientVars, streamVars>>

server_close(s) ==
    /\ spc[s] = "close"
    /\ close_server_socket
    /\ spc' = [spc EXCEPT ![s] = "done"]
    /\ UNCHANGED <<running, data, callerVars, sfd, sock, clientVars, streamVars>>

(* every step of a server thread but the one a browser decides             *)
Listener(s) ==
    \/ server_socket(s) \/ server_publish(s) \/ server_bind(s) \/ server_test(s)
    \/ server_accept(s) \/ server_error(s) \/ server_failed(s) \/ server_close(s)

----------------------------------------------------------------------------
(* client_thread_func, handle_client_request                               *)

At(c, place) == cpc[c] = place
Goto(c, place) == cpc' = [cpc EXCEPT ![c] = place]
ClientStep == UNCHANGED <<running, latest_frame_id, current_jpeg, server_sock_fd, shut,
                          callerVars, serverVars>>

client_recv(c) ==
    /\ At(c, "recv")
    /\ \E place \in {"close", "stream", "snapshot", "stats", "page"} : Goto(c, place)
    /\ ClientStep
    /\ UNCHANGED <<frame_mutex, file, cfd, streamVars>>

(* the viewer page and the 404: nothing shared is read                     *)
client_page(c) ==
    /\ At(c, "page")
    /\ Goto(c, "close")
    /\ ClientStep
    /\ UNCHANGED <<frame_mutex, file, cfd, streamVars>>

(* /stats: latest_frame_id is read under the mutex                         *)
client_stats(c) ==
    /\ At(c, "stats")
    /\ frame_mutex = Free
    /\ Goto(c, "close")
    /\ ClientStep
    /\ UNCHANGED <<frame_mutex, file, cfd, streamVars>>

(* /snapshot: the picture is copied under the mutex and sent, or an error  *)
client_snapshot(c) ==
    /\ At(c, "snapshot")
    /\ frame_mutex = Free
    /\ copy' = [copy EXCEPT ![c] = current_jpeg]
    /\ Goto(c, "close")
    /\ ClientStep
    /\ UNCHANGED <<frame_mutex, file, cfd, last>>

client_close(c) ==
    /\ At(c, "close")
    /\ file' = Closed(cfd[c])
    /\ Goto(c, "done")
    /\ ClientStep
    /\ UNCHANGED <<frame_mutex, cfd, streamVars>>

(* send_mjpeg_stream                                                       *)

stream_test(c) ==
    /\ At(c, "stream")
    /\ Goto(c, IF running THEN "lock" ELSE "close")
    /\ ClientStep
    /\ UNCHANGED <<frame_mutex, file, cfd, streamVars>>

(* pthread_mutex_lock, and the lock a waiter takes again when woken        *)
stream_lock(c) ==
    /\ At(c, "lock") \/ At(c, "woken")
    /\ frame_mutex = Free
    /\ frame_mutex' = c
    /\ Goto(c, "check")
    /\ ClientStep
    /\ UNCHANGED <<file, cfd, streamVars>>

\* [variant] the waiter does not look at latest_frame_id
stream_check_any(c) ==
    /\ At(c, "check")
    /\ Goto(c, "ready")
    /\ ClientStep
    /\ UNCHANGED <<frame_mutex, file, cfd, streamVars>>

stream_check(c) ==
    /\ At(c, "check")
    /\ Goto(c, IF running /\ latest_frame_id = last[c] THEN "wait" ELSE "ready")
    /\ ClientStep
    /\ UNCHANGED <<frame_mutex, file, cfd, streamVars>>

(* pthread_cond_wait: the mutex is given up and the thread queued at once  *)
stream_wait(c) ==
    /\ At(c, "wait")
    /\ frame_mutex' = Free
    /\ Goto(c, "asleep")
    /\ ClientStep
    /\ UNCHANGED <<file, cfd, streamVars>>

stream_spurious(c) ==
    /\ At(c, "asleep")
    /\ Goto(c, "woken")
    /\ ClientStep
    /\ UNCHANGED <<frame_mutex, file, cfd, streamVars>>

\* [variant] the error paths forget to unlock
stream_ready_keeps(c) ==
    /\ At(c, "ready")
    /\ IF running /\ current_jpeg # 0
       THEN copy' = [copy EXCEPT ![c] = current_jpeg] /\ Goto(c, "take")
       ELSE Goto(c, IF running THEN "stream" ELSE "close") /\ UNCHANGED copy
    /\ ClientStep
    /\ UNCHANGED <<frame_mutex, file, cfd, last>>

\* stopped: leave; nothing to show: unlock and try again; else copy the frame
stream_ready(c) ==
    /\ At(c, "ready")
    /\ IF running /\ current_jpeg # 0
       THEN /\ copy' = [copy EXCEPT ![c] = current_jpeg]
            /\ Goto(c, "take")
            /\ UNCHANGED frame_mutex
       ELSE /\ frame_mutex' = Free
            /\ Goto(c, IF running THEN "stream" ELSE "close")
            /\ UNCHANGED copy
    /\ ClientStep
    /\ UNCHANGED <<file, cfd, last>>

stream_take(c) ==
    /\ At(c, "take")
    /\ last' = [last EXCEPT ![c] = latest_frame_id]
    /\ frame_mutex' = Free
    /\ Goto(c, "send")
    /\ ClientStep
    /\ UNCHANGED <<file, cfd, copy>>

(* three sends; the first that fails ends the stream                       *)
stream_send(c) ==
    /\ At(c, "send")
    /\ Goto(c, "stream") \/ Goto(c, "close")
    /\ ClientStep
    /\ UNCHANGED <<frame_mutex, file, cfd, streamVars>>

Client(c) ==
    \/ client_recv(c) \/ client_page(c) \/ client_stats(c) \/ client_snapshot(c)
    \/ client_close(c) \/ stream_test(c) \/ stream_lock(c) \/ stream_check(c) \/ stream_wait(c)
    \/ stream_ready(c) \/ stream_take(c) \/ stream_send(c)

----------------------------------------------------------------------------
Next ==
    \/ Caller
    \/ \E s \in Servers : Listener(s) \/ server_connection(s)
    \/ \E c \in Clients : Client(c) \/ stream_spurious(c)

Spec == Init /\ [][Next]_vars

(* A call under way is finished and the threads are scheduled; a thread    *)
(* that wants a mutex given up again and again gets it.  A receive or a    *)
(* send ends, with data or an error.  No connection, no spurious wake-up,  *)
(* no new call and no frame is ever promised.                              *)
FairSpec ==
    /\ Spec
    /\ WF_vars(start_clear) /\ WF_vars(start_spawn)
    /\ WF_vars(stop_close) /\ WF_vars(stop_broadcast)
    /\ \A s \in Servers : WF_vars(Listener(s))
    /\ \A c \in Clients : WF_vars(Client(c)) /\ SF_vars(stream_lock(c))

----------------------------------------------------------------------------
CallerPlaces == {"idle", "clear", "spawn", "close", "broadcast"}
ServerPlaces == {"none", "socket", "publish", "bind", "loop", "accept", "blocked", "failed",
                 "close", "done"}
LockedPlaces == {"check", "wait", "ready", "take"}
ClientPlaces == LockedPlaces \union
                {"none", "recv", "page", "snapshot", "stats", "stream", "lock", "asleep", "woken",
                 "send", "close", "done"}
Frames == 0 .. MaxFrames

(* Every variable keeps to its type; the mutex is held exactly by the      *)
(* thread that is inside the section of send_mjpeg_stream.                 *)
TypeOK ==
    /\ running \in BOOLEAN
    /\ latest_frame_id \in Frames /\ current_jpeg \in Frames
    /\ server_sock_fd \in Fds \union {-1}
    /\ frame_mutex \in Clients \union {Free}
    /\ \A c \in Clients : cpc[c] \in LockedPlaces <=> frame_mutex = c
    /\ file \in [Fds -> Clients \union Servers \union {Free}]
    /\ shut \subseteq Servers
    /\ mpc \in CallerPlaces
    /\ spc \in [Servers -> ServerPlaces]
    /\ sfd \in [Servers -> Fds \union {-1}]
    /\ sock \in [Servers -> Servers]
    /\ cpc \in [Clients -> ClientPlaces]
    /\ cfd \in [Clients -> Fds \union {-1}]
    /\ copy \in [Clients -> Frames] /\ last \in [Clients -> Frames]

(* What a browser is sent under a frame number is the frame published with *)
(* that number, however updates fall between the two lines that copy it.   *)
WholeFrames == \A c \in Clients : cpc[c] = "send" => copy[c] = last[c]

(* A thread asleep in pthread_cond_wait has sent the newest frame: no      *)
(* update slips between its test of latest_frame_id and its sleep.         *)
NoMissedFrame == \A c \in Clients : cpc[c] = "asleep" => latest_frame_id = last[c]

(* No browser is sent a frame twice, or an older one after a newer one.    *)
FrameOrder ==
    [][\A c \in Clients : cpc[c] # "send" /\ cpc'[c] = "send" => last'[c] > last[c]]_vars

(* A close meant for one descriptor never takes another's number: only     *)
(* stop_server closes the listening socket of a running server, and only a *)
(* browser's own thread, at its end, that browser's socket - whatever      *)
(* thread ends, whatever bind or accept reports, and although numbers are  *)
(* handed out again.                                                       *)
OnlyOwnersClose ==
    [][/\ \A s \in Listening :
             running /\ mpc # "close" /\ file[sfd[s]] = s => file'[sfd[s]] = s
       /\ \A c \in Clients :
             cpc[c] \notin {"none", "close", "done"} => file'[cfd[c]] = c]_vars

(* stop_server ends the server thread wherever it stands: before its       *)
(* socket is published, between two accepts, or blocked in one.            *)
ServerEnds ==
    ~running ~> (running \/ \A s \in Servers : spc[s] \in {"none", "done"})

(* A frame published while a browser streams reaches it, unless the stream *)
(* ends or the server is stopped first.                                    *)
Delivered ==
    \A c \in Clients, n \in 1 .. MaxFrames :
        (latest_frame_id = n /\ cpc[c] \in {"stream", "lock", "asleep", "woken", "send"})
            ~> (last[c] >= n \/ cpc[c] \in {"close", "done"} \/ ~running)

(* "stop_server: stops the server and releases all resources": every       *)
(* browser's thread ends.                                                  *)
StopReleases ==
    ~running ~> (running \/ \A c \in Clients : cpc[c] \in {"none", "done"})
====
