---------------------------- MODULE PlayerInRoom ----------------------------
(***************************************************************************)
(* PlayerInRoom::task (src/player/in_room.rs): one task per player, which  *)
(* turns what its client sends into requests to the room, and what the     *)
(* room notifies it of into messages to the client.                        *)
(*                                                                         *)
(*   "run"     in the select! loop (or still sending the room details)     *)
(*   "asking"  blocked in send_req!, the request channel being full        *)
(*   "leaving" blocked in close_connection! or drop_connection!            *)
(*   "ending"  out of the loop: nothing is left to do but return           *)
(*   "done"    the task has returned, its channel ends are dropped         *)
(*                                                                         *)
(* Pings, pongs and the response time limit decide WHEN a client is        *)
(* dropped; here ClientGone may happen at any time.                        *)
(***************************************************************************)
EXTENDS RoomChannels

PlayerGoto(i, place) == ppc' = [ppc EXCEPT ![i] = place]

\* send().await on the request channel by a task at "run": sent at once when
\* there is room (the task goes on at `next`), blocked at `blocked` when the
\* channel is full, an error that ends the task when the receiver is gone.
PostRequest(i, request, next, blocked) ==
  /\ UNCHANGED closes
  /\ \/ /\ RoomGone
        /\ PlayerGoto(i, "ending")
        /\ UNCHANGED <<requests, pend>>
     \/ /\ ~RoomGone
        /\ Len(requests) < PLAYER_REQUEST_BUFFER_SIZE
        /\ requests' = Append(requests, request)
        /\ PlayerGoto(i, next)
        /\ UNCHANGED pend
     \/ /\ ~RoomGone
        /\ Len(requests) = PLAYER_REQUEST_BUFFER_SIZE
        /\ PlayerGoto(i, blocked)
        /\ pend' = [pend EXCEPT ![i] = <<request>>]
        /\ UNCHANGED requests

\* send_req!
SendReq(i, request) == PostRequest(i, request, "run", "asking")

\* Mutant: the task leaves its loop without a word to the room.
DropWithoutRequest(i) ==
  /\ PlayerGoto(i, "ending")
  /\ UNCHANGED <<requests, closes, pend>>

\* drop_connection! and the break or return that follows every use of it.
DropConnection(i) == PostRequest(i, DropRequest(i), "ending", "leaving")

\* close_connection! and the break that follows every use of it.
CloseConnection(i, code) ==
  LET request == [from |-> i, code |-> code]
  IN  /\ UNCHANGED requests
      /\ \/ /\ RoomGone
            /\ PlayerGoto(i, "ending")
            /\ UNCHANGED <<closes, pend>>
         \/ /\ ~RoomGone
            /\ Len(closes) < PLAYER_REQUEST_BUFFER_SIZE
            /\ closes' = Append(closes, request)
            /\ PlayerGoto(i, "ending")
            /\ UNCHANGED pend
         \/ /\ ~RoomGone
            /\ Len(closes) = PLAYER_REQUEST_BUFFER_SIZE
            /\ PlayerGoto(i, "leaving")
            /\ pend' = [pend EXCEPT ![i] = <<request>>]
            /\ UNCHANGED closes
-----------------------------------------------------------------------------
\* The client sends a valid request: seal, or a message to any id at all.
ClientAsks(i) ==
  /\ ppc[i] = "run"
  /\ budget.requests < MaxRequests
  /\ budget' = [budget EXCEPT !.requests = @ + 1]
  /\ \E request \in {SealRoom(i)} \cup {SendTo(i, j) : j \in PlayerId} :
       SendReq(i, request)
  /\ UNCHANGED <<roomVars, newClients, notes, control, hears, view,
                 lobbySees, shutdown>>

\* The client sends something the task answers with a close code.
ClientFaults(i) ==
  /\ ppc[i] = "run"
  /\ CloseConnection(i, "ClientFault")
  /\ UNCHANGED <<roomVars, newClients, notes, control, hears, view, envVars>>

\* The client closes the connection, the stream ends or fails (in next() or in
\* any send_msg!), or the client did not answer a ping in time.
ClientGone(i) ==
  /\ ppc[i] = "run"
  /\ DropConnection(i)
  /\ UNCHANGED <<roomVars, newClients, notes, control, hears, view, envVars>>

\* The task reads a notification and passes it to the client.
ReadNews(i) ==
  /\ ppc[i] = "run"
  /\ notes[i] # <<>>
  /\ Head(notes[i]).kind \in {"joined", "left", "message"}
  /\ notes' = [notes EXCEPT ![i] = Tail(@)]
  /\ view' = [view EXCEPT ![i] = Heard(@, Head(notes[i]))]
  /\ UNCHANGED <<roomVars, newClients, requests, closes, control, ppc, pend,
                 hears, envVars>>

\* Mutant: a task that has lagged waits for the next notification.
EndsUnlessLagged(note) == note.kind = "end"

Ends(note) == note.kind \in {"end", "lagged"}

\* The task reads HostLeft, RoomSealed or Error(code), or finds it has lagged.
ReadEnd(i) ==
  /\ ppc[i] = "run"
  /\ notes[i] # <<>>
  /\ Ends(Head(notes[i]))
  /\ CloseConnection(i, Head(notes[i]).of)
  /\ notes' = [notes EXCEPT ![i] = Tail(@)]
  /\ UNCHANGED <<roomVars, newClients, control, hears, view, envVars>>

\* RecvError::Closed: the room was aborted and its sender is gone.
ReadClosed(i) ==
  /\ ppc[i] = "run"
  /\ notes[i] = <<>>
  /\ RoomGone
  /\ PlayerGoto(i, "ending")
  /\ UNCHANGED <<roomVars, channelVars, pend, hears, view, envVars>>

\* The shutdown signal: the task breaks out of its loop and posts nothing.
HearShutdown(i) ==
  /\ ppc[i] = "run"
  /\ shutdown
  /\ hears[i]
  /\ PlayerGoto(i, "ending")
  /\ UNCHANGED <<roomVars, channelVars, pend, hears, view, envVars>>
-----------------------------------------------------------------------------
\* A blocked send completes: the request goes into the channel that has room
\* again, or fails because the room is gone.
Unblock(i, next) ==
  /\ PlayerGoto(i, IF RoomGone THEN "ending" ELSE next)
  /\ pend' = [pend EXCEPT ![i] = <<>>]
  /\ UNCHANGED <<roomVars, newClients, notes, control, hears, view, envVars>>

ResumeAsking(i) ==
  /\ ppc[i] = "asking"
  /\ \/ RoomGone /\ UNCHANGED requests
     \/ /\ ~RoomGone
        /\ Len(requests) < PLAYER_REQUEST_BUFFER_SIZE
        /\ requests' = Append(requests, pend[i][1])
  /\ UNCHANGED closes
  /\ Unblock(i, "run")

ResumeLeaving(i) ==
  /\ ppc[i] = "leaving"
  /\ \/ RoomGone /\ UNCHANGED <<requests, closes>>
     \/ /\ ~RoomGone
        /\ pend[i][1] \in RoomRequest
        /\ Len(requests) < PLAYER_REQUEST_BUFFER_SIZE
        /\ requests' = Append(requests, pend[i][1])
        /\ UNCHANGED closes
     \/ /\ ~RoomGone
        /\ pend[i][1] \in CloseRequest
        /\ Len(closes) < PLAYER_REQUEST_BUFFER_SIZE
        /\ closes' = Append(closes, pend[i][1])
        /\ UNCHANGED requests
  /\ Unblock(i, "ending")

\* The task returns: its stream (if not handed over), receivers and senders go.
Return(i) ==
  /\ ppc[i] = "ending"
  /\ PlayerGoto(i, "done")
  /\ notes' = [notes EXCEPT ![i] = <<>>]
  /\ view' = [view EXCEPT ![i] = {}]
  /\ hears' = [hears EXCEPT ![i] = FALSE]
  /\ UNCHANGED <<roomVars, newClients, requests, closes, control, pend,
                 envVars>>

PlayerStep(i) ==
  \/ ClientAsks(i) \/ ClientFaults(i) \/ ClientGone(i)
  \/ ReadNews(i) \/ ReadEnd(i) \/ ReadClosed(i) \/ HearShutdown(i)
  \/ ResumeAsking(i) \/ ResumeLeaving(i) \/ Return(i)
=============================================================================
