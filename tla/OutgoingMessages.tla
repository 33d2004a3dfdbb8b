-------------------------- MODULE OutgoingMessages --------------------------
(***************************************************************************)
(* The messages clients send (silc-message.c).  One for a channel is sent  *)
(* at once.  A private message names a nickname: it waits for a WHOIS,     *)
(* whose answer the library gives to i_silc_privmsg_whois_callback, and    *)
(* goes to the first client of that answer, whoever else bears the name.   *)
(***************************************************************************)
EXTENDS Naturals

CONSTANTS Messages  \* what the clients have to say

VARIABLES state     \* how far message m has come

States == {"unsent", "whois", "sent", "dropped", "refused", "void"}

MessagesTypeOK == state \in [Messages -> States]
MessagesInit == state = [m \in Messages |-> "unsent"]

Become(m, s) == state' = [state EXCEPT ![m] = s]
-----------------------------------------------------------------------------
(* i_silc_message_send *)

\* The client is told that there is no such channel connection.
MessageNotFound(m) == state[m] = "unsent" /\ Become(m, "refused")

\* The library takes a channel message or not; when it does not, the client is
\* told.
MessageSendChannel(m) ==
  /\ state[m] = "unsent"
  /\ Become(m, "sent") \/ Become(m, "refused")

MessageSendPrivate(m) == state[m] = "unsent" /\ Become(m, "whois")

\* Either over a conn that is NULL or freed: nothing is known to come of it, and
\* the process may die of it.
MessageToNothing(m) == state[m] = "unsent" /\ Become(m, "void")
-----------------------------------------------------------------------------
(* i_silc_privmsg_whois_callback *)

GiveUp(m) == Become(m, "dropped")

\* The answer is empty or its first client is not in the library's cache, and the
\* message is dropped without a word; or it goes to that client.
WhoisCallback(m) ==
  /\ state[m] = "whois"
  /\ GiveUp(m) \/ Become(m, "sent")

\* The messages ms, if they wait, are forgotten by the library with their
\* connection.
Forget(ms) ==
  state' = [m \in Messages |->
              IF m \in ms /\ state[m] = "whois" THEN "dropped" ELSE state[m]]
=============================================================================
