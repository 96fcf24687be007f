------------------------------ MODULE Messages ------------------------------
(***************************************************************************)
(* MessagesManager, MessagesController and their two models: the table of  *)
(* SIP messages, the conversation on screen, the list of conversations and *)
(* the unread badge.  A received message goes through one more turn of the *)
(* event loop before it is appended.  Times grow, so the table is in the   *)
(* order of its times.                                                     *)
(***************************************************************************)
EXTENDS Naturals, Sequences, FiniteSets, SequencesExt

CONSTANTS
  Peers,
  kThreadLimit,   \* listByPeer's default limit (500 in the code)
  MaxMessages,    \* bound: rows of the table
  MaxInbox        \* bound: received messages not yet appended

NoPeer == "nobody"

ASSUME MessagesAssumption == NoPeer \notin Peers /\ {kThreadLimit, MaxMessages, MaxInbox} \subseteq Nat

VARIABLES
  messages,       \* the table: peer, direction, read flag
  inbox,          \* closures posted by instantMessageReceived
  m_peer,         \* MessagesModel: the selected conversation
  m_thread,       \* MessagesModel::m_snapshot: ids, with their read flags
  m_summaries,    \* ConversationsModel::m_rows: per peer, last message and unread
  badge           \* the unread count QML last read

messagesVars == <<messages, inbox, m_peer, m_thread, m_summaries, badge>>

Message == [peer : Peers, incoming : BOOLEAN, read : BOOLEAN]

\* listByPeer: the first kThreadLimit messages with this peer, oldest first.
ListByPeer(table, peer) ==
  LET with == SelectSeq([i \in DOMAIN table |-> [id |-> i, peer |-> table[i].peer, read |-> table[i].read]],
                        LAMBDA m : m.peer = peer)
  IN SubSeq(with, 1, IF Len(with) < kThreadLimit THEN Len(with) ELSE kThreadLimit)

\* conversationSummaries: the newest message with each peer, and whether any
\* received from it is unread.
ConversationSummaries(table) ==
  [p \in Peers |-> [last |-> SelectLastInSeq(table, LAMBDA m : m.peer = p),
                    unread |-> \E i \in DOMAIN table : table[i].peer = p /\ table[i].incoming /\ ~table[i].read]]

UnreadCount(table) == Cardinality({i \in DOMAIN table : table[i].incoming /\ ~table[i].read})

MessagesInit ==
  /\ messages = <<>> /\ inbox = <<>> /\ m_peer = NoPeer /\ m_thread = <<>>
  /\ m_summaries = ConversationSummaries(<<>>)
  /\ badge = 0

\* messagesChanged: both models refresh, and the badge is read again.
MessagesChanged(table, peer) ==
  /\ messages' = table
  /\ m_thread' = IF peer = NoPeer THEN <<>> ELSE ListByPeer(table, peer)
  /\ m_summaries' = ConversationSummaries(table)
  /\ badge' = UnreadCount(table)

\* append(): the signal only follows a row; the insert may fail.
AppendMessage(m) ==
  \/ Len(messages) < MaxMessages /\ MessagesChanged(Append(messages, m), m_peer)
  \/ UNCHANGED <<messages, m_thread, m_summaries, badge>>

\* AccountsManager::instantMessageReceived: PhoneController posts the append.
InstantMessageReceived(peer) ==
  /\ Len(inbox) < MaxInbox
  /\ inbox' = Append(inbox, peer)
  /\ UNCHANGED <<messages, m_peer, m_thread, m_summaries, badge>>

AppendReceived ==
  /\ inbox # <<>> /\ inbox' = Tail(inbox)
  /\ AppendMessage([peer |-> Head(inbox), incoming |-> TRUE, read |-> FALSE])
  /\ UNCHANGED m_peer

\* send() to a peer: the row first, whatever becomes of the message.
SendMessage(peer) ==
  /\ AppendMessage([peer |-> peer, incoming |-> FALSE, read |-> TRUE])
  /\ UNCHANGED <<inbox, m_peer>>

\* The table after markPeerRead's UPDATE.
PeerRead(peer) == [i \in DOMAIN messages |->
                    IF messages[i].peer = peer THEN [messages[i] EXCEPT !.read = TRUE] ELSE messages[i]]

\* Mutant: markPeerRead forgets messagesChanged().
MarkSilently(peer, shown) == messages' = PeerRead(peer) /\ m_thread' = shown /\ UNCHANGED <<m_summaries, badge>>

\* markPeerRead: messagesChanged() only if a row changed; `shown' is the thread
\* the model has so far.
MarkPeerRead(peer, shown) ==
  IF PeerRead(peer) = messages
  THEN messages' = messages /\ m_thread' = shown /\ UNCHANGED <<m_summaries, badge>>
  ELSE MessagesChanged(PeerRead(peer), m_peer')

\* selectConversation: setPeer, which refreshes the thread unless the peer is the
\* same, then markConversationRead, whose UPDATE may fail.
SelectConversation(peer) ==
  /\ m_peer' = peer
  /\ LET shown == IF peer = m_peer THEN m_thread ELSE ListByPeer(messages, peer)
     IN \/ MarkPeerRead(peer, shown)
        \/ messages' = messages /\ m_thread' = shown /\ UNCHANGED <<m_summaries, badge>>
  /\ UNCHANGED inbox

\* The program starts again, from the table.
RestartMessages ==
  /\ inbox' = <<>> /\ m_peer' = NoPeer
  /\ MessagesChanged(messages, NoPeer)

MessagesNext ==
  \/ \E p \in Peers : InstantMessageReceived(p) \/ SendMessage(p) \/ SelectConversation(p)
  \/ AppendReceived
  \/ RestartMessages

-----------------------------------------------------------------------------
\* After any interleaving of messages received, sent and read, and any failed
\* statement, what QML shows is what the table holds: the thread of the selected
\* peer with its read flags, the newest message and unread mark of every
\* conversation, and the badge, which is zero only if no conversation is marked
\* (MessagesModel::refresh, ConversationsModel::refresh, unreadCount).
MessagesViewsCurrent ==
  /\ m_thread = IF m_peer = NoPeer THEN <<>> ELSE ListByPeer(messages, m_peer)
  /\ \A p \in Peers : /\ m_summaries[p].last = 0 <=> \A i \in DOMAIN messages : messages[i].peer # p
                      /\ \A i \in DOMAIN messages : messages[i].peer = p => i <= m_summaries[p].last
                      /\ m_summaries[p].unread <=> \E i \in DOMAIN messages :
                                                     messages[i] = [peer |-> p, incoming |-> TRUE, read |-> FALSE]
  /\ badge = 0 <=> \A p \in Peers : ~m_summaries[p].unread
=============================================================================
