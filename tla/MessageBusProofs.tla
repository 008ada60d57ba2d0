--------------------------- MODULE MessageBusProofs ---------------------------
(* What the statements do to the messages table, for any number of rows.    *)
EXTENDS MessageBus, TLAPS, SequenceTheorems

MessageStatuses == {"pending", "delivered", "failed", "pruned"}

LEMMA MessageRows ==
    ASSUME MessagesOK
    PROVE  /\ Len(messages) \in Nat
           /\ DOMAIN messages = 1 .. Len(messages)
           /\ DOMAIN messages \subseteq MessageIds
           /\ \A m \in DOMAIN messages : messages[m] \in Message
<1>1. messages \in Seq(Message) /\ Len(messages) \in Nat /\ DOMAIN messages = 1 .. Len(messages)
  BY LenProperties DEF MessagesOK
<1>2. DOMAIN messages \subseteq MessageIds
  BY <1>1, MaxMessagesAssumption DEF MessagesOK, MessageIds
<1> QED  BY <1>1, <1>2, ElementOfSeq

\* UPDATE ... SET status: that column of those rows.
LEMMA SetMessagesEffect ==
    ASSUME MessagesOK, NEW M, NEW status \in MessageStatuses, SetMessages(M, status)
    PROVE  /\ MessagesOK'
           /\ DOMAIN messages' = DOMAIN messages
           /\ \A m \in DOMAIN messages : messages'[m].to = messages[m].to
           /\ \A m \in DOMAIN messages :
                 messages'[m].status = IF m \in M /\ messages[m].status # "pruned"
                                       THEN status ELSE messages[m].status
<1>1. /\ messages \in Seq(Message) /\ Len(messages) \in Nat
      /\ DOMAIN messages = 1 .. Len(messages)
      /\ \A m \in DOMAIN messages : messages[m] \in Message
  BY MessageRows DEF MessagesOK
<1>2. /\ DOMAIN messages' = DOMAIN messages
      /\ \A m \in DOMAIN messages :
            messages'[m] = IF m \in M /\ messages[m].status # "pruned"
                           THEN [messages[m] EXCEPT !.status = status] ELSE messages[m]
  BY DEF SetMessages
<1>3. \A m \in DOMAIN messages : [messages[m] EXCEPT !.status = status] \in Message
  BY <1>1 DEF Message, MessageStatuses
<1>4. \A m \in 1 .. Len(messages) : messages'[m] \in Message
  BY <1>1, <1>2, <1>3
<1>5. messages' = [m \in 1 .. Len(messages) |-> messages'[m]]
  BY <1>1 DEF SetMessages
<1>6. messages' \in Seq(Message)
  BY <1>1, <1>4, <1>5, IsASeq
<1>7. Len(messages') = Len(messages)
  BY <1>1, <1>2, <1>6, LenProperties
<1>8. \A m \in DOMAIN messages :
         messages'[m].status = IF m \in M /\ messages[m].status # "pruned"
                               THEN status ELSE messages[m].status
  BY <1>1, <1>2 DEF Message
<1>9. \A m \in DOMAIN messages : messages'[m].to = messages[m].to
  BY <1>1, <1>2 DEF Message
<1> QED  BY <1>2, <1>6, <1>7, <1>8, <1>9 DEF MessagesOK

\* INSERT: one pending row more.
LEMMA InsertMessageEffect ==
    ASSUME MessagesOK, NEW n \in Names, InsertMessage(n)
    PROVE  /\ MessagesOK'
           /\ DOMAIN messages' = DOMAIN messages \cup {Len(messages) + 1}
           /\ \A m \in DOMAIN messages : messages'[m] = messages[m]
           /\ Len(messages') = Len(messages) + 1
           /\ messages'[Len(messages) + 1].status = "pending"
           /\ messages'[Len(messages) + 1].to = n
<1> DEFINE row == [to |-> n, status |-> "pending"]
<1>1. /\ messages \in Seq(Message) /\ Len(messages) \in Nat
      /\ DOMAIN messages = 1 .. Len(messages)
  BY MessageRows DEF MessagesOK
<1>2. row \in Message /\ row.status = "pending" /\ row.to = n
  BY DEF Message
<1>3. messages' = Append(messages, row) /\ Len(messages) < MaxMessages
  BY DEF InsertMessage
<1>4. /\ messages' \in Seq(Message)
      /\ Len(messages') = Len(messages) + 1
      /\ \A m \in 1 .. Len(messages) : messages'[m] = messages[m]
      /\ messages'[Len(messages) + 1] = row
  <2> HIDE DEF row
  <2> QED  BY <1>1, <1>2, <1>3, AppendProperties
<1>5. DOMAIN messages' = 1 .. Len(messages')
  BY <1>4, LenProperties
<1>6. Len(messages') <= MaxMessages
  BY <1>1, <1>3, <1>4, MaxMessagesAssumption
<1> QED  BY <1>1, <1>2, <1>4, <1>5, <1>6 DEF MessagesOK

=============================================================================
