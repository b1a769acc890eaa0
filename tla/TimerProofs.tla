----------------------------- MODULE TimerProofs -----------------------------
(* Proofs about what runs on a timer beside the shop.  The first part is     *)
(* about Channel: what followers see is what an administrator approved, once *)
(* and two hours apart.  The other parts are about the four services of      *)
(* Services, an inductive invariant for each: films, the films' catalogue,   *)
(* music and the accounts of the other VPN protocols.  The last part puts    *)
(* them together; a service keeps its invariant while another one runs.      *)
EXTENDS Channel, Services, Sums, SequenceTheorems, TLAPS

\* Rows of the outbox.
Row == [done : {"none", "pending", "done", "dead"}, channel : Channels, text : Texts,
        tries : Nat, at : 0 .. End]

Shelf == {"queued", "published"}

PostRow == [status : Statuses, text : Texts, updated : 0 .. End]

Config == [channel : Channels, verified : Never .. End, enabled : BOOLEAN]

Columns ==
  /\ clock \in 0 .. End /\ acts \in 0 .. MaxActs /\ faults \in 0 .. MaxFaults
  /\ cfg \in Config
  /\ post \in [Posts -> PostRow] /\ row \in [Posts -> Row]
  /\ shown \in [Posts -> Seq(Sights)] /\ approved \in [Posts -> SUBSET Texts]
  /\ prompt \in {Quiet, Naming} \cup Posts
  /\ running \in BOOLEAN /\ sending \in Posts \cup {NoPost} /\ excused \subseteq Posts

\* A post has a row exactly when it was queued and not withdrawn since; a row is
\* sent only while it waits, and dead letters of failed posts are sent again by
\* administrators only.
RowFits ==
  \A p \in Posts :
    /\ row[p].done # "none" <=> post[p].status \in {"queued", "published", "failed"}
    /\ post[p].status = "published" => row[p].done = "done"
    /\ post[p].status = "failed" /\ p \notin excused => row[p].done = "dead"
    /\ sending = p => row[p].done = "pending"

\* Texts on their way to followers are approved ones.
TextsFine ==
  /\ \A p \in Posts :
       /\ post[p].status \in {"approved", "queued", "published", "failed"} =>
            post[p].text \in approved[p]
       /\ row[p].done # "none" => row[p].text \in approved[p]
  /\ ApprovedTextOnly

\* What was shown is what the rows say.
ShownFits ==
  \A p \in Posts :
    /\ row[p].done = "done" \/ sending = p => shown[p] # <<>>
    /\ p \notin excused => Len(shown[p]) = IF row[p].done = "done" \/ sending = p THEN 1 ELSE 0

\* Messages carry the moment they were queued at, and these are Spacing apart.
RowsApart ==
  /\ \A p \in Posts : /\ row[p].at <= clock
                      /\ post[p].status \in Shelf => row[p].at <= post[p].updated
  /\ \A p \in Posts \ excused : \A i \in DOMAIN shown[p] : shown[p][i].staged = row[p].at
  /\ \A p, q \in Posts :
       p # q /\ p[1] = q[1] /\ post[p].status \in Shelf /\ post[q].status \in Shelf =>
         row[p].at - row[q].at >= Spacing \/ row[q].at - row[p].at >= Spacing

ChannelInd == Columns /\ RowFits /\ TextsFine /\ ShownFits /\ RowsApart

-----------------------------------------------------------------------------
\* No post, and the question for a channel, are not posts.
LEMMA NotPosts == NoPost \notin Posts /\ Naming \notin Posts /\ NoPost # Naming
  BY DEF NoPost, Naming, Posts

\* A post's day and slot are numbers.
LEMMA DayType == ASSUME NEW p \in Posts PROVE p[1] \in Int /\ p[2] \in Int
  BY ChannelAssumption DEF Posts, Slots

\* The invariant holds before the first post.
LEMMA ChannelStart == Init => ChannelInd
<1> SUFFICES ASSUME Init PROVE ChannelInd
  OBVIOUS
<1>1. /\ NoRow \in Row /\ NoRow.done = "none" /\ NoRow.at = 0
      /\ (CHOOSE c \in Channels : TRUE) \in Channels
  BY ChannelAssumption DEF NoRow, Row
<1>2. Columns
  <2>1. /\ post \in [Posts -> PostRow]
        /\ cfg \in Config
    BY <1>1, ChannelAssumption DEF Init, Statuses, Never, PostRow, Config
  <2>2. /\ row \in [Posts -> Row] /\ shown \in [Posts -> Seq(Sights)]
        /\ approved \in [Posts -> SUBSET Texts]
    BY <1>1, EmptySeq DEF Init
  <2>3. /\ clock \in 0 .. End /\ acts \in 0 .. MaxActs /\ faults \in 0 .. MaxFaults
        /\ prompt \in {Quiet, Naming} \cup Posts /\ running \in BOOLEAN
        /\ sending \in Posts \cup {NoPost} /\ excused \subseteq Posts
    <3>1. 0 \in 0 .. End /\ 0 \in 0 .. MaxActs /\ 0 \in 0 .. MaxFaults
      BY ChannelAssumption
    <3> QED
      BY <3>1 DEF Init
  <2> QED
    BY <2>1, <2>2, <2>3 DEF Columns
<1>3. RowFits
  BY <1>1, NotPosts DEF Init, RowFits
<1>4. TextsFine
  BY <1>1, ChannelAssumption DEF Init, TextsFine, ApprovedTextOnly
<1>5. ShownFits
  BY <1>1, NotPosts DEF Init, ShownFits
<1>6. RowsApart
  <2>1. \A p \in Posts : row[p].at = 0 /\ DOMAIN shown[p] = {} /\ post[p].status = "none"
    BY <1>1 DEF Init
  <2> QED
    BY <2>1 DEF Init, RowsApart, Shelf
<1> QED
  BY <1>2, <1>3, <1>4, <1>5, <1>6 DEF ChannelInd

\* What the invariant says of what followers see.
LEMMA ChannelMeans == ChannelInd => ChannelInv
<1> SUFFICES ASSUME ChannelInd PROVE ChannelInv
  OBVIOUS
<1>1. ApprovedTextOnly
  BY DEF ChannelInd, TextsFine
<1>0. TypeOK
  <2>1. \A p \in Posts : Range(shown[p]) \subseteq Sights /\ approved[p] \subseteq Texts
    BY RangeOfSeq DEF ChannelInd, Columns
  <2>2. \A p \in Posts : /\ post[p].status = "queued" => row[p].done # "none"
                         /\ row[p].done = "pending" => post[p].status \in {"queued", "failed"}
    BY DEF ChannelInd, RowFits
  <2> QED
    BY <2>1, <2>2 DEF ChannelInd, Columns, TypeOK, PostRow, Config
<1>2. ShownOnce
  BY DEF ChannelInd, ShownFits, ShownOnce
<1>3. StatusTrue
  <2>1. ASSUME NEW p \in Posts, Len(shown[p]) = 0 PROVE shown[p] = <<>>
    BY <2>1, EmptySeq DEF ChannelInd, Columns
  <2> QED
    BY <2>1 DEF ChannelInd, ShownFits, RowFits, StatusTrue
<1>4. Spaced
  <2> SUFFICES ASSUME NEW p \in Posts \ excused, NEW q \in Posts \ excused, p # q, p[1] = q[1],
                      NEW i \in DOMAIN shown[p], NEW j \in DOMAIN shown[q],
                      shown[p][i].at = shown[p][i].staged, shown[q][j].at = shown[q][j].staged
               PROVE  \/ shown[p][i].at - shown[q][j].at >= Spacing
                      \/ shown[q][j].at - shown[p][i].at >= Spacing
    BY DEF Spaced
  <2>1. ASSUME NEW r \in Posts \ excused, NEW k \in DOMAIN shown[r]
        PROVE  post[r].status \in Shelf /\ shown[r][k].staged = row[r].at
    <3>1. shown[r] \in Seq(Sights) /\ Len(shown[r]) # 0
      BY <2>1 DEF ChannelInd, Columns
    <3>2. row[r].done = "done" \/ sending = r
      BY <3>1 DEF ChannelInd, ShownFits
    <3> QED
      BY <3>2 DEF ChannelInd, RowFits, RowsApart, Shelf
  <2>2. post[p].status \in Shelf /\ post[q].status \in Shelf
        /\ shown[p][i].at = row[p].at /\ shown[q][j].at = row[q].at
    BY <2>1
  <2> QED
    BY <2>2 DEF ChannelInd, RowsApart
<1> QED
  BY <1>0, <1>1, <1>2, <1>3, <1>4 DEF ChannelInv

-----------------------------------------------------------------------------
\* What a step shows, in the form the proofs use.
Quietly == UNCHANGED <<row, sending, shown, excused>>

\* Steps that leave posts, messages and what was shown alone.
LEMMA FrameStep ==
  ASSUME ChannelInd, Columns', Quietly, UNCHANGED <<post, approved>>, clock' >= clock
  PROVE  ChannelInd'
<1>1. RowFits' /\ TextsFine' /\ ShownFits'
  BY DEF ChannelInd, Quietly, RowFits, TextsFine, ApprovedTextOnly, ShownFits
<1>2. RowsApart'
  <2>1. \A p \in Posts : row[p].at \in Int
    BY DEF ChannelInd, Columns, Row
  <2> QED
    BY <2>1 DEF ChannelInd, Columns, Quietly, RowsApart
<1> QED
  BY <1>1, <1>2 DEF ChannelInd

\* Decisions about a post that has no message.
LEMMA DeskStep ==
  ASSUME ChannelInd, Columns', Quietly, clock' = clock, NEW p \in Posts, NEW r \in PostRow,
         post[p].status \in {"review", "approved", "rejected"},
         r.status \in {"review", "approved", "rejected"},
         post' = [post EXCEPT ![p] = r],
         approved[p] \subseteq approved'[p], \A q \in Posts : q # p => approved'[q] = approved[q],
         r.status = "approved" => r.text \in approved'[p]
  PROVE  ChannelInd'
<1>1. \A q \in Posts : approved[q] \subseteq approved'[q]
  OBVIOUS
<1>2. post'[p] = r /\ \A q \in Posts : q # p => post'[q] = post[q]
  BY DEF ChannelInd, Columns
<1>3. RowFits'
  BY <1>2 DEF ChannelInd, Quietly, RowFits
<1>4. TextsFine'
  BY <1>1, <1>2 DEF ChannelInd, Quietly, TextsFine, ApprovedTextOnly
<1>5. ShownFits'
  BY DEF ChannelInd, Quietly, ShownFits
<1>6. RowsApart'
  BY <1>2 DEF ChannelInd, Quietly, RowsApart, Shelf
<1> QED
  BY <1>3, <1>4, <1>5, <1>6 DEF ChannelInd

\* Pausing withdraws what has not been sent.
LEMMA PauseStep ==
  ASSUME ChannelInd, Columns', Pause
  PROVE  ChannelInd'
<1>1. NoRow.done = "none" /\ NoRow.at = 0
  BY DEF NoRow
<1>2. /\ shown' = shown /\ sending' = sending /\ sending = NoPost /\ excused' = excused
      /\ approved' = approved /\ clock' = clock
  BY DEF Pause, Act, desk
<1>3. \A p \in Posts :
        IF Withdrawn(p)
        THEN row'[p] = NoRow /\ post'[p] = [post[p] EXCEPT !.status = "approved"]
        ELSE row'[p] = row[p] /\ post'[p] = post[p]
  BY DEF Pause
<1>4. \A p \in Posts : Withdrawn(p) =>
        /\ post'[p].status = "approved" /\ post'[p].text = post[p].text
        /\ post[p].status = "queued" /\ row[p].done = "pending"
  BY <1>3 DEF ChannelInd, Columns, PostRow, Withdrawn
<1>5. RowFits'
  BY <1>1, <1>2, <1>3, <1>4, NotPosts DEF ChannelInd, RowFits
<1>6. TextsFine'
  BY <1>1, <1>2, <1>3, <1>4 DEF ChannelInd, TextsFine, ApprovedTextOnly
<1>7. ShownFits'
  BY <1>1, <1>2, <1>3, <1>4, NotPosts DEF ChannelInd, ShownFits
<1>8. RowsApart'
  <2>1. \A p \in Posts \ excused : Withdrawn(p) => DOMAIN shown[p] = {}
    <3>1. ASSUME NEW p \in Posts \ excused, Withdrawn(p) PROVE DOMAIN shown[p] = {}
      <4>1. shown[p] \in Seq(Sights) /\ Len(shown[p]) = 0
        BY <1>2, <1>4, <3>1, NotPosts DEF ChannelInd, ShownFits, Columns
      <4> QED
        BY <4>1
    <3> QED
      BY <3>1
  <2>2. \A p \in Posts : row'[p].at <= clock
    <3>1. ASSUME NEW p \in Posts PROVE row'[p].at <= clock
      <4>1. clock >= 0 /\ row[p].at <= clock
        BY DEF ChannelInd, RowsApart, Columns
      <4>2. row'[p] = NoRow \/ row'[p] = row[p]
        BY <1>3
      <4> QED
        BY <1>1, <4>1, <4>2
    <3> QED
      BY <3>1
  <2>3. \A p \in Posts : post'[p].status \in Shelf => row'[p] = row[p] /\ post'[p] = post[p]
    BY <1>3, <1>4 DEF Shelf
  <2> QED
    BY <1>2, <1>3, <2>1, <2>2, <2>3 DEF ChannelInd, RowsApart
<1> QED
  BY <1>5, <1>6, <1>7, <1>8 DEF ChannelInd

\* A dead row that is tried again is a pending one.
LEMMA RetryStep ==
  ASSUME ChannelInd, Columns', RetryOutbox
  PROVE  ChannelInd'
<1>1. /\ UNCHANGED <<post, shown, sending, approved, clock>>
      /\ \A p \in Posts : IF row[p].done = "dead"
                          THEN /\ row'[p] = [row[p] EXCEPT !.done = "pending", !.tries = 0]
                               /\ p \in excused'
                          ELSE row'[p] = row[p]
      /\ excused \subseteq excused'
  BY DEF RetryOutbox
<1>2. \A p \in Posts : /\ row'[p].at = row[p].at /\ row'[p].text = row[p].text
                       /\ row[p].done = "dead" => row'[p].done = "pending"
                       /\ row'[p].done = "done" <=> row[p].done = "done"
  <2>1. ASSUME NEW p \in Posts, row[p].done = "dead"
        PROVE  /\ row'[p].at = row[p].at /\ row'[p].text = row[p].text
               /\ row'[p].done = "pending"
    <3>1. row[p] \in Row /\ row'[p] = [row[p] EXCEPT !.done = "pending", !.tries = 0]
      BY <1>1, <2>1 DEF ChannelInd, Columns
    <3> QED
      BY <3>1 DEF Row
  <2>2. ASSUME NEW p \in Posts, row[p].done # "dead" PROVE row'[p] = row[p]
    BY <1>1, <2>2
  <2> QED
    BY <2>1, <2>2
<1>3. RowFits'
  <2>1. ASSUME NEW p \in Posts, row[p].done = "dead" PROVE row'[p].done = "pending" /\ p \in excused'
    BY <1>1, <1>2, <2>1
  <2>2. ASSUME NEW p \in Posts, row[p].done # "dead" PROVE row'[p] = row[p]
    BY <1>1, <2>2
  <2> QED
    BY <1>1, <2>1, <2>2 DEF ChannelInd, RowFits
<1>4. TextsFine'
  BY <1>1, <1>2 DEF ChannelInd, TextsFine, ApprovedTextOnly
<1>5. ShownFits'
  <2>1. \A p \in Posts \ excused' : p \notin excused
    BY <1>1
  <2> QED
    BY <1>1, <1>2, <2>1 DEF ChannelInd, ShownFits
<1>6. RowsApart'
  BY <1>1, <1>2 DEF ChannelInd, RowsApart
<1> QED
  BY <1>3, <1>4, <1>5, <1>6 DEF ChannelInd

\* The message that is shown carries the text and the moment of its row.
LEMMA SightStep ==
  ASSUME ChannelInd, NEW p \in Posts, row[p].done # "none"
  PROVE  /\ Sight(p) \in Sights /\ Append(shown[p], Sight(p)) \in Seq(Sights)
         /\ Append(shown[p], Sight(p)) # <<>>
         /\ Len(Append(shown[p], Sight(p))) = Len(shown[p]) + 1
         /\ \A i \in DOMAIN Append(shown[p], Sight(p)) :
              /\ Append(shown[p], Sight(p))[i].text \in approved[p]
              /\ p \notin excused => Append(shown[p], Sight(p))[i].staged = row[p].at
<1>1. row[p] \in Row /\ shown[p] \in Seq(Sights) /\ clock \in 0 .. End
  BY DEF ChannelInd, Columns
<1>2. Sight(p) \in Sights /\ Sight(p).text = row[p].text /\ Sight(p).staged = row[p].at
  BY <1>1 DEF Row, Sight, Sights
<1>3. PICK sight : sight = Sight(p)
  OBVIOUS
<1>4. PICK old : old = shown[p]
  OBVIOUS
<1>5. PICK new : new = Append(old, sight)
  OBVIOUS
<1>6. /\ new \in Seq(Sights) /\ new # <<>> /\ Len(new) = Len(old) + 1
      /\ \A i \in 1 .. Len(old) : new[i] = old[i]
      /\ new[Len(old) + 1] = sight
  BY <1>1, <1>2, <1>3, <1>4, <1>5, AppendProperties
<1>7. Len(old) \in Nat /\ DOMAIN old = 1 .. Len(old) /\ DOMAIN new = 1 .. Len(new)
  BY <1>1, <1>4, <1>6, LenProperties
<1>8. \A i \in DOMAIN new : i \in DOMAIN old \/ i = Len(old) + 1
  BY <1>6, <1>7
<1>9. \A i \in DOMAIN old : /\ old[i].text \in approved[p]
                            /\ p \notin excused => old[i].staged = row[p].at
  BY <1>4 DEF ChannelInd, TextsFine, ApprovedTextOnly, RowsApart
<1>10. sight.text \in approved[p] /\ sight.staged = row[p].at
  BY <1>2, <1>3 DEF ChannelInd, TextsFine
<1>11. \A i \in DOMAIN new : /\ new[i].text \in approved[p]
                             /\ p \notin excused => new[i].staged = row[p].at
  BY <1>6, <1>7, <1>8, <1>9, <1>10
<1> QED
  BY <1>2, <1>3, <1>4, <1>5, <1>6, <1>11

\* Followers see the text of a row that was approved.
LEMMA SendStep ==
  ASSUME ChannelInd, Columns', NEW p \in Posts, Send(p)
  PROVE  ChannelInd'
<1>1. /\ UNCHANGED <<post, row, approved, excused, clock>> /\ sending' = p /\ sending = NoPost
      /\ row[p].done = "pending"
      /\ shown'[p] = Append(shown[p], Sight(p))
      /\ \A q \in Posts : q # p => shown'[q] = shown[q]
  BY DEF Send, Sendable, ChannelInd, Columns
<1>2. /\ shown'[p] # <<>> /\ Len(shown'[p]) = Len(shown[p]) + 1
      /\ \A i \in DOMAIN shown'[p] : /\ shown'[p][i].text \in approved[p]
                                     /\ p \notin excused => shown'[p][i].staged = row[p].at
  BY <1>1, SightStep
<1>3. RowFits'
  BY <1>1 DEF ChannelInd, RowFits
<1>4. TextsFine'
  BY <1>1, <1>2 DEF ChannelInd, TextsFine, ApprovedTextOnly
<1>5. ShownFits'
  <2>1. p \notin excused => Len(shown[p]) = 0
    BY <1>1, NotPosts DEF ChannelInd, ShownFits
  <2>2. \A q \in Posts : q # p => sending # q /\ sending' # q
    BY <1>1, NotPosts
  <2> QED
    BY <1>1, <1>2, <2>1, <2>2 DEF ChannelInd, ShownFits
<1>6. RowsApart'
  BY <1>1, <1>2 DEF ChannelInd, RowsApart
<1> QED
  BY <1>3, <1>4, <1>5, <1>6 DEF ChannelInd

\* What was sent is recorded as such.
LEMMA RecordStep ==
  ASSUME ChannelInd, Columns', Record
  PROVE  ChannelInd'
<1>1. PICK p \in Posts : p = sending
  BY DEF Record, ChannelInd, Columns
<1>2. /\ UNCHANGED <<post, shown, approved, excused, clock>> /\ sending' = NoPost
      /\ row'[p] = [row[p] EXCEPT !.done = "done"]
      /\ \A q \in Posts : q # p => row'[q] = row[q]
  BY <1>1 DEF Record, Recorded, ChannelInd, Columns
<1>3. row'[p].done = "done" /\ row'[p].text = row[p].text /\ row'[p].at = row[p].at
  BY <1>2 DEF ChannelInd, Columns, Row
<1>4. RowFits'
  <2>1. row[p].done = "pending" /\ post[p].status \in {"queued", "failed"}
    BY <1>1 DEF ChannelInd, RowFits
  <2>2. post[p].status = "failed" => p \in excused
    BY <2>1 DEF ChannelInd, RowFits
  <2> QED
    BY <1>2, <1>3, <2>1, <2>2, NotPosts DEF ChannelInd, RowFits
<1>5. TextsFine'
  BY <1>1, <1>2, <1>3 DEF ChannelInd, TextsFine, ApprovedTextOnly, RowFits
<1>6. ShownFits'
  <2>1. \A q \in Posts :
          (row[q].done = "done" \/ sending = q) <=> (row'[q].done = "done" \/ sending' = q)
    BY <1>1, <1>2, <1>3, NotPosts
  <2> QED
    BY <1>2, <2>1 DEF ChannelInd, ShownFits
<1>7. RowsApart'
  <2>1. \A q \in Posts : row'[q].at = row[q].at
    BY <1>2, <1>3
  <2> QED
    BY <1>2, <2>1 DEF ChannelInd, RowsApart
<1> QED
  BY <1>4, <1>5, <1>6, <1>7 DEF ChannelInd

\* A lock that cannot be had puts the row off.
LEMMA LockedStep ==
  ASSUME ChannelInd, Columns', Locked
  PROVE  ChannelInd'
<1>1. PICK p \in Posts : p = sending
  BY DEF Locked, ChannelInd, Columns
<1>2. /\ UNCHANGED <<post, row, shown, approved, clock>> /\ sending' = NoPost
      /\ excused' = excused \cup {p}
  BY <1>1 DEF Locked
<1>3. RowFits' /\ TextsFine'
  BY <1>2, NotPosts DEF ChannelInd, RowFits, TextsFine, ApprovedTextOnly
<1>4. ShownFits' /\ RowsApart'
  BY <1>1, <1>2, NotPosts DEF ChannelInd, ShownFits, RowsApart
<1> QED
  BY <1>3, <1>4 DEF ChannelInd

\* A failure counts an attempt, and the last one gives the row up.
LEMMA SendFailsStep ==
  ASSUME ChannelInd, Columns', NEW p \in Posts, SendFails(p)
  PROVE  ChannelInd'
<1>1. /\ UNCHANGED <<post, sending, approved, clock>> /\ sending = NoPost
      /\ row[p].done = "pending" /\ row[p] \in Row
      /\ row'[p].done \in {"dead", "pending"} /\ row'[p].text = row[p].text
      /\ row'[p].at = row[p].at
      /\ \A q \in Posts : q # p => row'[q] = row[q] /\ shown'[q] = shown[q]
  BY DEF SendFails, Sendable, ChannelInd, Columns, Row
<1>2. \/ shown' = shown /\ excused' = excused
      \/ /\ shown'[p] = Append(shown[p], Sight(p)) /\ excused' = excused \cup {p}
         /\ shown'[p] # <<>>
         /\ \A i \in DOMAIN shown'[p] : shown'[p][i].text \in approved[p]
  <2>1. CASE shown' = shown /\ excused' = excused
    BY <2>1
  <2>2. CASE /\ shown' = [shown EXCEPT ![p] = Append(@, Sight(p))]
             /\ excused' = excused \cup {p}
    <3>1. shown'[p] = Append(shown[p], Sight(p))
      BY <2>2 DEF ChannelInd, Columns
    <3> QED
      BY <1>1, <2>2, <3>1, SightStep
  <2> QED
    BY <2>1, <2>2 DEF SendFails
<1>3. RowFits'
  <2>1. post[p].status = "failed" => p \in excused
    BY <1>1 DEF ChannelInd, RowFits
  <2> QED
    BY <1>1, <1>2, <2>1, NotPosts DEF ChannelInd, RowFits
<1>4. TextsFine'
  BY <1>1, <1>2 DEF ChannelInd, TextsFine, ApprovedTextOnly
<1>5. ShownFits'
  BY <1>1, <1>2, NotPosts DEF ChannelInd, ShownFits
<1>6. RowsApart'
  BY <1>1, <1>2 DEF ChannelInd, RowsApart
<1> QED
  BY <1>3, <1>4, <1>5, <1>6 DEF ChannelInd

-----------------------------------------------------------------------------
\* The runs of the timer.  What a run does to a post: nothing, tell what became
\* of its message, let it expire, put it into the outbox or draft it.
Same(p) == post'[p] = post[p] /\ row'[p] = row[p]

Told(p) ==
  /\ row'[p] = row[p] /\ post[p].status = "queued" /\ post'[p].text = post[p].text
  /\ post'[p].updated = clock
  /\ \/ row[p].done = "done" /\ post'[p].status = "published"
     \/ row[p].done = "dead" /\ post'[p].status = "failed"

Lapsed(p) ==
  /\ row'[p] = row[p] /\ post[p].status \in {"review", "approved"}
  /\ post'[p].status = "expired"

Staged(p) ==
  /\ post[p].status = "approved" /\ row[p].done = "none"
  /\ row'[p].done = "pending" /\ row'[p].text = post[p].text /\ row'[p].at = clock
  /\ post'[p].status = "queued" /\ post'[p].text = post[p].text /\ post'[p].updated = clock

Begun(p) ==
  /\ row'[p] = row[p] /\ post[p].status = "none" /\ post'[p].status = "review"

RunStep ==
  /\ \A p \in Posts : Same(p) \/ Told(p) \/ Lapsed(p) \/ Staged(p) \/ Begun(p)
  /\ \A p, q \in Posts :
       Staged(p) /\ p # q /\ p[1] = q[1] /\ post'[q].status \in Shelf =>
         clock - post[q].updated >= Spacing /\ post[q].status \in Shelf

\* A run of the timer that keeps to RunStep keeps the invariant.
LEMMA RunKeeps ==
  ASSUME ChannelInd, Columns', RunStep,
         UNCHANGED <<sending, shown, approved, excused, clock>>
  PROVE  ChannelInd'
<1>1. \A p \in Posts : /\ row[p].at \in Int /\ row[p].at <= clock /\ clock \in Int
                       /\ post[p] \in PostRow /\ post[p].updated \in Int
                       /\ row'[p].at \in Int
  BY DEF ChannelInd, Columns, RowsApart, PostRow, Row
<1>2. \A p \in Posts : Same(p) \/ Told(p) \/ Lapsed(p) \/ Staged(p) \/ Begun(p)
  BY DEF RunStep
<1>3. RowFits'
  <2> SUFFICES ASSUME NEW p \in Posts
               PROVE  /\ row'[p].done # "none" <=> post'[p].status \in {"queued", "published", "failed"}
                      /\ post'[p].status = "published" => row'[p].done = "done"
                      /\ post'[p].status = "failed" /\ p \notin excused' => row'[p].done = "dead"
                      /\ sending' = p => row'[p].done = "pending"
    BY DEF RowFits
  <2>1. CASE Same(p)
    BY <2>1 DEF ChannelInd, RowFits, Same
  <2>2. CASE Told(p)
    BY <2>2 DEF ChannelInd, RowFits, Told
  <2>3. CASE Lapsed(p)
    BY <2>3 DEF ChannelInd, RowFits, Lapsed
  <2>4. CASE Staged(p)
    BY <2>4 DEF ChannelInd, RowFits, Staged
  <2>5. CASE Begun(p)
    BY <2>5 DEF ChannelInd, RowFits, Begun
  <2> QED
    BY <1>2, <2>1, <2>2, <2>3, <2>4, <2>5
<1>4. TextsFine'
  <2>1. ASSUME NEW p \in Posts
        PROVE  /\ post'[p].status \in {"approved", "queued", "published", "failed"} =>
                    post'[p].text \in approved[p]
               /\ row'[p].done # "none" => row'[p].text \in approved[p]
    <3>1. CASE Same(p) \/ Lapsed(p) \/ Begun(p)
      BY <3>1 DEF ChannelInd, TextsFine, Same, Lapsed, Begun
    <3>2. CASE Told(p) \/ Staged(p)
      BY <3>2 DEF ChannelInd, TextsFine, Told, Staged
    <3> QED
      BY <1>2, <3>1, <3>2
  <2> QED
    BY <2>1 DEF ChannelInd, TextsFine, ApprovedTextOnly
<1>5. \A p \in Posts : ~Staged(p) => row'[p] = row[p]
  BY <1>2 DEF Same, Told, Lapsed, Begun
<1>6. ShownFits'
  <2>1. ASSUME NEW p \in Posts
        PROVE  (row'[p].done = "done" \/ sending = p) <=> (row[p].done = "done" \/ sending = p)
    BY <1>5 DEF Staged
  <2> QED
    BY <2>1 DEF ChannelInd, ShownFits
<1>7. RowsApart'
  <2>1. ASSUME NEW p \in Posts
        PROVE  /\ row'[p].at <= clock
               /\ post'[p].status \in Shelf => row'[p].at <= post'[p].updated
    <3>1. CASE Same(p)
      BY <3>1 DEF ChannelInd, RowsApart, Same
    <3>2. CASE Told(p) \/ Staged(p)
      BY <1>1, <3>2 DEF Told, Staged
    <3>3. CASE Lapsed(p) \/ Begun(p)
      BY <1>1, <3>3 DEF Lapsed, Begun, Shelf
    <3> QED
      BY <1>2, <3>1, <3>2, <3>3
  <2>2. ASSUME NEW p \in Posts \ excused, NEW i \in DOMAIN shown[p]
        PROVE  shown[p][i].staged = row'[p].at
    <3>1. ~Staged(p)
      <4>1. shown[p] \in Seq(Sights) /\ Len(shown[p]) # 0
        BY DEF ChannelInd, Columns
      <4>2. row[p].done = "done" \/ sending = p
        BY <4>1 DEF ChannelInd, ShownFits
      <4>3. row[p].done # "none"
        BY <4>2 DEF ChannelInd, RowFits
      <4> QED
        BY <4>3 DEF Staged
    <3> QED
      BY <1>5, <3>1 DEF ChannelInd, RowsApart
  <2>3. ASSUME NEW p \in Posts, NEW q \in Posts, p # q, p[1] = q[1],
               post'[p].status \in Shelf, post'[q].status \in Shelf
        PROVE  row'[p].at - row'[q].at >= Spacing \/ row'[q].at - row'[p].at >= Spacing
    <3>1. ASSUME NEW a \in Posts, NEW b \in Posts, a # b, a[1] = b[1], Staged(a),
                 post'[b].status \in Shelf
          PROVE  row'[a].at - row'[b].at >= Spacing
      <4>1. clock - post[b].updated >= Spacing /\ post[b].status \in Shelf
        BY <3>1 DEF RunStep
      <4>2. row'[b] = row[b]
        BY <1>5, <4>1 DEF Staged, Shelf
      <4>3. row'[a].at = clock /\ row[b].at <= post[b].updated
        BY <3>1, <4>1 DEF Staged, ChannelInd, RowsApart
      <4> QED
        BY <1>1, <4>1, <4>2, <4>3, ChannelAssumption
    <3>2. CASE Staged(p) \/ Staged(q)
      BY <2>3, <3>1, <3>2
    <3>3. CASE ~Staged(p) /\ ~Staged(q)
      <4>1. post[p].status \in Shelf /\ post[q].status \in Shelf
        BY <1>2, <2>3, <3>3 DEF Same, Told, Lapsed, Begun, Shelf
      <4> QED
        BY <1>5, <2>3, <3>3, <4>1 DEF ChannelInd, RowsApart
    <3> QED
      BY <3>2, <3>3
  <2> QED
    BY <2>1, <2>2, <2>3 DEF RowsApart
<1> QED
  BY <1>3, <1>4, <1>6, <1>7 DEF ChannelInd

\* What _complete_outbox makes of the posts.
LEMMA CompletedRows ==
  ASSUME ChannelInd
  PROVE  /\ Completed \in [Posts -> PostRow]
         /\ \A p \in Posts :
              \/ Completed[p] = post[p]
              \/ /\ post[p].status = "queued" /\ Completed[p].text = post[p].text
                 /\ Completed[p].updated = clock
                 /\ \/ row[p].done = "done" /\ Completed[p].status = "published"
                    \/ row[p].done = "dead" /\ Completed[p].status = "failed"
<1>1. ASSUME NEW p \in Posts, NEW s \in Statuses
      PROVE  /\ Marked(p, s) \in PostRow /\ Marked(p, s).text = post[p].text
             /\ Marked(p, s).updated = clock /\ Marked(p, s).status = s
  <2>1. post[p] \in PostRow /\ clock \in 0 .. End
    BY DEF ChannelInd, Columns
  <2> QED
    BY <2>1 DEF Marked, PostRow
<1>2. \A p \in Posts : post[p] \in PostRow
  BY DEF ChannelInd, Columns
<1>3. "published" \in Statuses /\ "failed" \in Statuses
  BY DEF Statuses
<1> QED
  BY <1>1, <1>2, <1>3 DEF Completed

\* The post that a run stages is the only one, and it is far from those before.
LEMMA DueRows ==
  ASSUME NEW ps, NEW p \in Due(ps)
  PROVE  /\ p \in Posts /\ p[1] = Today /\ ps[p].status = "approved"
         /\ \A q \in Posts : q[1] = Today /\ ps[q].status \in Shelf =>
              clock - ps[q].updated >= Spacing
         /\ \A q \in Due(ps) : q = p
<1>1. /\ p \in Posts /\ p[1] = Today /\ ps[p].status = "approved"
      /\ \A q \in Counted(ps) : clock - ps[q].updated >= Spacing
  BY DEF Due
<1>2. ASSUME NEW q \in Due(ps) PROVE q = p
  <2>1. p[2] <= q[2] /\ q[2] <= p[2] /\ q[1] = p[1] /\ q \in Posts
    BY DEF Due
  <2>2. p[2] \in Int /\ q[2] \in Int
    BY <1>1, <2>1, DayType
  <2>3. p[2] = q[2]
    BY <2>1, <2>2
  <2> QED
    BY <1>1, <2>1, <2>3 DEF Posts
<1> QED
  BY <1>1, <1>2 DEF Counted, Shelf

\* What a run of the timer does keeps to RunStep.
LEMMA WorkStep ==
  ASSUME ChannelInd, NEW g, Work(g)
  PROVE  RunStep /\ post' \in [Posts -> PostRow] /\ row' \in [Posts -> Row]
<1>1. /\ Completed \in [Posts -> PostRow] /\ post \in [Posts -> PostRow]
      /\ row \in [Posts -> Row] /\ clock \in 0 .. End /\ cfg.channel \in Channels
  BY CompletedRows DEF ChannelInd, Columns, Config
<1>2. CASE ~Ready(g)
  <2>1. post' = Completed /\ row' = row
    BY <1>2 DEF Work
  <2>2. \A p \in Posts : Same(p) \/ Told(p)
    BY <2>1, CompletedRows DEF Same, Told
  <2> QED
    BY <1>1, <2>1, <2>2 DEF RunStep, Same, Told, Staged
<1>3. CASE Ready(g)
  <2> DEFINE old == Expired(Completed)
  <2>1. PICK drafts \in {{}, Vacant(old)} : post' = Drafted(Queued(old), drafts)
    BY <1>3 DEF Work
  <2>2. row' = Outboxed(old)
    BY <1>3 DEF Work
  <2>3. old \in [Posts -> PostRow]
    <3>1. "expired" \in Statuses
      BY DEF Statuses
    <3>2. \A p \in Posts : [Completed[p] EXCEPT !.status = "expired", !.updated = clock] \in PostRow
      BY <1>1, <3>1 DEF PostRow
    <3> QED
      BY <1>1, <3>2 DEF Expired
  <2>4. \A p \in Posts :
          IF Completed[p].status \in {"review", "approved"} /\ p[1] < Today
          THEN /\ old[p].status = "expired" /\ old[p].text = post[p].text
               /\ Completed[p] = post[p]
          ELSE old[p] = Completed[p]
    <3>1. \A p \in Posts : [Completed[p] EXCEPT !.status = "expired", !.updated = clock].status = "expired"
      BY <1>1 DEF PostRow
    <3>2. \A p \in Posts : [Completed[p] EXCEPT !.status = "expired", !.updated = clock].text = Completed[p].text
      BY <1>1 DEF PostRow
    <3>3. \A p \in Posts : Completed[p].status \in {"review", "approved"} => Completed[p] = post[p]
      BY CompletedRows
    <3> QED
      BY <3>1, <3>2, <3>3 DEF Expired
  <2> HIDE DEF old
  <2>5. \A p \in Due(old) : /\ p \in Posts /\ p[1] = Today /\ old[p].status = "approved"
                            /\ \A q \in Due(old) : q = p
                            /\ \A q \in Posts : q[1] = Today /\ old[q].status \in Shelf =>
                                 clock - old[q].updated >= Spacing
    BY DueRows
  <2>6. \A p \in drafts : p \in Posts /\ old[p].status = "none"
    BY <2>1 DEF Vacant
  <2>7. \A p \in Posts :
          /\ p \in drafts => post'[p] = [status |-> "review", text |-> 0, updated |-> clock]
          /\ p \in Due(old) /\ p \notin drafts =>
               post'[p] = [old[p] EXCEPT !.status = "queued", !.updated = clock]
          /\ p \notin Due(old) /\ p \notin drafts => post'[p] = old[p]
    BY <2>1 DEF Drafted, Queued
  <2>8. \A p \in Due(old) : p \notin drafts
    BY <2>5, <2>6
  <2>9. \A p \in Posts \ Due(old) : row'[p] = row[p]
    BY <2>2 DEF Outboxed
  <2>10. ASSUME NEW p \in Due(old)
         PROVE  /\ Staged(p) /\ post'[p] \in PostRow /\ row'[p] \in Row
    <3>1. p \in Posts /\ p \notin drafts /\ old[p] \in PostRow /\ old[p].status = "approved"
      BY <2>3, <2>5, <2>8
    <3>2. post'[p] = [old[p] EXCEPT !.status = "queued", !.updated = clock]
      BY <2>7, <3>1
    <3>3. /\ post'[p].status = "queued" /\ post'[p].text = old[p].text
          /\ post'[p].updated = clock /\ post'[p] \in PostRow
      BY <1>1, <3>1, <3>2 DEF PostRow, Statuses
    <3>4. post[p] = old[p]
      BY <2>4, <3>1, CompletedRows
    <3>5. row[p].done = "none"
      BY <3>1, <3>4 DEF ChannelInd, RowFits, Columns, Row
    <3>6. row'[p] = [done |-> "pending", channel |-> cfg.channel, text |-> old[p].text,
                     tries |-> 0, at |-> clock]
      BY <2>2, <3>1, <3>5 DEF Outboxed
    <3>7. old[p].text \in Texts
      BY <3>1 DEF PostRow
    <3> QED
      BY <1>1, <3>1, <3>3, <3>4, <3>5, <3>6, <3>7 DEF Staged, Row
  <2>11. ASSUME NEW p \in drafts
         PROVE  Begun(p) /\ post'[p] \in PostRow
    <3>1. p \in Posts /\ old[p].status = "none" /\ p \notin Due(old)
      BY <2>6, <2>8
    <3>2. post'[p] = [status |-> "review", text |-> 0, updated |-> clock]
      BY <2>7, <3>1
    <3>3. post[p].status = "none" /\ row'[p] = row[p]
      BY <2>4, <2>9, <3>1, CompletedRows
    <3> QED
      BY <1>1, <3>2, <3>3, ChannelAssumption DEF Begun, PostRow, Statuses
  <2>12. ASSUME NEW p \in Posts, p \notin Due(old), p \notin drafts
         PROVE  (Same(p) \/ Told(p) \/ Lapsed(p)) /\ post'[p] = old[p] /\ row'[p] = row[p]
    <3>1. post'[p] = old[p] /\ row'[p] = row[p]
      BY <2>7, <2>9, <2>12
    <3>2. CASE old[p] = Completed[p]
      BY <3>1, <3>2, CompletedRows DEF Same, Told
    <3>3. CASE old[p] # Completed[p]
      <4>1. /\ Completed[p].status \in {"review", "approved"} /\ old[p].status = "expired"
            /\ Completed[p] = post[p]
        BY <2>4, <3>3
      <4> QED
        BY <3>1, <4>1 DEF Lapsed
    <3> QED
      BY <3>1, <3>2, <3>3
  <2>13. \A p \in Posts : Same(p) \/ Told(p) \/ Lapsed(p) \/ Staged(p) \/ Begun(p)
    BY <2>10, <2>11, <2>12
  <2>14. ASSUME NEW p \in Posts, NEW q \in Posts, Staged(p), p # q, p[1] = q[1],
                post'[q].status \in Shelf
         PROVE  clock - post[q].updated >= Spacing /\ post[q].status \in Shelf
    <3>1. p \in Due(old)
      <4>1. CASE p \in drafts
        BY <2>11, <4>1, <2>14 DEF Staged, Begun
      <4>2. CASE p \notin drafts /\ p \notin Due(old)
        <5>1. row'[p] = row[p]
          BY <2>9, <4>2
        <5> QED
          BY <5>1, <2>14 DEF Staged
      <4> QED
        BY <4>1, <4>2
    <3>2. q \notin Due(old) /\ q \notin drafts
      BY <2>5, <2>11, <2>14, <3>1 DEF Begun, Shelf
    <3>3. post'[q] = old[q]
      BY <2>12, <3>2
    <3>4. q[1] = Today /\ clock - old[q].updated >= Spacing
      BY <2>5, <2>14, <3>1, <3>3
    <3>5. old[q] = Completed[q]
      BY <2>4, <2>14, <3>3 DEF Shelf
    <3>6. CASE Completed[q] = post[q]
      BY <2>14, <3>3, <3>4, <3>5, <3>6
    <3>7. CASE Completed[q] # post[q]
      <4>1. Completed[q].updated = clock
        BY <3>7, CompletedRows
      <4> QED
        BY <1>1, <3>4, <3>5, <4>1, ChannelAssumption
    <3> QED
      BY <3>6, <3>7
  <2>15. post' \in [Posts -> PostRow] /\ row' \in [Posts -> Row]
    <3>1. \A p \in Posts : post'[p] \in PostRow /\ row'[p] \in Row
      BY <1>1, <2>3, <2>9, <2>10, <2>11, <2>12
    <3> QED
      BY <2>1, <2>2, <3>1 DEF Drafted, Outboxed
  <2> QED
    BY <2>13, <2>14, <2>15 DEF RunStep
<1> QED
  BY <1>2, <1>3

\* A run that ends, with the permissions checked or not.
LEMMA RunsStep ==
  ASSUME ChannelInd, Columns', EndRun \/ EndRunUnverified
  PROVE  ChannelInd'
<1>1. CASE EndRun
  <2>1. RunStep
    BY <1>1, WorkStep DEF EndRun
  <2> QED
    BY <1>1, <2>1, RunKeeps DEF EndRun
<1>2. CASE EndRunUnverified
  <2>1. post' = Completed /\ row' = row
    BY <1>2 DEF EndRunUnverified
  <2>2. \A p \in Posts : Same(p) \/ Told(p)
    BY <2>1, CompletedRows DEF Same, Told
  <2>3. RunStep
    BY <2>1, <2>2 DEF RunStep, Staged
  <2> QED
    BY <1>2, <2>3, RunKeeps DEF EndRunUnverified
<1> QED
  BY <1>1, <1>2

-----------------------------------------------------------------------------
\* Types.
LEMMA ColumnsKept == ASSUME ChannelInd, [Next]_vars PROVE Columns'
<1>1. Columns
  BY DEF ChannelInd
<1> USE <1>1
<1>2. /\ acts \in 0 .. MaxActs /\ (acts < MaxActs => acts + 1 \in 0 .. MaxActs)
      /\ faults \in 0 .. MaxFaults /\ (faults < MaxFaults => faults + 1 \in 0 .. MaxFaults)
      /\ clock \in 0 .. End /\ (clock < End => clock + 1 \in 0 .. End)
  BY ChannelAssumption DEF Columns
<1>3. clock \in Never .. End /\ Never \in Never .. End
  BY ChannelAssumption DEF Columns, Never
<1>4. \A p \in Posts : post[p] \in PostRow /\ row[p] \in Row
  BY DEF Columns
<1>5. CASE UNCHANGED vars
  BY <1>5 DEF vars, Columns
<1>6. CASE BeginRun \/ EndRunUnverified \/ KillRun
  <2>1. post' \in [Posts -> PostRow] /\ faults' \in 0 .. MaxFaults
    <3>1. post' = post \/ post' = Completed
      BY <1>6 DEF BeginRun, EndRunUnverified, KillRun
    <3>2. faults' = faults \/ (faults < MaxFaults /\ faults' = faults + 1)
      BY <1>6 DEF BeginRun, EndRunUnverified, KillRun
    <3> QED
      BY <1>2, <3>1, <3>2, CompletedRows DEF Columns
  <2> QED
    BY <1>6, <2>1 DEF BeginRun, EndRunUnverified, KillRun, Columns
<1>7. CASE EndRun
  <2>1. cfg' \in {cfg, [cfg EXCEPT !.verified = clock]}
    BY <1>7 DEF EndRun, Work
  <2>2. cfg' \in Config
    BY <1>3, <2>1 DEF Columns, Config
  <2>3. post' \in [Posts -> PostRow] /\ row' \in [Posts -> Row]
    BY <1>7, WorkStep DEF EndRun
  <2> QED
    BY <1>7, <2>2, <2>3 DEF EndRun, Columns
<1>8. CASE Verify \/ Resume \/ AskConfig \/ \E c \in Channels : Configure(c)
  <2>1. acts' \in 0 .. MaxActs
    <3>1. acts < MaxActs /\ acts' = acts + 1
      BY <1>8 DEF Verify, Resume, AskConfig, Configure, Act
    <3> QED
      BY <1>2, <3>1
  <2>2. \/ cfg' \in {cfg, [cfg EXCEPT !.verified = clock], [cfg EXCEPT !.enabled = TRUE]}
        \/ \E c \in Channels : cfg' = [channel |-> c, verified |-> Never, enabled |-> FALSE]
    BY <1>8 DEF Verify, Resume, AskConfig, Configure
  <2>3. /\ cfg' \in Config
        /\ prompt' \in {Quiet, Naming} \cup Posts
    <3>1. cfg' \in Config
      <4>1. cfg \in Config
        BY DEF Columns
      <4>2. /\ [cfg EXCEPT !.verified = clock] \in Config
            /\ [cfg EXCEPT !.enabled = TRUE] \in Config
        BY <1>3, <4>1 DEF Config
      <4>3. \A c \in Channels : [channel |-> c, verified |-> Never, enabled |-> FALSE] \in Config
        BY <1>3 DEF Config
      <4> QED
        BY <2>2, <4>1, <4>2, <4>3
    <3>2. prompt' \in {Quiet, Naming} \cup Posts
      BY <1>8 DEF Verify, Resume, AskConfig, Configure, Columns
    <3> QED
      BY <3>1, <3>2
  <2> QED
    BY <1>8, <2>1, <2>3 DEF Verify, Resume, AskConfig, Configure, desk, Columns
<1>9. CASE Pause
  <2>1. acts' \in 0 .. MaxActs /\ cfg' \in Config
    <3>1. acts < MaxActs /\ acts' = acts + 1 /\ cfg' = [cfg EXCEPT !.enabled = FALSE]
      BY <1>9 DEF Pause, Act
    <3> QED
      BY <1>2, <3>1 DEF Columns, Config
  <2>2. NoRow \in Row
    BY ChannelAssumption DEF NoRow, Row
  <2>3. \A p \in Posts : [post[p] EXCEPT !.status = "approved"] \in PostRow
    BY <1>4 DEF PostRow, Statuses
  <2>4. post' \in [Posts -> PostRow] /\ row' \in [Posts -> Row]
    BY <1>4, <1>9, <2>2, <2>3 DEF Pause
  <2> QED
    BY <1>9, <2>1, <2>4 DEF Pause, desk, Columns
<1>10. ASSUME NEW p \in Posts, Approve(p) \/ Reject(p) \/ AskEdit(p) \/ \E t \in Texts : Edit(p, t)
       PROVE  Columns'
  <2>1. acts' \in 0 .. MaxActs
    <3>1. acts < MaxActs /\ acts' = acts + 1
      BY <1>10 DEF Approve, Reject, AskEdit, Edit, Act
    <3> QED
      BY <1>2, <3>1
  <2>2. /\ Marked(p, "approved") \in PostRow /\ Marked(p, "rejected") \in PostRow
        /\ \A t \in Texts : [status |-> "review", text |-> t, updated |-> clock] \in PostRow
    BY <1>2, <1>4 DEF Marked, PostRow, Statuses
  <2>3. post' \in [Posts -> PostRow] /\ prompt' \in {Quiet, Naming} \cup Posts
    BY <1>10, <2>2 DEF Approve, Reject, AskEdit, Edit, Columns
  <2>4. approved' \in [Posts -> SUBSET Texts]
    <3>1. approved[p] \cup {post[p].text} \in SUBSET Texts
      BY <1>4 DEF Columns, PostRow
    <3> QED
      BY <1>10, <3>1 DEF Approve, Reject, AskEdit, Edit, Columns
  <2> QED
    BY <1>10, <2>1, <2>3, <2>4 DEF Approve, Reject, AskEdit, Edit, desk, Columns
<1>11. CASE RetryOutbox
  <2>1. acts' \in 0 .. MaxActs
    <3>1. acts < MaxActs /\ acts' = acts + 1
      BY <1>11 DEF RetryOutbox
    <3> QED
      BY <1>2, <3>1
  <2>2. \A p \in Posts : [row[p] EXCEPT !.done = "pending", !.tries = 0] \in Row
    BY <1>4 DEF Row
  <2>3. row' \in [Posts -> Row]
    BY <1>4, <1>11, <2>2 DEF RetryOutbox
  <2> QED
    BY <1>11, <2>1, <2>3 DEF RetryOutbox, Columns
<1>12. ASSUME NEW p \in Posts, Send(p) \/ SendFails(p) PROVE Columns'
  <2>1. faults' \in 0 .. MaxFaults
    <3>1. faults' = faults \/ (faults < MaxFaults /\ faults' = faults + 1)
      BY <1>12 DEF Send, SendFails
    <3> QED
      BY <1>2, <3>1
  <2>2. shown' \in [Posts -> Seq(Sights)]
    <3>1. Append(shown[p], Sight(p)) \in Seq(Sights)
      BY <1>12, SightStep DEF Send, SendFails, Sendable
    <3> QED
      BY <1>12, <3>1 DEF Send, SendFails, Columns
  <2>3. row' \in [Posts -> Row]
    <3>3. CASE Send(p)
      BY <3>3 DEF Send, Columns
    <3>4. CASE SendFails(p)
      <4>1. row'[p] \in Row
        <5>1. PICK s \in {"dead", "pending"} :
                s = IF row[p].tries + 1 >= MaxTries THEN "dead" ELSE "pending"
          OBVIOUS
        <5>2. PICK n : n = row[p].tries + 1
          OBVIOUS
        <5>3. n \in Nat /\ row[p] \in Row
          BY <1>4, <5>2 DEF Row
        <5>4. row'[p] = [row[p] EXCEPT !.tries = n, !.done = s]
          BY <3>4, <5>1, <5>2 DEF SendFails, Columns
        <5> QED
          BY <5>3, <5>4 DEF Row
      <4>2. \A q \in Posts : q # p => row'[q] = row[q]
        BY <3>4 DEF SendFails, Columns
      <4>3. row' = [q \in Posts |-> row'[q]]
        BY <3>4 DEF SendFails, Columns
      <4> QED
        BY <1>4, <4>1, <4>2, <4>3
    <3> QED
      BY <1>12, <3>3, <3>4
  <2> QED
    BY <1>12, <2>1, <2>2, <2>3 DEF Send, SendFails, Columns
<1>13. CASE Record \/ Locked \/ Pass
  <2>1. faults' \in 0 .. MaxFaults /\ clock' \in 0 .. End
    <3>1. /\ faults' = faults \/ (faults < MaxFaults /\ faults' = faults + 1)
          /\ clock' = clock \/ (clock < End /\ clock' = clock + 1)
      BY <1>13 DEF Record, Locked, Pass
    <3> QED
      BY <1>2, <3>1
  <2>2. row' \in [Posts -> Row]
    <3>1. ASSUME NEW p \in Posts PROVE Recorded(p) \in [Posts -> Row]
      <4>1. [row[p] EXCEPT !.done = "done"] \in Row
        BY <1>4 DEF Row
      <4>2. Recorded(p) = [row EXCEPT ![p] = [row[p] EXCEPT !.done = "done"]]
        BY DEF Recorded, Columns
      <4> QED
        BY <4>1, <4>2 DEF Columns
    <3>2. row' = row \/ \E p \in Posts : row' = Recorded(p)
      BY <1>13 DEF Record, Locked, Pass, Columns
    <3> QED
      BY <3>1, <3>2 DEF Columns
  <2> QED
    BY <1>13, <2>1, <2>2 DEF Record, Locked, Pass, Columns
<1> QED
  BY <1>5, <1>6, <1>7, <1>8, <1>9, <1>10, <1>11, <1>12, <1>13 DEF Next

\* Every step of the channel keeps the invariant.
LEMMA ChannelStep == ChannelInd /\ [Next]_vars => ChannelInd'
<1> SUFFICES ASSUME ChannelInd, [Next]_vars PROVE ChannelInd'
  OBVIOUS
<1>1. Columns' /\ clock \in Int
  BY ColumnsKept DEF ChannelInd, Columns
<1>2. CASE \/ UNCHANGED vars \/ BeginRun \/ KillRun \/ Verify \/ Resume \/ AskConfig
           \/ (\E c \in Channels : Configure(c)) \/ (\E p \in Posts : AskEdit(p)) \/ Pass
  <2>1. Quietly /\ UNCHANGED <<post, approved>> /\ clock' >= clock
    BY <1>1, <1>2 DEF vars, desk, Quietly, BeginRun, KillRun, Verify, Resume, AskConfig,
       Configure, AskEdit, Pass
  <2> QED
    BY <1>1, <2>1, FrameStep
<1>3. ASSUME NEW p \in Posts, Approve(p) \/ Reject(p) \/ \E t \in Texts : Edit(p, t)
      PROVE  ChannelInd'
  <2>1. post[p] \in PostRow /\ clock \in 0 .. End
    BY DEF ChannelInd, Columns
  <2>2. Quietly /\ clock' = clock
    BY <1>3 DEF Approve, Reject, Edit, desk, Quietly
  <2>3. CASE Approve(p)
    <3>1. /\ Marked(p, "approved") \in PostRow /\ Marked(p, "approved").status = "approved"
          /\ Marked(p, "approved").text = post[p].text
      BY <2>1 DEF Marked, PostRow, Statuses
    <3>2. /\ post' = [post EXCEPT ![p] = Marked(p, "approved")]
          /\ post[p].status = "review"
          /\ approved'[p] = approved[p] \cup {post[p].text}
          /\ \A q \in Posts : q # p => approved'[q] = approved[q]
      BY <2>3 DEF Approve, ChannelInd, Columns
    <3> QED
      BY <1>1, <2>2, <3>1, <3>2, DeskStep
  <2>4. CASE Reject(p)
    <3>1. Marked(p, "rejected") \in PostRow /\ Marked(p, "rejected").status = "rejected"
      BY <2>1 DEF Marked, PostRow, Statuses
    <3>2. /\ post' = [post EXCEPT ![p] = Marked(p, "rejected")]
          /\ post[p].status \in {"review", "approved"} /\ approved' = approved
      BY <2>4 DEF Reject
    <3> QED
      BY <1>1, <2>2, <3>1, <3>2, DeskStep
  <2>5. ASSUME NEW t \in Texts, Edit(p, t) PROVE ChannelInd'
    <3> DEFINE r == [status |-> "review", text |-> t, updated |-> clock]
    <3>1. r \in PostRow /\ r.status = "review"
      BY <2>1 DEF PostRow, Statuses
    <3>2. /\ post' = [post EXCEPT ![p] = r] /\ Editable(p) /\ approved' = approved
      BY <2>5 DEF Edit
    <3>3. post[p].status \in {"review", "approved", "rejected"}
      BY <3>2 DEF Editable
    <3> HIDE DEF r
    <3> QED
      BY <1>1, <2>2, <3>1, <3>2, <3>3, DeskStep
  <2> QED
    BY <1>3, <2>3, <2>4, <2>5
<1>4. CASE \/ Pause \/ RetryOutbox \/ Record \/ Locked \/ EndRun \/ EndRunUnverified
  BY <1>1, <1>4, PauseStep, RetryStep, RecordStep, LockedStep, RunsStep
<1>5. ASSUME NEW p \in Posts, Send(p) \/ SendFails(p) PROVE ChannelInd'
  BY <1>1, <1>5, SendStep, SendFailsStep
<1>6. ASSUME NEW p \in Posts, AskEdit(p) PROVE ChannelInd'
  BY <1>2, <1>6
<1>7. CASE UNCHANGED vars
  BY <1>2, <1>7
<1>8. CASE Next
  BY <1>2, <1>3, <1>4, <1>5, <1>6, <1>8 DEF Next
<1> QED
  BY <1>7, <1>8

-----------------------------------------------------------------------------
\* What followers of the channel have seen agrees with what administrators approved,
\* with the posts' statuses and rows and with the hours between posts, for any
\* number of days, slots, faults and acts of administrators
\* (channel_manager.py: tick, _stage_approved, _complete_outbox, callback).
THEOREM ChannelSafe == Spec => []ChannelInv
  BY ChannelStart, ChannelStep, ChannelMeans, PTL DEF Spec

\* A post that is in review, approved and not queued, rejected or expired is not
\* shown by any step, though its message may have been queued, withdrawn by a pause
\* and queued anew.
THEOREM ChannelWithheld == Spec => WithheldNotShown
<1> DEFINE Withheld ==
             \A p \in Posts : post[p].status \in {"review", "approved", "rejected", "expired"}
                                => shown'[p] = shown[p]
<1>1. ASSUME ChannelInd, [Next]_vars PROVE [Withheld]_vars
  <2>1. \A p \in Posts : post[p].status \in {"review", "approved", "rejected", "expired"} =>
          row[p].done # "pending"
    BY <1>1 DEF ChannelInd, RowFits
  <2>2. ASSUME NEW p \in Posts, Send(p) \/ SendFails(p) PROVE Withheld
    <3>1. row[p].done = "pending" /\ \A q \in Posts : q # p => shown'[q] = shown[q]
      BY <1>1, <2>2 DEF Send, SendFails, Sendable, ChannelInd, Columns
    <3> QED
      BY <2>1, <3>1
  <2>3. CASE UNCHANGED shown
    BY <2>3
  <2>4. CASE UNCHANGED vars
    BY <2>4
  <2>5. CASE Next /\ ~(\E p \in Posts : Send(p) \/ SendFails(p))
    <3>1. UNCHANGED shown
      BY <2>5 DEF Next, BeginRun, EndRun, EndRunUnverified, KillRun, Verify, Resume, Pause,
         AskConfig, Configure, Approve, Reject, AskEdit, Edit, RetryOutbox, Record, Locked,
         Pass, desk
    <3> QED
      BY <2>3, <3>1
  <2> QED
    BY <1>1, <2>2, <2>4, <2>5
<1> QED
  BY <1>1, ChannelStart, ChannelStep, PTL DEF Spec, WithheldNotShown

-----------------------------------------------------------------------------
(* The import of films.                                                      *)

FilmsTyped ==
  /\ job \in [Variants -> F!JobStates] /\ tries \in [Variants -> 0 .. Retries]
  /\ rested \subseteq Variants /\ file \subseteq Variants /\ poster \subseteq Posters
  /\ episode \in [F!Episodes -> [status : {"none", "published", "removed"},
                                 file : Variants \cup {F!Nothing}]]
  /\ told \in [F!Episodes -> Nat]
  /\ at \in {"off", "exhausted", "unfinished", "covers", "upload", "poster", "publish", "blocked"}
  /\ cur \in Variants \cup {F!Nothing}
  /\ \A v \in Variants : job[v] \in {"uploaded", "done"} => v \in file

\* What a loop of the worker has left is what the loop is about.
LoopFits ==
  /\ at = "exhausted" => todo \subseteq F!Episodes
  /\ at = "unfinished" => todo \subseteq file
  /\ at = "covers" => todo \subseteq (F!Titles \cap Posters) \cup F!Episodes
  /\ at \notin {"exhausted", "unfinished", "covers"} => todo = {}

\* The job the worker has in hand is where the worker is.
JobInHand ==
  /\ at \in {"upload", "poster", "publish", "blocked"} => cur \in Variants
  /\ at = "upload" => job[cur] = "processing"
  /\ at \in {"poster", "publish"} => job[cur] = "uploaded"

\* A job that may still be tried has attempts left.
TriesLeft == \A v \in Variants : job[v] \notin {"done", "blocked"} => tries[v] < Retries

FilmsInd == FilmsTyped /\ LoopFits /\ JobInHand /\ TriesLeft /\ F!AnnouncedOnce /\ F!FileServed

\* The lowest quality of some is one of them.
LEMMA LowestOf ==
  ASSUME NEW S \in SUBSET Variants, S # {}
  PROVE  F!Min(S) \in S
<1>1. S \in SUBSET Nat
  BY FilmsAssumption
<1>2. \E k \in S : \A l \in S : k <= l
  BY <1>1, LeastNumber
<1> QED
  BY <1>2 DEF F!Min

\* What is shown after a transaction that leaves the jobs as j and the posters as c.
Shown(j) ==
  /\ episode' \in [F!Episodes -> [status : {"none", "published", "removed"},
                                  file : Variants \cup {F!Nothing}]]
  /\ told' \in [F!Episodes -> Nat]
  /\ \A e \in F!Episodes :
       /\ told'[e] = IF episode'[e].status = "none" THEN 0 ELSE 1
       /\ episode'[e].status = "published" =>
            /\ F!Nothing # episode'[e].file
            /\ EpisodeOf[episode'[e].file] = e
            /\ episode'[e].file \in file /\ j[episode'[e].file] = "done"

\* A transaction that shows no episode.
LEMMA NothingShown ==
  ASSUME FilmsInd, NEW j, \A v \in Variants : job[v] = "done" => j[v] = "done",
         UNCHANGED <<episode, told>>
  PROVE  Shown(j)
<1>1. \A v \in file : v # F!Nothing /\ v \in Variants
  BY FilmsAssumption DEF FilmsInd, FilmsTyped, F!Nothing
<1> QED
  BY <1>1 DEF FilmsInd, FilmsTyped, F!AnnouncedOnce, F!FileServed, Shown

\* An episode is shown as a finished file of its own, and announced the first time.
LEMMA FinalizeShows ==
  ASSUME FilmsInd, NEW j, \A v \in Variants : job[v] = "done" => j[v] = "done",
         NEW c, NEW e \in F!Episodes, F!Finalize(j, c, e)
  PROVE  Shown(j)
<1>1. CASE ~F!Shows(j, c, e)
  BY <1>1, NothingShown DEF F!Finalize
<1>2. CASE F!Shows(j, c, e)
  <2> DEFINE best == F!Primary(j, e)
  <2>1. F!Ready(j, e) \in SUBSET Variants /\ F!Ready(j, e) # {}
    BY <1>2 DEF F!Shows, F!Complete, F!Ready, F!Staged, F!VariantsOf
  <2>2. best \in F!Ready(j, e)
    BY <2>1, LowestOf DEF F!Primary
  <2>3. /\ best \in Variants /\ EpisodeOf[best] = e /\ best \in file /\ j[best] = "done"
        /\ best # F!Nothing
    BY <2>2, FilmsAssumption DEF F!Ready, F!Staged, F!VariantsOf, F!Nothing
  <2>4. /\ episode' = [episode EXCEPT ![e] = [status |-> "published", file |-> best]]
        /\ told' = [told EXCEPT ![e] = @ + IF F!New(e) THEN 1 ELSE 0]
    BY <1>2 DEF F!Finalize
  <2> HIDE DEF best
  <2>5. \A d \in F!Episodes : d # e => episode'[d] = episode[d] /\ told'[d] = told[d]
    BY <2>4 DEF FilmsInd, FilmsTyped
  <2>6. episode'[e] = [status |-> "published", file |-> best]
    BY <2>4 DEF FilmsInd, FilmsTyped
  <2>7. told'[e] = 1
    <3>1. episode[e].status \in {"none", "published"} /\ told[e] \in Nat
      BY <1>2 DEF F!Shows, FilmsInd, FilmsTyped
    <3>2. told[e] = IF episode[e].status = "none" THEN 0 ELSE 1
      BY DEF FilmsInd, F!AnnouncedOnce
    <3>3. told'[e] = told[e] + IF episode[e].status # "published" THEN 1 ELSE 0
      BY <2>4 DEF FilmsInd, FilmsTyped, F!New
    <3> QED
      BY <3>1, <3>2, <3>3
  <2>8. /\ episode' \in [F!Episodes -> [status : {"none", "published", "removed"},
                                        file : Variants \cup {F!Nothing}]]
        /\ told' \in [F!Episodes -> Nat]
    BY <2>3, <2>4, <2>5, <2>6, <2>7 DEF FilmsInd, FilmsTyped
  <2>9. \A v \in file : v # F!Nothing /\ v \in Variants
    BY FilmsAssumption DEF FilmsInd, FilmsTyped, F!Nothing
  <2> QED
    BY <2>3, <2>5, <2>6, <2>7, <2>8, <2>9 DEF FilmsInd, F!AnnouncedOnce, F!FileServed, Shown
<1> QED
  BY <1>1, <1>2

\* All of the invariant but what is shown.
Jobs ==
  /\ job \in [Variants -> F!JobStates] /\ tries \in [Variants -> 0 .. Retries]
  /\ rested \subseteq Variants /\ file \subseteq Variants /\ poster \subseteq Posters
  /\ at \in {"off", "exhausted", "unfinished", "covers", "upload", "poster", "publish", "blocked"}
  /\ cur \in Variants \cup {F!Nothing}
  /\ \A v \in Variants : job[v] \in {"uploaded", "done"} => v \in file
  /\ LoopFits /\ JobInHand /\ TriesLeft

\* The invariant, as far as it is about jobs alone.
LEMMA JobsOf == FilmsInd => Jobs
  BY DEF FilmsInd, FilmsTyped, Jobs

\* The parts of the invariant together.
LEMMA FilmsGather ==
  ASSUME Jobs', Shown(job'), file \subseteq file'
  PROVE  FilmsInd'
  BY DEF Jobs, Shown, FilmsInd, FilmsTyped, F!AnnouncedOnce, F!FileServed, F!Episodes, F!Nothing

\* Jobs that others add or give back are not the worker's.
LEMMA StagedOrRequeued ==
  ASSUME FilmsInd, F!ImportManifest \/ F!RequeueTransient
  PROVE  FilmsInd'
<1>1. PICK vs : F!Stage(vs) \/ ( /\ vs \subseteq {v \in rested : job[v] = "failed"}
                                 /\ job' = [v \in Variants |-> IF v \in vs THEN "pending" ELSE job[v]]
                                 /\ rested' = rested \ vs
                                 /\ UNCHANGED <<tries, file, poster, episode, told, at, cur, todo,
                                                failures>>)
  BY DEF F!ImportManifest, F!RequeueTransient
<1>2. /\ UNCHANGED <<tries, file, poster, episode, told, at, cur, todo>>
      /\ rested' \subseteq rested /\ job' \in [Variants -> F!JobStates]
      /\ \A v \in Variants : job'[v] = job[v] \/ (job[v] \in {"none", "failed"} /\ job'[v] = "pending")
  BY <1>1 DEF F!Stage, FilmsInd, FilmsTyped, F!JobStates
<1>3. Shown(job')
  BY <1>2, NothingShown
<1>4. Jobs'
  BY <1>2, JobsOf DEF Jobs, LoopFits, JobInHand, TriesLeft, F!Episodes, F!Titles, F!Nothing,
     F!JobStates
<1> QED
  BY <1>2, <1>3, <1>4, FilmsGather

\* The commit that ends or releases what earlier runs left.
LEMMA StartStep ==
  ASSUME FilmsInd, F!Start
  PROVE  FilmsInd'
<1> DEFINE t == [v \in Variants |-> tries[v] + IF v \in F!Interrupted THEN 1 ELSE 0]
           out == F!Exhausted(t)
<1>1. /\ tries' = t /\ at' = "exhausted" /\ todo' = {EpisodeOf[v] : v \in out}
      /\ job' = [v \in Variants |-> IF v \in out THEN "blocked"
                                    ELSE IF v \in F!Interrupted THEN "failed" ELSE job[v]]
      /\ rested' = rested \ (F!Interrupted \cup out)
      /\ UNCHANGED <<file, poster, episode, told, cur>>
  BY DEF F!Start
<1>2. t \in [Variants -> 0 .. Retries] /\ \A v \in Variants \ F!Interrupted : t[v] = tries[v]
  BY FilmsAssumption DEF FilmsInd, FilmsTyped, TriesLeft, F!Interrupted
<1>3. /\ out \subseteq Variants
      /\ \A v \in out : job[v] \in {"processing", "failed"} /\ t[v] >= Retries
      /\ \A v \in F!Interrupted : job[v] = "processing" /\ (v \notin out => t[v] < Retries)
      /\ \A v \in Variants : job[v] = "failed" /\ v \notin out => t[v] < Retries
  <2>1. F!Interrupted \subseteq Variants /\ \A v \in F!Interrupted : job[v] = "processing"
    BY DEF FilmsInd, FilmsTyped, F!Interrupted
  <2>2. \A v : v \in out <=> /\ v \in F!Interrupted \cup {x \in Variants : job[x] = "failed"}
                             /\ t[v] >= Retries
    BY DEF F!Exhausted
  <2>3. \A v \in Variants : t[v] >= Retries \/ t[v] < Retries
    BY <1>2, FilmsAssumption
  <2> HIDE DEF t, out
  <2> QED
    BY <2>1, <2>2, <2>3
<1>4. \A v \in Variants : /\ v \in out => job'[v] = "blocked"
                          /\ v \notin out /\ v \in F!Interrupted => job'[v] = "failed"
                          /\ v \notin out /\ v \notin F!Interrupted => job'[v] = job[v]
  BY <1>1
<1>5. job' \in [Variants -> F!JobStates]
  BY <1>1 DEF FilmsInd, FilmsTyped, F!JobStates
<1>6. todo' \subseteq F!Episodes
  BY <1>1, <1>3 DEF F!Episodes
<1> HIDE DEF t, out
<1>7. Shown(job')
  BY <1>1, <1>3, <1>4, NothingShown
<1>8. TriesLeft'
  BY <1>1, <1>2, <1>3, <1>4 DEF FilmsInd, TriesLeft
<1>9. Jobs'
  <2>1. LoopFits' /\ JobInHand'
    BY <1>1, <1>6 DEF LoopFits, JobInHand, F!Episodes
  <2>2. \A v \in Variants : job'[v] \in {"uploaded", "done"} => v \in file'
    BY <1>1, <1>4 DEF FilmsInd, FilmsTyped
  <2> QED
    BY <1>1, <1>2, <1>5, <1>8, <2>1, <2>2 DEF FilmsInd, FilmsTyped, Jobs, F!Nothing, F!JobStates
<1> QED
  BY <1>1, <1>7, <1>9, FilmsGather

\* Loops that show episodes and change no job.
LEMMA FinalizeStep ==
  ASSUME FilmsInd, NEW c, NEW e \in F!Episodes, F!Finalize(job, c, e),
         UNCHANGED <<job, tries, rested, file, poster>>,
         \/ UNCHANGED <<at, cur>> /\ todo' \subseteq todo
         \/ at' = "off" /\ todo' = {} /\ cur' = F!Nothing
  PROVE  FilmsInd'
<1>1. Shown(job')
  BY FinalizeShows
<1>2. Jobs'
  BY JobsOf DEF Jobs, LoopFits, JobInHand, TriesLeft, F!Episodes, F!Titles, F!Nothing, F!JobStates
<1> QED
  BY <1>1, <1>2, FilmsGather

\* Steps of the worker that show nothing and change no job.
LEMMA QuietStep ==
  ASSUME FilmsInd, UNCHANGED <<job, tries, file, episode, told>>,
         rested' \subseteq Variants, poster' \subseteq Posters,
         LoopFits', JobInHand', cur' \in Variants \cup {F!Nothing},
         at' \in {"off", "exhausted", "unfinished", "covers", "upload", "poster", "publish", "blocked"}
  PROVE  FilmsInd'
<1>1. Shown(job')
  BY NothingShown
<1>2. Jobs'
  BY JobsOf DEF Jobs, TriesLeft, F!Nothing, F!JobStates
<1> QED
  BY <1>1, <1>2, FilmsGather

\* A file in Telegram becomes a finished job, and perhaps an episode is shown.
LEMMA PublishStep ==
  ASSUME FilmsInd, NEW v \in Variants, F!Publish(v), v \in file,
         UNCHANGED <<tries, rested, file, poster>>,
         \/ UNCHANGED <<at, cur>> /\ todo' \subseteq todo /\ at = "unfinished"
         \/ at' = "off" /\ todo' = {} /\ cur' = F!Nothing
  PROVE  FilmsInd'
<1>1. /\ job' = [job EXCEPT ![v] = "done"]
      /\ F!Finalize(job', poster, EpisodeOf[v])
  BY DEF F!Publish
<1>2. \A x \in Variants : job'[x] = IF x = v THEN "done" ELSE job[x]
  BY <1>1 DEF FilmsInd, FilmsTyped
<1>3. EpisodeOf[v] \in F!Episodes
  BY DEF F!Episodes
<1>4. Shown(job')
  BY <1>1, <1>2, <1>3, FinalizeShows
<1>5. job' \in [Variants -> F!JobStates]
  BY <1>1 DEF FilmsInd, FilmsTyped, F!JobStates
<1>6. Jobs'
  BY <1>2, <1>5, JobsOf DEF Jobs, LoopFits, JobInHand, TriesLeft, F!Episodes, F!Titles, F!Nothing,
     F!JobStates
<1> QED
  BY <1>4, <1>6, FilmsGather

\* An attempt that fails, in an upload or in the transaction that publishes.
LEMMA EndingStep ==
  ASSUME FilmsInd, at \in {"upload", "publish"}, NEW ex, F!Ending(cur, ex),
         UNCHANGED <<file, poster, episode, told, todo>>
  PROVE  FilmsInd'
<1>1. cur \in Variants /\ job[cur] \in {"processing", "uploaded"} /\ todo = {}
  BY DEF FilmsInd, JobInHand, LoopFits
<1>2. /\ job' = [job EXCEPT ![cur] = F!Raised(cur, ex)]
      /\ tries' = [tries EXCEPT ![cur] = @ + 1] /\ rested' = rested \ {cur}
      /\ IF F!Raised(cur, ex) = "blocked" THEN at' = "blocked" /\ cur' = cur
                                         ELSE at' = "off" /\ cur' = F!Nothing
  BY DEF F!Ending
<1>3. tries[cur] \in 0 .. Retries /\ tries[cur] < Retries
  BY <1>1 DEF FilmsInd, FilmsTyped, TriesLeft
<1>4. /\ F!Raised(cur, ex) \in {"blocked", "failed"}
      /\ F!Raised(cur, ex) = "failed" => tries[cur] + 1 < Retries
  BY <1>3, FilmsAssumption DEF F!Raised
<1>5. \A x \in Variants : /\ job'[x] = IF x = cur THEN F!Raised(cur, ex) ELSE job[x]
                          /\ tries'[x] = IF x = cur THEN tries[cur] + 1 ELSE tries[x]
  BY <1>1, <1>2 DEF FilmsInd, FilmsTyped
<1>6. job' \in [Variants -> F!JobStates]
  BY <1>2, <1>4 DEF FilmsInd, FilmsTyped, F!JobStates
<1>7. tries[cur] + 1 \in 0 .. Retries
  BY <1>3, FilmsAssumption
<1>8. tries' \in [Variants -> 0 .. Retries]
  BY <1>2, <1>7 DEF FilmsInd, FilmsTyped
<1>9. Shown(job')
  BY <1>1, <1>5, NothingShown
<1>10. TriesLeft'
  BY <1>4, <1>5 DEF FilmsInd, TriesLeft
<1>11. Jobs'
  BY <1>1, <1>2, <1>4, <1>5, <1>6, <1>8, <1>10, JobsOf
     DEF Jobs, LoopFits, JobInHand, F!Episodes, F!Titles, F!Nothing, F!JobStates
<1> QED
  BY <1>9, <1>11, FilmsGather

\* Every step of the import of films keeps its invariant.
LEMMA FilmsStep ==
  ASSUME FilmsInd, F!Next
  PROVE  FilmsInd'
<1> USE DEF F!Nothing
<1>1. CASE F!ImportManifest \/ F!RequeueTransient
  BY <1>1, StagedOrRequeued
<1>2. CASE F!Start
  BY <1>2, StartStep
<1>3. CASE F!FinalizeExhausted
  <2>1. /\ at = "exhausted" /\ todo \subseteq F!Episodes
        /\ UNCHANGED <<job, tries, rested, file, poster, cur>>
    BY <1>3 DEF F!FinalizeExhausted, FilmsInd, LoopFits
  <2>2. CASE /\ at' = "unfinished" /\ todo' = F!Unfinished(job) /\ UNCHANGED <<episode, told>>
    BY <2>1, <2>2, QuietStep DEF LoopFits, JobInHand, F!Unfinished, FilmsInd, FilmsTyped
  <2>3. CASE \E e \in todo : F!Finalize(job, poster, e) /\ todo' = todo \ {e} /\ UNCHANGED at
    BY <2>1, <2>3, FinalizeStep
  <2> QED
    BY <1>3, <2>2, <2>3 DEF F!FinalizeExhausted
<1>4. CASE F!PublishUnfinished
  <2>1. /\ at = "unfinished" /\ todo \subseteq file /\ file \subseteq Variants
        /\ UNCHANGED <<tries, rested, file, poster, cur>>
    BY <1>4 DEF F!PublishUnfinished, FilmsInd, LoopFits, FilmsTyped
  <2>2. CASE at' = "covers" /\ todo' = F!FirstCoverless /\ UNCHANGED <<job, episode, told>>
    <3>1. todo' \subseteq F!Titles \cap Posters
      <4>1. \A k \in todo' : k \in Posters /\ \E e \in F!Episodes : TitleOf[e] = k
        BY <2>2 DEF F!FirstCoverless, F!Coverless, F!EpisodesOf
      <4> QED
        BY <4>1 DEF F!Titles
    <3> QED
      BY <2>1, <2>2, <3>1, QuietStep DEF LoopFits, JobInHand, FilmsInd, FilmsTyped, F!Episodes,
         F!Titles
  <2>3. CASE \E v \in todo : F!Publish(v) /\ todo' = todo \ {v} /\ UNCHANGED at
    BY <2>1, <2>3, PublishStep
  <2> QED
    BY <1>4, <2>2, <2>3 DEF F!PublishUnfinished
<1>5. CASE F!RetryCover
  <2>1. /\ at = "covers" /\ UNCHANGED <<job, tries, rested, file, episode, told, at, cur>>
        /\ poster' \subseteq poster \cup todo /\ todo \cap F!Episodes = {}
        /\ \E k \in todo : todo' \subseteq (todo \ {k}) \cup F!EpisodesOf(k)
    BY <1>5 DEF F!RetryCover
  <2>2. todo \subseteq F!Titles \cap Posters
    BY <2>1 DEF FilmsInd, LoopFits
  <2>3. LoopFits' /\ JobInHand'
    BY <2>1, <2>2 DEF LoopFits, JobInHand, FilmsInd, F!EpisodesOf, F!Episodes, F!Titles
  <2>4. poster' \subseteq Posters
    BY <2>1, <2>2 DEF FilmsInd, FilmsTyped
  <2> QED
    BY <2>1, <2>3, <2>4, QuietStep DEF FilmsInd, FilmsTyped
<1>6. CASE F!FinalizeCovered
  BY <1>6, FinalizeStep DEF F!FinalizeCovered
<1>7. CASE F!Claim
  <2>1. /\ at = "covers" /\ todo = {} /\ UNCHANGED <<tries, file, poster, episode, told, todo>>
        /\ \/ F!Next1 = {} /\ at' = "off" /\ UNCHANGED <<job, rested, cur>>
           \/ \E v \in F!Next1 : /\ job' = [job EXCEPT ![v] = "processing"]
                                 /\ rested' = rested \ {v} /\ at' = "upload" /\ cur' = v
    BY <1>7 DEF F!Claim
  <2>2. CASE at' = "off" /\ UNCHANGED <<job, rested, cur>>
    BY <2>1, <2>2, QuietStep DEF LoopFits, JobInHand, FilmsInd, FilmsTyped
  <2>3. CASE \E v \in F!Next1 : /\ job' = [job EXCEPT ![v] = "processing"]
                                /\ rested' = rested \ {v} /\ at' = "upload" /\ cur' = v
    <3>1. PICK v \in F!Next1 : /\ job' = [job EXCEPT ![v] = "processing"]
                               /\ rested' = rested \ {v} /\ at' = "upload" /\ cur' = v
      BY <2>3
    <3>2. v \in Variants /\ job[v] \in {"failed", "pending"}
      BY DEF F!Next1, F!Due, F!Pending, FilmsInd, FilmsTyped
    <3>3. \A x \in Variants : job'[x] = IF x = v THEN "processing" ELSE job[x]
      BY <3>1 DEF FilmsInd, FilmsTyped
    <3>4. job' \in [Variants -> F!JobStates]
      BY <3>1 DEF FilmsInd, FilmsTyped, F!JobStates
    <3>5. Shown(job')
      BY <2>1, <3>2, <3>3, NothingShown
    <3>6. Jobs'
      BY <2>1, <3>1, <3>2, <3>3, <3>4, JobsOf
         DEF Jobs, LoopFits, JobInHand, TriesLeft, F!Episodes, F!Titles, F!JobStates
    <3> QED
      BY <2>1, <3>5, <3>6, FilmsGather
  <2> QED
    BY <2>1, <2>2, <2>3
<1>8. CASE F!UploadOne
  <2>1. /\ at = "upload" /\ UNCHANGED <<poster, episode, told, todo>>
        /\ cur \in Variants /\ job[cur] = "processing" /\ todo = {}
    BY <1>8 DEF F!UploadOne, FilmsInd, JobInHand, LoopFits
  <2>2. CASE /\ file' = file \cup {cur} /\ job' = [job EXCEPT ![cur] = "uploaded"]
             /\ at' = "poster" /\ UNCHANGED <<tries, rested, cur>>
    <3>1. \A x \in Variants : job'[x] = IF x = cur THEN "uploaded" ELSE job[x]
      BY <2>1, <2>2 DEF FilmsInd, FilmsTyped
    <3>2. job' \in [Variants -> F!JobStates]
      BY <2>2 DEF FilmsInd, FilmsTyped, F!JobStates
    <3>3. Shown(job')
      BY <2>1, <3>1, NothingShown
    <3>4. Jobs'
      BY <2>1, <2>2, <3>1, <3>2, JobsOf
         DEF Jobs, LoopFits, JobInHand, TriesLeft, F!Episodes, F!Titles, F!JobStates
    <3> QED
      BY <2>2, <3>3, <3>4, FilmsGather
  <2>3. CASE \E result : F!Ending(cur, result) /\ UNCHANGED file
    BY <2>1, <2>3, EndingStep
  <2> QED
    BY <1>8, <2>2, <2>3 DEF F!UploadOne
<1>9. CASE F!UploadCover
  <2>1. /\ at = "poster" /\ at' = "publish" /\ poster' \subseteq poster \cup Posters
        /\ UNCHANGED <<job, tries, rested, file, episode, told, cur, todo>>
    BY <1>9 DEF F!UploadCover
  <2> QED
    BY <2>1, QuietStep DEF LoopFits, JobInHand, FilmsInd, FilmsTyped
<1>10. CASE F!PublishOne
  <2>1. /\ at = "publish" /\ cur \in Variants /\ cur \in file /\ todo = {}
        /\ UNCHANGED <<file, poster, todo>>
    BY <1>10 DEF F!PublishOne, FilmsInd, FilmsTyped, JobInHand, LoopFits
  <2>2. CASE F!Publish(cur) /\ at' = "off" /\ cur' = F!Nothing /\ UNCHANGED <<tries, rested>>
    BY <2>1, <2>2, PublishStep
  <2>3. CASE F!Ending(cur, "OperationalError") /\ UNCHANGED <<episode, told>>
    BY <2>1, <2>3, EndingStep
  <2> QED
    BY <1>10, <2>2, <2>3 DEF F!PublishOne
<1>11. CASE F!FinalizeBlocked
  <2>1. cur \in Variants /\ todo = {}
    BY <1>11 DEF F!FinalizeBlocked, FilmsInd, JobInHand, LoopFits
  <2> QED
    BY <1>11, <2>1, FinalizeStep DEF F!FinalizeBlocked, F!Episodes
<1>12. CASE F!Kill
  BY <1>12, QuietStep DEF F!Kill, LoopFits, JobInHand, FilmsInd, FilmsTyped
<1>13. ASSUME NEW v \in Variants, F!Rest(v) PROVE FilmsInd'
  <2>1. /\ rested' = rested \cup {v}
        /\ UNCHANGED <<job, tries, file, poster, episode, told, at, cur, todo>>
    BY <1>13 DEF F!Rest
  <2> QED
    BY <2>1, QuietStep DEF LoopFits, JobInHand, FilmsInd, FilmsTyped, F!Episodes, F!Titles
<1>14. ASSUME NEW e \in F!Episodes, F!Remove(e) PROVE FilmsInd'
  <2>1. /\ episode[e].status = "published"
        /\ episode' = [episode EXCEPT ![e].status = "removed"]
        /\ UNCHANGED <<job, tries, rested, file, poster, told, at, cur, todo>>
    BY <1>14 DEF F!Remove
  <2>2. /\ \A d \in F!Episodes : d # e => episode'[d] = episode[d]
        /\ episode'[e].status = "removed"
    BY <2>1 DEF FilmsInd, FilmsTyped
  <2>3. Shown(job')
    <3>1. \A v \in file : v # F!Nothing /\ v \in Variants
      BY FilmsAssumption DEF FilmsInd, FilmsTyped
    <3> QED
      BY <2>1, <2>2, <3>1 DEF FilmsInd, FilmsTyped, Shown, F!AnnouncedOnce, F!FileServed
  <2>4. Jobs'
    BY <2>1, JobsOf DEF Jobs, LoopFits, JobInHand, TriesLeft, F!Episodes, F!Titles, F!JobStates
  <2> QED
    BY <2>1, <2>3, <2>4, FilmsGather
<1> QED
  BY <1>1, <1>2, <1>3, <1>4, <1>5, <1>6, <1>7, <1>8, <1>9, <1>10, <1>11, <1>12, <1>13, <1>14
     DEF F!Next, F!Worker

\* Nothing changes the failures but a failure.
LEMMA FilmsFailures ==
  ASSUME F!Next
  PROVE  UNCHANGED failures \/ F!Fault
  BY DEF F!Next, F!Worker, F!Start, F!FinalizeExhausted, F!PublishUnfinished, F!RetryCover,
     F!FinalizeCovered, F!Claim, F!UploadOne, F!UploadCover, F!PublishOne, F!FinalizeBlocked,
     F!Kill, F!ImportManifest, F!Stage, F!RequeueTransient, F!Rest, F!Remove

\* The invariant holds before the first import.
LEMMA FilmsStart == F!Init => FilmsInd
<1> SUFFICES ASSUME F!Init PROVE FilmsInd
  OBVIOUS
<1> QED
  BY FilmsAssumption DEF F!Init, FilmsInd, FilmsTyped, LoopFits, JobInHand, TriesLeft,
     F!AnnouncedOnce, F!FileServed, F!JobStates, F!Nothing

\* What the invariant says of the properties.
LEMMA FilmsMean ==
  ASSUME FilmsInd, failures \in 0 .. MaxFailures
  PROVE  F!TypeOK /\ F!AnnouncedOnce /\ F!FileServed
  BY DEF FilmsInd, FilmsTyped, LoopFits, F!TypeOK, F!Titles, F!Episodes

\* No transaction touches an episode that was removed.
LEMMA RemovedStep ==
  ASSUME FilmsInd, F!Next, NEW e \in F!Episodes, episode[e].status = "removed"
  PROVE  episode'[e] = episode[e]
<1>1. ASSUME NEW j, NEW c, NEW d \in F!Episodes, F!Finalize(j, c, d) PROVE episode'[e] = episode[e]
  BY <1>1 DEF F!Finalize, F!Shows, FilmsInd, FilmsTyped
<1>2. ASSUME NEW v \in Variants, F!Publish(v) PROVE episode'[e] = episode[e]
  BY <1>1, <1>2 DEF F!Publish, F!Episodes
<1>3. CASE F!FinalizeExhausted \/ F!PublishUnfinished \/ F!FinalizeCovered
  BY <1>1, <1>2, <1>3 DEF F!FinalizeExhausted, F!PublishUnfinished, F!FinalizeCovered, FilmsInd,
     LoopFits, FilmsTyped
<1>4. CASE F!PublishOne \/ F!FinalizeBlocked
  BY <1>1, <1>2, <1>4 DEF F!PublishOne, F!FinalizeBlocked, FilmsInd, JobInHand, F!Episodes
<1>5. ASSUME NEW d \in F!Episodes, F!Remove(d) PROVE episode'[e] = episode[e]
  BY <1>5 DEF F!Remove, FilmsInd, FilmsTyped
<1>6. CASE UNCHANGED episode
  BY <1>6
<1> QED
  BY <1>3, <1>4, <1>5, <1>6 DEF F!Next, F!Worker, F!Start, F!RetryCover, F!Claim, F!UploadOne,
     F!UploadCover, F!Kill, F!ImportManifest, F!Stage, F!RequeueTransient, F!Rest

-----------------------------------------------------------------------------
(* The scan of the films' catalogue.                                         *)

EntryStates == C!Settled \cup {"none", "discovered", "staging"}
RunType == [status : {"none", "queued", "running", "done", "failed"}, limit : {0, Newest}]
RunIds == Runs \cup {0}
Counts == 0 .. LastPage
Places == Nat \ {0}
Batches == SUBSET Pages
Results == {<<>>} \cup (Pages \X C!Settled)
ProcType == [at : C!ProcStates, run : RunIds, first : Counts, total : Counts, place : Places,
             batch : Batches, picked : BOOLEAN, mid : Results]

CatalogueTyped ==
  /\ newest \in 0 .. LastPage /\ page \in [Pages -> SUBSET Offers] /\ staged \subseteq Offers
  /\ run \in [Runs -> RunType] /\ proc \in [Pipelines -> ProcType]
  /\ scanned \in [Runs -> [Pages -> [state : EntryStates, entry : SUBSET Offers]]]

\* A run reads no more articles than were there when it started.
ListFits == \A p \in Pipelines : proc[p].total <= proc[p].first /\ proc[p].first <= newest

\* A process that works has a run, and items of it in hand that were written before.
BatchFits ==
  \A p \in Pipelines :
    /\ C!Works(p) => proc[p].run \in Runs
    /\ ~C!Works(p) => proc[p].batch = {} /\ ~proc[p].picked
    /\ proc[p].mid # <<>> => proc[p].mid[1] \in proc[p].batch
    /\ \A t \in proc[p].batch : scanned[proc[p].run][t].state # "none"

\* What a transaction found out and the next one is to write is still so.
MidStaged ==
  \A p \in Pipelines : proc[p].mid # <<>> /\ proc[p].mid[2] # "error" =>
    scanned[proc[p].run][proc[p].mid[1]].entry \subseteq staged

\* Items not written have no entry.
UnseenIsEmpty ==
  \A r \in Runs, t \in Pages : scanned[r][t].state = "none" => scanned[r][t] = C!Unseen

CatalogueInd ==
  CatalogueTyped /\ ListFits /\ BatchFits /\ MidStaged /\ UnseenIsEmpty /\ C!QueuedIsStaged

\* The invariant holds before the first scan.
LEMMA CatalogueStart == C!Init => CatalogueInd
<1> SUFFICES ASSUME C!Init PROVE CatalogueInd
  OBVIOUS
<1> USE DEF C!Init, C!Unseen, C!Idle
<1>0. 0 \in 0 .. LastPage /\ 0 \in Counts /\ 1 \in Places /\ 0 \in RunIds /\ {} \in Batches
      /\ <<>> \in Results /\ "off" \in C!ProcStates
  BY CatalogueAssumption DEF Counts, Places, RunIds, Batches, Results, C!ProcStates
<1>1. CatalogueTyped
  <2>1. /\ newest \in 0 .. LastPage /\ page \in [Pages -> SUBSET Offers] /\ staged \subseteq Offers
        /\ run \in [Runs -> RunType]
        /\ scanned \in [Runs -> [Pages -> [state : EntryStates, entry : SUBSET Offers]]]
    BY <1>0 DEF EntryStates, RunType
  <2>2. proc \in [Pipelines -> ProcType]
    BY <1>0 DEF ProcType
  <2> QED
    BY <2>1, <2>2 DEF CatalogueTyped
<1>2. ListFits /\ BatchFits /\ MidStaged /\ UnseenIsEmpty /\ C!QueuedIsStaged
  BY CatalogueAssumption
     DEF ListFits, BatchFits, MidStaged, UnseenIsEmpty, C!QueuedIsStaged, C!Works
<1> QED
  BY <1>1, <1>2 DEF CatalogueInd

\* A process that is off.
LEMMA IdleType ==
  /\ C!Idle \in ProcType
  /\ C!Idle.run = 0 /\ C!Idle.first = 0 /\ C!Idle.total = 0
  /\ C!Idle.batch = {} /\ C!Idle.mid = <<>> /\ C!Idle.picked = FALSE
<1>1. /\ 0 \in Counts /\ 1 \in Places /\ 0 \in RunIds /\ {} \in Batches /\ <<>> \in Results
      /\ "off" \in C!ProcStates
  BY CatalogueAssumption DEF Counts, Places, RunIds, Batches, Results, C!ProcStates
<1> QED
  BY <1>1 DEF C!Idle, ProcType

\* A process begins with a run and empty hands.
LEMMA BeginStep ==
  ASSUME CatalogueInd, NEW p \in Pipelines, NEW r \in Runs, C!Begin(p, r), UNCHANGED newest
  PROVE  /\ proc' \in [Pipelines -> ProcType] /\ ListFits'
         /\ \A q \in Pipelines : q # p => proc'[q] = proc[q]
         /\ proc'[p].run = r /\ proc'[p].batch = {} /\ proc'[p].mid = <<>>
         /\ C!Works(p)'
<1> DEFINE new == [C!Idle EXCEPT !.at = "reserved", !.run = r]
<1>1. "reserved" \in C!ProcStates /\ r \in RunIds /\ 0 <= newest /\ 0 <= 0
  BY CatalogueAssumption DEF CatalogueInd, CatalogueTyped, RunIds, C!ProcStates
<1>2. C!Idle \in ProcType
  BY IdleType
<1>3. new \in ProcType /\ new.at = "reserved" /\ new.run = r
      /\ new.first = C!Idle.first /\ new.total = C!Idle.total
      /\ new.batch = C!Idle.batch /\ new.mid = C!Idle.mid
  BY <1>1, <1>2 DEF ProcType
<1>4. proc' = [proc EXCEPT ![p] = new]
  BY DEF C!Begin
<1> HIDE DEF new
<1>5. /\ proc' \in [Pipelines -> ProcType] /\ proc'[p] = new
      /\ \A q \in Pipelines : q # p => proc'[q] = proc[q]
  BY <1>3, <1>4 DEF CatalogueInd, CatalogueTyped
<1>6. proc'[p].first = 0 /\ proc'[p].total = 0
  BY <1>3, <1>5, IdleType
<1>7. ListFits'
  BY <1>1, <1>5, <1>6 DEF CatalogueInd, ListFits
<1> QED
  BY <1>3, <1>5, <1>7, IdleType DEF C!Works

\* Steps that leave the items alone.
LEMMA ItemsKept ==
  ASSUME CatalogueInd, UNCHANGED scanned, staged \subseteq staged', staged' \subseteq Offers,
         page' \in [Pages -> SUBSET Offers], run' \in [Runs -> RunType],
         newest' \in 0 .. LastPage, proc' \in [Pipelines -> ProcType], ListFits',
         \A p \in Pipelines :
           \/ /\ ~C!Works(p)' /\ proc'[p].batch = {} /\ ~proc'[p].picked /\ proc'[p].mid = <<>>
           \/ /\ C!Works(p) /\ C!Works(p)' /\ proc'[p].run = proc[p].run
              /\ \/ proc'[p].batch = proc[p].batch
                 \/ /\ proc[p].batch = {}
                    /\ \A t \in proc'[p].batch : scanned[proc[p].run][t].state # "none"
              /\ \/ proc'[p].mid = proc[p].mid
                 \/ /\ proc'[p].mid[1] \in proc[p].batch
                    /\ proc'[p].mid[2] # "error" =>
                         scanned[proc[p].run][proc'[p].mid[1]].entry \subseteq staged'
  PROVE  CatalogueInd'
<1>1. CatalogueTyped'
  BY DEF CatalogueInd, CatalogueTyped
<1>2. BatchFits'
  BY DEF CatalogueInd, BatchFits
<1>3. MidStaged'
  BY DEF CatalogueInd, MidStaged
<1>4. UnseenIsEmpty' /\ C!QueuedIsStaged'
  BY DEF CatalogueInd, UnseenIsEmpty, C!QueuedIsStaged, C!Unseen
<1> QED
  BY <1>1, <1>2, <1>3, <1>4 DEF CatalogueInd

ItemsOf == [Pages -> [state : EntryStates, entry : SUBSET Offers]]

\* The items `new` of a run agree with what is staged, ...
WritesWell(new) ==
  \A t \in Pages :
    /\ new[t].state = "none" => new[t] = C!Unseen
    /\ new[t].state \in {"queued", "already_added"} => new[t].entry \subseteq staged

\* ... keep what is listed, unless no process looks at them, ...
KeepsLists(r, new) ==
  \/ \A t \in Pages : scanned[r][t].state # "none" =>
       new[t].state # "none" /\ new[t].entry = scanned[r][t].entry
  \/ \A q \in Pipelines : proc[q].run # r

\* ... and the process that writes them has items in hand that are written.
WrittenBy(p, r, new) ==
  /\ \A q \in Pipelines : q # p => proc'[q] = proc[q]
  /\ C!Works(p)' /\ proc'[p].run = r
  /\ \A t \in proc'[p].batch : new[t].state # "none"
  /\ \/ proc'[p].mid = <<>>
     \/ /\ proc'[p].mid = proc[p].mid /\ proc[p].run = r
        /\ proc[p].batch \subseteq proc'[p].batch /\ C!Works(p)

\* Steps that write items of one run, and change no process but one.
LEMMA ItemsWritten ==
  ASSUME CatalogueInd, UNCHANGED <<newest, page, staged>>, run' \in [Runs -> RunType],
         proc' \in [Pipelines -> ProcType], ListFits',
         NEW r \in Runs, NEW new \in ItemsOf, NEW p \in Pipelines,
         scanned' = [scanned EXCEPT ![r] = new],
         WritesWell(new), KeepsLists(r, new), WrittenBy(p, r, new)
  PROVE  CatalogueInd'
<1> USE DEF ItemsOf, WritesWell, KeepsLists, WrittenBy
<1>1. scanned' \in [Runs -> [Pages -> [state : EntryStates, entry : SUBSET Offers]]]
  BY DEF CatalogueInd, CatalogueTyped
<1>2. scanned'[r] = new /\ \A x \in Runs : x # r => scanned'[x] = scanned[x]
  BY DEF CatalogueInd, CatalogueTyped
<1>3. CatalogueTyped'
  BY <1>1 DEF CatalogueInd, CatalogueTyped
<1>4. ASSUME NEW q \in Pipelines, q # p, NEW t \in proc[q].batch
      PROVE  /\ scanned'[proc[q].run][t].state # "none"
             /\ scanned'[proc[q].run][t].entry = scanned[proc[q].run][t].entry
  <2>1. /\ proc[q].run \in Runs /\ t \in Pages /\ scanned[proc[q].run][t].state # "none"
    BY <1>4 DEF CatalogueInd, BatchFits, CatalogueTyped, ProcType, Batches
  <2> QED
    BY <1>2, <2>1
<1>5. ASSUME NEW q \in Pipelines, q # p
      PROVE  /\ proc'[q] = proc[q] /\ (C!Works(q)' <=> C!Works(q))
             /\ C!Works(q) => proc[q].run \in Runs
             /\ ~C!Works(q) => proc[q].batch = {} /\ ~proc[q].picked
             /\ proc[q].mid # <<>> => proc[q].mid[1] \in proc[q].batch
  BY <1>5 DEF CatalogueInd, BatchFits, C!Works
<1>6. BatchFits'
  <2>1. \A t \in proc'[p].batch : scanned'[proc'[p].run][t].state # "none"
    BY <1>2
  <2>2. proc'[p].mid # <<>> => proc'[p].mid[1] \in proc'[p].batch
    BY DEF CatalogueInd, BatchFits
  <2>3. ASSUME NEW q \in Pipelines, q # p, NEW t \in proc'[q].batch
        PROVE  scanned'[proc'[q].run][t].state # "none"
    BY <1>4, <1>5, <2>3
  <2> QED
    BY <1>5, <2>1, <2>2, <2>3 DEF BatchFits
<1>7. MidStaged'
  <2>1. ASSUME NEW q \in Pipelines, q # p, proc[q].mid # <<>>, proc[q].mid[2] # "error"
        PROVE  scanned'[proc[q].run][proc[q].mid[1]].entry \subseteq staged
    BY <1>4, <1>5, <2>1 DEF CatalogueInd, MidStaged
  <2>2. ASSUME proc'[p].mid # <<>>, proc[p].mid[2] # "error"
        PROVE  scanned'[r][proc[p].mid[1]].entry \subseteq staged
    <3>1. /\ proc'[p].mid = proc[p].mid /\ proc[p].run = r
          /\ proc[p].mid[1] \in proc[p].batch
      BY <2>2 DEF CatalogueInd, BatchFits
    <3>2. scanned[r][proc[p].mid[1]].state # "none" /\ proc[p].mid[1] \in Pages
      BY <3>1 DEF CatalogueInd, BatchFits, CatalogueTyped, ProcType, Batches
    <3>3. scanned[r][proc[p].mid[1]].entry \subseteq staged
      BY <2>2, <3>1 DEF CatalogueInd, MidStaged
    <3> QED
      BY <1>2, <3>1, <3>2, <3>3
  <2> QED
    BY <2>1, <2>2 DEF MidStaged
<1>8. UnseenIsEmpty' /\ C!QueuedIsStaged'
  <2>1. ASSUME NEW x \in Runs, NEW t \in Pages
        PROVE  /\ scanned'[x][t].state = "none" => scanned'[x][t] = C!Unseen
               /\ scanned'[x][t].state \in {"queued", "already_added"} =>
                    scanned'[x][t].entry \subseteq staged
    <3>1. CASE x = r
      BY <1>2, <3>1
    <3>2. CASE x # r
      BY <1>2, <3>2 DEF CatalogueInd, UnseenIsEmpty, C!QueuedIsStaged
    <3> QED
      BY <3>1, <3>2
  <2> QED
    BY <2>1 DEF UnseenIsEmpty, C!QueuedIsStaged, C!Unseen
<1> QED
  BY <1>3, <1>6, <1>7, <1>8 DEF CatalogueInd

Item == [state : EntryStates, entry : SUBSET Offers]

\* Writing an item's state.
LEMMA Restated ==
  ASSUME NEW i \in Item, NEW s \in EntryStates
  PROVE  /\ [i EXCEPT !.state = s] \in Item
         /\ [i EXCEPT !.state = s].state = s /\ [i EXCEPT !.state = s].entry = i.entry
  BY DEF Item

\* Items that are marked keep their entry.
LEMMA ItemMarked ==
  ASSUME CatalogueInd, NEW r \in Runs, NEW ts, NEW s \in EntryStates, C!Mark(r, ts, s)
  PROVE  \E new \in ItemsOf :
           /\ scanned' = [scanned EXCEPT ![r] = new]
           /\ \A t \in Pages : IF t \in ts
                              THEN new[t].state = s /\ new[t].entry = scanned[r][t].entry
                              ELSE new[t] = scanned[r][t]
<1> DEFINE new == [t \in Pages |-> IF t \in ts THEN [scanned[r][t] EXCEPT !.state = s]
                                  ELSE scanned[r][t]]
<1>1. \A t \in Pages : scanned[r][t] \in Item
  BY DEF CatalogueInd, CatalogueTyped, Item
<1>2. \A t \in Pages : new[t] \in Item
  BY <1>1, Restated
<1>3. new \in ItemsOf
  BY <1>2 DEF ItemsOf, Item
<1>4. scanned' = [scanned EXCEPT ![r] = new]
  BY DEF C!Mark, CatalogueInd, CatalogueTyped
<1>5. \A t \in Pages : IF t \in ts
                       THEN new[t].state = s /\ new[t].entry = scanned[r][t].entry
                       ELSE new[t] = scanned[r][t]
  BY <1>1, Restated
<1> QED
  BY <1>3, <1>4, <1>5

\* Every step of the scan keeps its invariant.
LEMMA CatalogueStep ==
  ASSUME CatalogueInd, C!Next
  PROVE  CatalogueInd'
<1>0. /\ \A p \in Pipelines :
           /\ proc[p] \in ProcType
           /\ proc[p].at \in C!ProcStates /\ proc[p].run \in Runs \cup {0}
           /\ proc[p].place \in Nat \ {0} /\ proc[p].batch \subseteq Pages
           /\ proc[p].mid = <<>> \/ proc[p].mid \in Pages \X C!Settled
           /\ C!Works(p) => proc[p].run \in Runs
           /\ ~C!Works(p) => proc[p].batch = {} /\ ~proc[p].picked /\ proc[p].mid = <<>>
  BY DEF CatalogueInd, CatalogueTyped, ProcType, RunIds, Places, Batches, Results, BatchFits
<1>n. newest \in 0 .. LastPage /\ newest \in Nat /\ 0 \in 0 .. LastPage /\ 0 <= newest
  BY CatalogueAssumption DEF CatalogueInd, CatalogueTyped
<1>p. page \in [Pages -> SUBSET Offers] /\ staged \subseteq Offers
  BY DEF CatalogueInd, CatalogueTyped
<1>r. run \in [Runs -> RunType]
  BY DEF CatalogueInd, CatalogueTyped
<1>w. proc \in [Pipelines -> ProcType]
  BY DEF CatalogueInd, CatalogueTyped
<1>s. scanned \in [Runs -> ItemsOf]
  BY DEF CatalogueInd, CatalogueTyped, ItemsOf
<1>l. /\ ListFits
      /\ \A p \in Pipelines : proc[p].first \in 0 .. LastPage /\ proc[p].total \in 0 .. LastPage
  BY DEF CatalogueInd, CatalogueTyped, ProcType, Counts
<1>e. /\ "looked" \in C!ProcStates /\ "scanning" \in C!ProcStates /\ "drain" \in C!ProcStates
      /\ 0 \in Counts /\ 1 \in Places
  BY <1>n DEF C!ProcStates, Counts, Places
<1>k. UNCHANGED proc => \A p \in Pipelines : C!Works(p)' <=> C!Works(p)
  BY DEF C!Works
<1>1. ASSUME C!Publish \/ \E v \in Offers : C!Post(v) PROVE CatalogueInd'
  <2>1. page' \in [Pages -> SUBSET Offers]
    BY <1>p, <1>1, CatalogueAssumption DEF C!Post, C!Publish
  <2>2. /\ newest' \in 0 .. LastPage /\ newest <= newest'
        /\ UNCHANGED <<run, scanned, proc, staged>>
    BY <1>n, <1>1, CatalogueAssumption DEF C!Post, C!Publish, Pages
  <2>3. ListFits'
    BY <1>l, <1>n, <2>2, CatalogueAssumption DEF ListFits
  <2> QED
    BY <1>0, <1>k, <1>p, <1>r, <1>w, <2>1, <2>2, <2>3, ItemsKept
<1>b. ASSUME NEW p \in Pipelines, C!Look(p) PROVE CatalogueInd'
  <2>1. PICK r \in RunIds :
          /\ proc' = [proc EXCEPT ![p].at = "looked", ![p].run = r]
          /\ proc[p].at = "off" /\ UNCHANGED <<newest, page, run, scanned, staged>>
    <3>1. CASE proc' = [proc EXCEPT ![p].at = "looked"]
      <4>1. proc' = [proc EXCEPT ![p].at = "looked", ![p].run = proc[p].run]
        BY <1>0, <1>w, <3>1 DEF ProcType
      <4> QED
        BY <1>0, <1>b, <4>1 DEF C!Look, RunIds
    <3> QED
      BY <1>b, <3>1 DEF C!Look, C!Active, RunIds
  <2>2. proc' \in [Pipelines -> ProcType]
    BY <1>e, <1>w, <2>1 DEF ProcType
  <2>3. \A q \in Pipelines : /\ proc'[q].first = proc[q].first /\ proc'[q].total = proc[q].total
                             /\ proc'[q].batch = proc[q].batch /\ proc'[q].mid = proc[q].mid
                             /\ proc'[q].picked = proc[q].picked
                             /\ q = p => ~C!Works(q) /\ ~C!Works(q)'
                             /\ q # p => proc'[q] = proc[q]
    BY <1>w, <2>1 DEF ProcType, C!Works
  <2>4. ListFits'
    BY <1>l, <2>1, <2>3 DEF ListFits
  <2>5. \A q \in Pipelines : q # p => (C!Works(q)' <=> C!Works(q))
    BY <2>3 DEF C!Works
  <2> QED
    BY <1>0, <1>n, <1>p, <1>r, <1>w, <2>1, <2>2, <2>3, <2>4, <2>5, ItemsKept
<1>2. ASSUME NEW p \in Pipelines, C!Resume(p) PROVE CatalogueInd'
  <2>1. PICK r \in Runs :
          /\ run' = [run EXCEPT ![r] = C!Row(p)]
          /\ scanned' = [scanned EXCEPT ![r] = [t \in Pages |->
               IF @[t].state = "staging" THEN [@[t] EXCEPT !.state = "discovered"] ELSE @[t]]]
          /\ C!Begin(p, r)
    BY <1>0, <1>2 DEF C!Resume
  <2> DEFINE new == [t \in Pages |-> IF scanned[r][t].state = "staging"
                                     THEN [scanned[r][t] EXCEPT !.state = "discovered"]
                                     ELSE scanned[r][t]]
  <2>2. scanned' = [scanned EXCEPT ![r] = new]
    BY <1>s, <2>1
  <2>3. \A t \in Pages : scanned[r][t] \in Item /\ "discovered" \in EntryStates
    BY <1>s DEF ItemsOf, Item, EntryStates
  <2>4. \A t \in Pages :
          /\ new[t] \in Item
          /\ IF scanned[r][t].state = "staging"
             THEN new[t].state = "discovered" /\ new[t].entry = scanned[r][t].entry
             ELSE new[t] = scanned[r][t]
    BY <2>3, Restated
  <2>5. new \in ItemsOf
    BY <2>4 DEF ItemsOf, Item
  <2>6. UNCHANGED <<newest, page, staged>> /\ run' \in [Runs -> RunType]
    <3> DEFINE l == IF C!Resumes(p) THEN 0 ELSE Newest
    <3>1. l \in {0, Newest} /\ C!Row(p) = [status |-> "queued", limit |-> l]
      BY DEF C!Row
    <3> HIDE DEF l
    <3>2. C!Row(p) \in RunType
      BY <3>1 DEF RunType
    <3> QED
      BY <1>r, <1>2, <2>1, <3>2 DEF C!Resume
  <2> HIDE DEF new
  <2>7. WritesWell(new)
    BY <2>4 DEF CatalogueInd, UnseenIsEmpty, C!QueuedIsStaged, WritesWell
  <2>8. KeepsLists(r, new)
    BY <2>4 DEF KeepsLists
  <2>9. proc' \in [Pipelines -> ProcType] /\ ListFits' /\ WrittenBy(p, r, new)
    BY <2>1, <2>6, BeginStep DEF WrittenBy
  <2> QED
    BY <2>2, <2>5, <2>6, <2>7, <2>8, <2>9, ItemsWritten
<1>3. ASSUME NEW p \in Pipelines, C!ReserveRun(p) PROVE CatalogueInd'
  <2>1. PICK r \in Runs :
          /\ \A q \in Pipelines : proc[q].run # r
          /\ run' = [run EXCEPT ![r] = C!Row(p)]
          /\ scanned' = [scanned EXCEPT ![r] = [t \in Pages |-> C!Unseen]]
          /\ C!Begin(p, r)
    BY <1>3 DEF C!ReserveRun, C!Spare
  <2> DEFINE new == [t \in Pages |-> C!Unseen]
  <2>2. C!Unseen \in Item /\ C!Unseen.state = "none"
    BY DEF EntryStates, C!Unseen, Item
  <2>3. new \in ItemsOf /\ WritesWell(new)
    BY <2>2 DEF ItemsOf, Item, WritesWell
  <2>4. UNCHANGED <<newest, page, staged>> /\ run' \in [Runs -> RunType]
    BY <1>r, <1>3, <2>1 DEF C!ReserveRun, C!Row, RunType
  <2> HIDE DEF new
  <2>5. KeepsLists(r, new)
    BY <2>1 DEF KeepsLists
  <2>6. scanned' = [scanned EXCEPT ![r] = new]
    BY <2>1 DEF new
  <2>7. proc' \in [Pipelines -> ProcType] /\ ListFits' /\ WrittenBy(p, r, new)
    BY <2>1, <2>4, BeginStep DEF WrittenBy
  <2> QED
    BY <2>3, <2>4, <2>5, <2>6, <2>7, ItemsWritten
<1>4. ASSUME NEW p \in Pipelines, C!StartScan(p) PROVE CatalogueInd'
  <2>1. /\ proc[p].at = "reserved" /\ UNCHANGED <<newest, page, scanned, staged>>
        /\ run' = [run EXCEPT ![proc[p].run].status = "running"]
    BY <1>4 DEF C!StartScan
  <2>2. run' \in [Runs -> RunType]
    BY <1>r, <2>1 DEF RunType
  <2>3. proc[p].run \in Runs /\ run[proc[p].run].limit \in Nat
    BY <1>0, <1>r, <2>1, CatalogueAssumption DEF C!Works, RunType
  <2>4. PICK f \in 0 .. LastPage, n \in 0 .. LastPage :
          /\ n <= f /\ f <= newest
          /\ proc' = [proc EXCEPT ![p].at = "scanning", ![p].first = f, ![p].total = n]
          /\ f \in Counts /\ n \in Counts
    <3>1. CASE proc' = [proc EXCEPT ![p].at = "scanning"]
      <4>1. proc' = [proc EXCEPT ![p].at = "scanning", ![p].first = proc[p].first,
                                 ![p].total = proc[p].total]
        BY <1>0, <1>w, <3>1 DEF ProcType
      <4> QED
        BY <1>l, <4>1 DEF ListFits, Counts
    <3>2. CASE proc' # [proc EXCEPT ![p].at = "scanning"]
      <4> DEFINE limit == run[proc[p].run].limit
                 n == IF limit = 0 THEN newest ELSE C!Least(newest, limit)
      <4>1. proc' = [proc EXCEPT ![p].at = "scanning", ![p].first = newest, ![p].total = n]
        BY <1>4, <3>2 DEF C!StartScan
      <4>2. n \in 0 .. LastPage /\ n <= newest
        BY <1>n, <2>3, CatalogueAssumption DEF C!Least
      <4> HIDE DEF n
      <4>3. newest \in 0 .. LastPage /\ newest \in Counts /\ n \in Counts /\ newest <= newest
        BY <1>n, <4>2 DEF Counts
      <4> QED
        BY <4>1, <4>2, <4>3
    <3> QED
      BY <3>1, <3>2
  <2>5. proc' \in [Pipelines -> ProcType]
    BY <1>e, <1>w, <2>4 DEF ProcType
  <2>6. \A q \in Pipelines : /\ proc'[q].run = proc[q].run /\ proc'[q].batch = proc[q].batch
                             /\ proc'[q].mid = proc[q].mid /\ proc'[q].picked = proc[q].picked
                             /\ C!Works(q)' <=> C!Works(q)
    BY <1>w, <2>1, <2>4 DEF ProcType, C!Works
  <2>7. ListFits'
    <3>1. proc'[p].first = f /\ proc'[p].total = n /\ \A q \in Pipelines : q # p => proc'[q] = proc[q]
      BY <1>w, <2>4 DEF ProcType
    <3> QED
      BY <1>l, <2>1, <2>4, <3>1 DEF ListFits
  <2> QED
    BY <1>0, <1>n, <1>p, <1>r, <1>w, <2>1, <2>2, <2>5, <2>6, <2>7, ItemsKept
<1>5. ASSUME NEW p \in Pipelines, NEW t \in Pages, C!Scan(p, t) PROVE CatalogueInd'
  <2>1. /\ proc[p].at = "scanning" /\ proc' = [proc EXCEPT ![p].place = @ + 1]
        /\ UNCHANGED <<newest, page, run, staged>>
        /\ UNCHANGED scanned \/ \E s \in {"discovered", "error"} : C!Insert(proc[p].run, t, s)
    BY <1>5 DEF C!Scan
  <2>2. proc' \in [Pipelines -> ProcType]
    <3>1. proc[p].place + 1 \in Places
      BY <1>0 DEF Places
    <3> QED
      BY <1>w, <2>1, <3>1 DEF ProcType
  <2>3. \A q \in Pipelines : /\ proc'[q].run = proc[q].run /\ proc'[q].batch = proc[q].batch
                             /\ proc'[q].mid = proc[q].mid /\ proc'[q].picked = proc[q].picked
                             /\ proc'[q].first = proc[q].first /\ proc'[q].total = proc[q].total
                             /\ C!Works(q)' <=> C!Works(q)
                             /\ q # p => proc'[q] = proc[q]
    BY <1>w, <2>1 DEF ProcType, C!Works
  <2>l. ListFits'
    BY <1>l, <2>1, <2>3 DEF ListFits
  <2>4. CASE UNCHANGED scanned
    BY <1>0, <1>n, <1>p, <1>r, <1>w, <2>1, <2>2, <2>3, <2>4, <2>l, ItemsKept
  <2>5. CASE scanned' # scanned
    <3> DEFINE r == proc[p].run
    <3>1. PICK s \in {"discovered", "error"} :
            /\ scanned[r][t] = C!Unseen
            /\ scanned' = [scanned EXCEPT ![r][t] = [state |-> s,
                 entry |-> IF s = "error" THEN {} ELSE page[t]]]
      BY <2>1, <2>5 DEF C!Insert, C!BuildEntry
    <3>2. r \in Runs /\ C!Works(p)
      BY <1>0, <2>1 DEF C!Works
    <3> DEFINE e == [state |-> s, entry |-> IF s = "error" THEN {} ELSE page[t]]
               new == [scanned[r] EXCEPT ![t] = e]
    <3>3. scanned' = [scanned EXCEPT ![r] = new]
      BY <1>s, <3>1, <3>2
    <3>4. e \in Item /\ e.state \in {"discovered", "error"}
      BY <1>p DEF EntryStates, C!Settled, Item
    <3>5. scanned[r] \in ItemsOf
      BY <1>s, <3>2
    <3>6. /\ new \in ItemsOf /\ new[t] = e
          /\ \A x \in Pages : x # t => new[x] = scanned[r][x]
      BY <3>4, <3>5 DEF ItemsOf, Item
    <3>7. scanned[r][t].state = "none"
      BY <3>1 DEF C!Unseen
    <3> HIDE DEF e, new
    <3>8. WritesWell(new)
      BY <3>2, <3>4, <3>6 DEF CatalogueInd, UnseenIsEmpty, C!QueuedIsStaged, WritesWell
    <3>9. \A x \in Pages : scanned[r][x].state # "none" =>
              new[x].state # "none" /\ new[x].entry = scanned[r][x].entry
      BY <3>6, <3>7
    <3>10. \A x \in proc[p].batch : new[x].state # "none" /\ x \in Pages
      BY <1>0, <3>9 DEF CatalogueInd, BatchFits
    <3>11. KeepsLists(r, new) /\ WrittenBy(p, r, new)
      BY <2>1, <2>3, <3>2, <3>9, <3>10 DEF KeepsLists, WrittenBy
    <3>12. UNCHANGED <<newest, page, staged>> /\ run' \in [Runs -> RunType]
      BY <1>r, <2>1
    <3> HIDE DEF r
    <3> QED
      BY <2>2, <2>l, <3>2, <3>3, <3>6, <3>8, <3>11, <3>12, ItemsWritten
  <2> QED
    BY <2>4, <2>5
<1>6. ASSUME NEW p \in Pipelines, C!EndScan(p) PROVE CatalogueInd'
  <2>1. /\ proc[p].at = "scanning"
        /\ proc' = [proc EXCEPT ![p].at = "drain", ![p].first = 0, ![p].total = 0, ![p].place = 1]
        /\ \E s \in {"done", "failed"} : run' = [run EXCEPT ![proc[p].run].status = s]
        /\ UNCHANGED <<newest, page, scanned, staged>>
    BY <1>6 DEF C!EndScan
  <2>2. run' \in [Runs -> RunType]
    <3>1. PICK s \in {"done", "failed"} : run' = [run EXCEPT ![proc[p].run].status = s]
      BY <2>1
    <3> QED
      BY <1>r, <3>1 DEF RunType
  <2>3. proc' \in [Pipelines -> ProcType]
    <3> DEFINE new == [proc[p] EXCEPT !.at = "drain", !.first = 0, !.total = 0, !.place = 1]
    <3>1. new \in ProcType
      BY <1>0, <1>e DEF ProcType
    <3>2. proc' = [proc EXCEPT ![p] = new]
      BY <1>w, <2>1
    <3> HIDE DEF new
    <3> QED
      BY <1>w, <3>1, <3>2
  <2>4. \A q \in Pipelines : /\ proc'[q].run = proc[q].run /\ proc'[q].batch = proc[q].batch
                             /\ proc'[q].mid = proc[q].mid /\ proc'[q].picked = proc[q].picked
                             /\ C!Works(q)' <=> C!Works(q)
    BY <1>w, <2>1 DEF ProcType, C!Works
  <2>5. ListFits'
    <3>1. proc'[p].first = 0 /\ proc'[p].total = 0 /\ \A q \in Pipelines : q # p => proc'[q] = proc[q]
      BY <1>w, <2>1 DEF ProcType
    <3>2. newest' = newest /\ 0 <= newest /\ 0 <= 0
      BY <1>n, <2>1
    <3> QED
      BY <1>l, <3>1, <3>2 DEF ListFits
  <2> QED
    BY <1>0, <1>n, <1>p, <1>r, <1>w, <2>1, <2>2, <2>3, <2>4, <2>5, ItemsKept
<1>a. ASSUME NEW p \in Pipelines, C!PickBatch(p) PROVE CatalogueInd'
  <2> DEFINE ts == C!Found(p)
  <2>1. /\ C!Works(p) /\ proc[p].batch = {} /\ proc' = [proc EXCEPT ![p].batch = ts, ![p].picked = TRUE]
        /\ UNCHANGED <<newest, page, run, scanned, staged>>
    BY <1>a DEF C!PickBatch
  <2>2. ts \subseteq Pages /\ \A t \in ts : scanned[proc[p].run][t].state = "discovered"
    BY DEF C!Found
  <2> HIDE DEF ts
  <2>3. proc' \in [Pipelines -> ProcType]
    <3>1. ts \in Batches
      BY <2>2 DEF Batches
    <3> QED
      BY <1>w, <2>1, <3>1 DEF ProcType
  <2>4. \A q \in Pipelines : /\ proc'[q].run = proc[q].run /\ proc'[q].mid = proc[q].mid
                             /\ proc'[q].first = proc[q].first /\ proc'[q].total = proc[q].total
                             /\ C!Works(q)' <=> C!Works(q)
                             /\ q = p => proc'[q].batch = ts
                             /\ q # p => proc'[q] = proc[q]
    BY <1>w, <2>1 DEF ProcType, C!Works
  <2>5. ListFits'
    BY <1>l, <2>1, <2>4 DEF ListFits
  <2> QED
    BY <1>0, <1>n, <1>p, <1>r, <1>w, <2>1, <2>2, <2>3, <2>4, <2>5, ItemsKept
<1>7. ASSUME NEW p \in Pipelines, C!ClaimBatch(p) PROVE CatalogueInd'
  <2> DEFINE r == proc[p].run
             ts == proc[p].batch \cap C!Found(p)
  <2>1. /\ proc[p].picked /\ proc' = [proc EXCEPT ![p].picked = FALSE]
        /\ UNCHANGED <<newest, page, run, staged>> /\ C!Mark(r, ts, "staging")
    BY <1>7 DEF C!ClaimBatch
  <2>2. C!Works(p) /\ r \in Runs /\ ts \subseteq Pages /\ "staging" \in EntryStates
    BY <1>0, <2>1 DEF C!Found, EntryStates
  <2>3. proc' \in [Pipelines -> ProcType]
    BY <1>w, <2>1 DEF ProcType
  <2>4. /\ \A q \in Pipelines : q # p => proc'[q] = proc[q]
        /\ \A q \in Pipelines : proc'[q].first = proc[q].first /\ proc'[q].total = proc[q].total
        /\ proc'[p].at = proc[p].at /\ proc'[p].run = r /\ proc'[p].batch = proc[p].batch
        /\ proc'[p].mid = proc[p].mid
    BY <1>w, <2>1 DEF ProcType
  <2>l. ListFits'
    BY <1>l, <2>1, <2>4 DEF ListFits
  <2>5. \A t \in proc[p].batch : scanned[r][t].state # "none" /\ t \in Pages
    BY <1>0 DEF CatalogueInd, BatchFits
  <2> HIDE DEF r, ts
  <2>6. PICK new \in ItemsOf :
           /\ scanned' = [scanned EXCEPT ![r] = new]
           /\ \A t \in Pages : IF t \in ts
                              THEN new[t].state = "staging" /\ new[t].entry = scanned[r][t].entry
                              ELSE new[t] = scanned[r][t]
    BY <2>1, <2>2, ItemMarked
  <2>7. WritesWell(new)
    BY <2>2, <2>6 DEF CatalogueInd, UnseenIsEmpty, C!QueuedIsStaged, WritesWell
  <2>8. KeepsLists(r, new)
    BY <2>6 DEF KeepsLists
  <2>9. WrittenBy(p, r, new)
    <3>1. C!Works(p)' /\ proc[p].run = r
      BY <2>2, <2>4 DEF C!Works, r
    <3>2. \A t \in proc'[p].batch : new[t].state # "none"
      BY <2>4, <2>5, <2>6
    <3> QED
      BY <2>2, <2>4, <3>1, <3>2 DEF WrittenBy
  <2>10. run' \in [Runs -> RunType]
    BY <1>r, <2>1
  <2> QED
    BY <2>1, <2>2, <2>3, <2>6, <2>7, <2>8, <2>9, <2>10, <2>l, ItemsWritten
<1>8. ASSUME NEW p \in Pipelines, NEW t \in Pages, C!StageTitle(p, t) PROVE CatalogueInd'
  <2> DEFINE vs == scanned[proc[p].run][t].entry
  <2>1. /\ t \in proc[p].batch /\ proc[p].mid = <<>> /\ UNCHANGED <<newest, page, run, scanned>>
        /\ \/ staged' = staged \cup vs /\ proc' = [proc EXCEPT ![p].mid = <<t, C!Result(vs)>>]
           \/ staged' = staged /\ proc' = [proc EXCEPT ![p].mid = <<t, "error">>]
    BY <1>8 DEF C!StageTitle
  <2>2. C!Works(p) /\ proc[p].run \in Runs /\ t \in Pages
    BY <1>0, <2>1
  <2>b. vs \subseteq Offers
    BY <1>s, <2>2 DEF ItemsOf
  <2> HIDE DEF vs
  <2>3. PICK x \in {C!Result(vs), "error"} :
          /\ proc' = [proc EXCEPT ![p].mid = <<t, x>>]
          /\ staged \subseteq staged' /\ staged' \subseteq Offers
          /\ x # "error" => vs \subseteq staged'
    BY <1>p, <2>1, <2>b
  <2>4. x \in C!Settled
    BY DEF C!Settled, C!Result
  <2>5. proc' \in [Pipelines -> ProcType]
    <3>1. <<t, x>> \in Results
      BY <2>2, <2>4 DEF Results
    <3> QED
      BY <1>w, <2>3, <3>1 DEF ProcType
  <2>6. \A q \in Pipelines : /\ proc'[q].run = proc[q].run /\ proc'[q].batch = proc[q].batch
                             /\ proc'[q].first = proc[q].first /\ proc'[q].total = proc[q].total
                             /\ proc'[q].picked = proc[q].picked /\ C!Works(q)' <=> C!Works(q)
                             /\ proc'[q].mid = IF q = p THEN <<t, x>> ELSE proc[q].mid
    BY <1>w, <2>3 DEF ProcType, C!Works
  <2>l. ListFits'
    BY <1>l, <2>1, <2>6 DEF ListFits
  <2>7. proc'[p].mid[1] \in proc[p].batch /\ (proc'[p].mid[2] # "error" => vs \subseteq staged')
    BY <2>1, <2>3, <2>6
  <2>8. proc'[p].mid[1] = t
    BY <2>6
  <2> QED
    BY <1>0, <1>n, <1>p, <1>r, <1>w, <2>1, <2>2, <2>3, <2>5, <2>6, <2>7, <2>8, <2>l, ItemsKept DEF vs
<1>9. ASSUME NEW p \in Pipelines, C!Record(p) PROVE CatalogueInd'
  <2> DEFINE r == proc[p].run
             t == proc[p].mid[1]
             s == proc[p].mid[2]
  <2>1. /\ proc[p].mid # <<>> /\ C!Mark(r, {t}, s) /\ UNCHANGED <<newest, page, run, staged>>
        /\ proc' = [proc EXCEPT ![p].batch = @ \ {t}, ![p].mid = <<>>]
    BY <1>9 DEF C!Record
  <2>2. /\ C!Works(p) /\ r \in Runs /\ t \in Pages /\ s \in C!Settled
        /\ t \in proc[p].batch
    BY <1>0, <2>1 DEF CatalogueInd, BatchFits
  <2>3. proc' \in [Pipelines -> ProcType]
    <3>1. proc[p].batch \ {t} \in Batches /\ <<>> \in Results
      BY <1>0 DEF Batches, Results
    <3> QED
      BY <1>w, <2>1, <3>1 DEF ProcType
  <2>4. /\ \A q \in Pipelines : q # p => proc'[q] = proc[q]
        /\ \A q \in Pipelines : proc'[q].first = proc[q].first /\ proc'[q].total = proc[q].total
        /\ proc'[p].at = proc[p].at /\ proc'[p].run = r /\ proc'[p].batch = proc[p].batch \ {t}
        /\ proc'[p].mid = <<>>
    BY <1>w, <2>1 DEF ProcType
  <2>l. ListFits' /\ C!Works(p)'
    BY <1>l, <2>1, <2>2, <2>4 DEF ListFits, C!Works
  <2>5. s # "error" => scanned[r][t].entry \subseteq staged
    BY <2>1 DEF CatalogueInd, MidStaged
  <2>6. \A x \in proc[p].batch : x \in Pages /\ scanned[r][x].state # "none"
    BY <1>0 DEF CatalogueInd, BatchFits
  <2> HIDE DEF r, s, t
  <2>7. s \in EntryStates /\ s # "none"
    BY <2>2 DEF EntryStates, C!Settled
  <2>8. PICK new \in ItemsOf :
           /\ scanned' = [scanned EXCEPT ![r] = new]
           /\ \A x \in Pages : IF x \in {t}
                              THEN new[x].state = s /\ new[x].entry = scanned[r][x].entry
                              ELSE new[x] = scanned[r][x]
    BY <2>1, <2>2, <2>7, ItemMarked
  <2>9. WritesWell(new)
    <3>1. new[t].state # "none" /\ new[t].state = s /\ new[t].entry = scanned[r][t].entry
      BY <2>2, <2>7, <2>8
    <3> QED
      BY <2>2, <2>5, <2>8, <3>1 DEF CatalogueInd, UnseenIsEmpty, C!QueuedIsStaged, WritesWell
  <2>10. KeepsLists(r, new) /\ WrittenBy(p, r, new)
    BY <2>2, <2>4, <2>6, <2>7, <2>8, <2>l DEF KeepsLists, WrittenBy
  <2>11. UNCHANGED <<newest, page, staged>> /\ run' \in [Runs -> RunType]
    BY <1>r, <2>1
  <2> QED
    BY <2>2, <2>3, <2>8, <2>9, <2>10, <2>11, <2>l, ItemsWritten
<1>10. ASSUME NEW p \in Pipelines, C!Finish(p) \/ C!Kill(p) PROVE CatalogueInd'
  <2>1. PICK new \in ProcType :
          /\ proc' = [proc EXCEPT ![p] = new] /\ UNCHANGED <<newest, page, run, scanned, staged>>
          /\ new.at \in {"off", "ended"} /\ new.first = 0 /\ new.total = 0
          /\ new.batch = {} /\ new.mid = <<>> /\ new.picked = FALSE
    <3>1. CASE C!Kill(p)
      <4>1. C!Idle.at = "off"
        BY DEF C!Idle
      <4> QED
        BY <3>1, <4>1, IdleType DEF C!Kill
    <3>2. CASE C!Finish(p)
      <4>1. PICK a \in {"off", "ended"} :
              /\ proc' = [proc EXCEPT ![p] = [C!Idle EXCEPT !.at = a]]
              /\ UNCHANGED <<newest, page, run, scanned, staged>>
        BY <3>2 DEF C!Finish
      <4> DEFINE new == [C!Idle EXCEPT !.at = a]
      <4>2. a \in C!ProcStates
        BY DEF C!ProcStates
      <4>3. /\ new \in ProcType /\ new.at = a /\ new.first = C!Idle.first
            /\ new.total = C!Idle.total /\ new.batch = C!Idle.batch
            /\ new.mid = C!Idle.mid /\ new.picked = C!Idle.picked
        BY <4>2, IdleType DEF ProcType
      <4> QED
        BY <4>1, <4>3, IdleType
    <3> QED
      BY <1>10, <3>1, <3>2
  <2>2. /\ proc' \in [Pipelines -> ProcType] /\ proc'[p] = new
        /\ \A q \in Pipelines : q # p => proc'[q] = proc[q]
    BY <1>w, <2>1
  <2>3. ~C!Works(p)' /\ \A q \in Pipelines : q # p => (C!Works(q)' <=> C!Works(q))
    BY <2>1, <2>2 DEF C!Works
  <2>4. newest' = newest /\ 0 <= newest /\ 0 <= 0
    BY <1>n, <2>1
  <2>5. ListFits'
    BY <1>l, <2>1, <2>2, <2>4 DEF ListFits
  <2> QED
    BY <1>0, <1>n, <1>p, <1>r, <1>w, <2>1, <2>2, <2>3, <2>5, ItemsKept
<1> QED
  BY <1>1, <1>b, <1>2, <1>3, <1>4, <1>5, <1>6, <1>a, <1>7, <1>8, <1>9, <1>10 DEF C!Next, C!Pipeline

\* Only a failure is counted as one.
LEMMA CatalogueFailures ==
  ASSUME C!Next
  PROVE  UNCHANGED failures \/ C!Fault
  BY DEF C!Next, C!Pipeline, C!Publish, C!Post, C!Look, C!Resume, C!ReserveRun, C!StartScan, C!Scan,
     C!EndScan, C!PickBatch, C!ClaimBatch, C!StageTitle, C!Record, C!Finish, C!Kill

\* What the invariant says of the properties.
LEMMA CatalogueMean ==
  ASSUME CatalogueInd, failures \in 0 .. MaxFailures
  PROVE  C!TypeOK /\ C!QueuedIsStaged
<1>1. \A r \in Runs, t \in Pages : /\ scanned[r][t].state \in C!Settled \cup {"none", "discovered", "staging"}
                                   /\ scanned[r][t].entry \subseteq Offers
  BY DEF CatalogueInd, CatalogueTyped, EntryStates
<1>2. \A p \in Pipelines :
       /\ proc[p].at \in C!ProcStates /\ proc[p].run \in Runs \cup {0}
       /\ proc[p].batch \subseteq Pages /\ proc[p].picked \in BOOLEAN
       /\ proc[p].mid # <<>> => proc[p].mid[1] \in proc[p].batch
  BY DEF CatalogueInd, CatalogueTyped, BatchFits, ProcType, RunIds, Batches
<1>3. newest \in Pages \cup {0} /\ newest \in Nat /\ newest <= LastPage
  BY CatalogueAssumption DEF CatalogueInd, CatalogueTyped, Pages
<1>4. ASSUME NEW p \in Pipelines, proc[p].place <= proc[p].total PROVE C!Listed(p) \in Pages
  <2>1. /\ proc[p].place \in Nat \ {0} /\ proc[p].first \in Nat /\ proc[p].total \in Nat
        /\ proc[p].total <= proc[p].first /\ proc[p].first <= newest
    BY CatalogueAssumption DEF CatalogueInd, CatalogueTyped, ProcType, ListFits,
       Counts, Places
  <2>2. CASE proc[p].place = 1
    <3>1. proc[p].first \in 1 .. LastPage
      BY <1>3, <1>4, <2>1, <2>2, CatalogueAssumption
    <3> QED
      BY <2>2, <3>1 DEF C!Listed, Pages
  <2>3. CASE proc[p].place # 1
    <3>1. newest + 1 - proc[p].place \in 1 .. LastPage
      BY <1>3, <1>4, <2>1, <2>3, CatalogueAssumption
    <3> QED
      BY <2>3, <3>1 DEF C!Listed, Pages
  <2> QED
    BY <2>2, <2>3
<1> QED
  BY <1>1, <1>2, <1>3, <1>4 DEF CatalogueInd, CatalogueTyped, C!TypeOK, RunType

-----------------------------------------------------------------------------
(* The import of music.                                                      *)

QueueRow == [state : M!QueueStates, tries : 0 .. MusicRetries]
MusicRow == [status : {"none", "draft", "published", "removed"}, file : BOOLEAN, cover : BOOLEAN]
CoverRow == [state : {"none", "done", "skipped", "error"}, tries : 0 .. MusicRetries]
ThreadRow == [at : {"free", "fetch", "save", "over", "dead"}, article : Articles \cup {0}]

MusicTyped ==
  /\ service \in {"off", "index", "hide", "import", "backfill", "failed"}
  /\ queue \in [Articles -> QueueRow] /\ item \in [Articles -> MusicRow]
  /\ sourced \subseteq Articles /\ cover \in [Articles -> CoverRow]
  /\ thread \in [Threads -> ThreadRow] /\ notices \in [Articles -> Nat]

\* A thread has an article in hand that is claimed, and no other thread has it.
InHand ==
  /\ \A w \in Threads :
       /\ thread[w].at \in {"fetch", "save"} =>
            thread[w].article \in Articles /\ queue[thread[w].article].state = "processing"
       /\ thread[w].at \notin {"fetch", "save"} => thread[w].article = 0
       /\ service # "import" => thread[w].at = "over"
  /\ M!ClaimedByOne

\* What is claimed by nobody waits for the next start, which frees it.
NoneForgotten ==
  /\ service = "import" /\ (\A w \in Threads : thread[w].at # "dead") =>
       \A a \in Articles : queue[a].state = "processing" => \E w \in Threads : thread[w].article = a
  /\ service = "hide" => \A a \in Articles : queue[a].state # "processing"

\* What may be tried has attempts left.
AttemptsLeft ==
  \A a \in Articles :
    /\ queue[a].state \in {"none", "pending", "processing"} => queue[a].tries < MusicRetries
    /\ cover[a].state = "none" => cover[a].tries < MusicRetries

\* What was announced has its file and is not imported again.
AnnouncedIsDone ==
  \A a \in Articles :
    /\ notices[a] <= 1
    /\ notices[a] # 0 => item[a].file /\ queue[a].state = "done"

\* Music was imported from an article that is in the queue.
ItemHasSource ==
  \A a \in Articles : item[a].status # "none" => a \in sourced /\ queue[a].state # "none"

\* What listeners see of links.
LinksFit == ItemHasSource /\ M!NoLinkShown /\ M!HiddenIsQueued

MusicInd == MusicTyped /\ InHand /\ NoneForgotten /\ AttemptsLeft /\ AnnouncedIsDone /\ LinksFit

\* The invariant holds when the service is installed, with links taken over.
LEMMA MusicStart == M!Init => MusicInd
<1> SUFFICES ASSUME M!Init PROVE MusicInd
  OBVIOUS
<1> USE DEF M!Init, M!Over, M!Link, M!NoItem
<1>1. PICK links \in SUBSET Articles :
         /\ queue = [a \in Articles |-> [state |-> IF a \in links THEN "done" ELSE "none", tries |-> 0]]
         /\ item = [a \in Articles |-> IF a \in links THEN M!Link("published") ELSE M!NoItem]
         /\ sourced = links
  OBVIOUS
<1>2. 0 \in 0 .. MusicRetries /\ 0 < MusicRetries
  BY MusicAssumption
<1>3. MusicTyped
  BY <1>1, <1>2 DEF MusicTyped, QueueRow, MusicRow, CoverRow, ThreadRow, M!QueueStates
<1>4. InHand /\ NoneForgotten
  BY DEF InHand, NoneForgotten, M!ClaimedByOne
<1>5. AttemptsLeft /\ AnnouncedIsDone /\ LinksFit
  BY <1>1, <1>2 DEF AttemptsLeft, AnnouncedIsDone, LinksFit, ItemHasSource, M!NoLinkShown,
     M!HiddenIsQueued
<1> QED
  BY <1>3, <1>4, <1>5 DEF MusicInd

\* The steps of the start: the index queues articles, ...
LEMMA IndexStep ==
  ASSUME MusicInd, NEW as \in SUBSET Articles, M!Index(as)
  PROVE  MusicInd'
<1>1. /\ service = "index" /\ \A a \in as : queue[a].state = "none"
      /\ queue' = [a \in Articles |-> IF a \in as THEN M!Waiting ELSE queue[a]]
      /\ UNCHANGED <<service, item, sourced, notices, cover, thread>>
  BY DEF M!Index, M!shown
<1>2. 0 \in 0 .. MusicRetries /\ 0 < MusicRetries
  BY MusicAssumption
<1>3. /\ queue' \in [Articles -> QueueRow]
      /\ \A a \in Articles : \/ queue'[a] = queue[a]
                             \/ /\ queue[a].state = "none"
                                /\ queue'[a].state = "pending" /\ queue'[a].tries = 0
  BY <1>1, <1>2 DEF MusicInd, MusicTyped, M!Waiting, QueueRow, M!QueueStates
<1>4. MusicTyped'
  BY <1>1, <1>3 DEF MusicInd, MusicTyped, ThreadRow, QueueRow, MusicRow, CoverRow, M!QueueStates
<1>5. InHand' /\ NoneForgotten'
  BY <1>1, <1>3 DEF MusicInd, InHand, NoneForgotten, M!ClaimedByOne
<1>6. AttemptsLeft' /\ AnnouncedIsDone'
  BY <1>1, <1>2, <1>3 DEF MusicInd, AttemptsLeft, AnnouncedIsDone
<1>7. LinksFit'
  BY <1>1, <1>3 DEF MusicInd, LinksFit, ItemHasSource, M!NoLinkShown, M!HiddenIsQueued
<1> QED
  BY <1>4, <1>5, <1>6, <1>7 DEF MusicInd

\* ... what a run before left in hand is free again, ...
LEMMA RestoreStep ==
  ASSUME MusicInd, M!Restore
  PROVE  MusicInd'
<1>1. /\ service = "index" /\ service' = "hide"
      /\ queue' = [a \in Articles |-> IF queue[a].state = "processing"
                                      THEN [queue[a] EXCEPT !.state = "pending"] ELSE queue[a]]
      /\ UNCHANGED <<item, sourced, notices, cover, thread>>
  BY DEF M!Restore, M!shown
<1>2. /\ queue' \in [Articles -> QueueRow]
      /\ \A a \in Articles : IF queue[a].state = "processing"
                             THEN queue'[a].state = "pending" /\ queue'[a].tries = queue[a].tries
                             ELSE queue'[a] = queue[a]
  BY <1>1 DEF MusicInd, MusicTyped, QueueRow, M!QueueStates
<1>3. MusicTyped'
  BY <1>1, <1>2 DEF MusicInd, MusicTyped, ThreadRow, QueueRow, MusicRow, CoverRow, M!QueueStates
<1>4. InHand' /\ NoneForgotten'
  BY <1>1, <1>2 DEF MusicInd, InHand, NoneForgotten, M!ClaimedByOne
<1>5. AttemptsLeft' /\ AnnouncedIsDone'
  BY <1>1, <1>2 DEF MusicInd, AttemptsLeft, AnnouncedIsDone
<1>6. LinksFit'
  BY <1>1, <1>2 DEF MusicInd, LinksFit, ItemHasSource, M!NoLinkShown, M!HiddenIsQueued
<1> QED
  BY <1>3, <1>4, <1>5, <1>6 DEF MusicInd

\* ... and links are hidden and queued.
LEMMA HideLinksStep ==
  ASSUME MusicInd, M!HideLinks
  PROVE  MusicInd'
<1>1. /\ service = "hide" /\ service' = "import"
      /\ queue' = [a \in Articles |-> IF a \in M!Linked \cap sourced /\ queue[a].state # "none"
                                      THEN M!Waiting ELSE queue[a]]
      /\ item' = [a \in Articles |-> IF a \in M!Linked THEN M!Link("draft") ELSE item[a]]
      /\ thread' = [w \in Threads |-> [at |-> "free", article |-> 0]]
      /\ UNCHANGED <<sourced, cover, notices>>
  BY DEF M!HideLinks, M!Free
<1>2. 0 \in 0 .. MusicRetries /\ 0 < MusicRetries
  BY MusicAssumption
<1>3. \A a \in Articles : a \in M!Linked => a \in sourced /\ queue[a].state # "none"
  BY DEF MusicInd, LinksFit, ItemHasSource, M!Linked
<1>4. /\ queue' \in [Articles -> QueueRow]
      /\ \A a \in Articles : IF a \in M!Linked
                             THEN queue'[a].state = "pending" /\ queue'[a].tries = 0
                             ELSE queue'[a] = queue[a]
  BY <1>1, <1>2, <1>3 DEF MusicInd, MusicTyped, M!Waiting, QueueRow, M!QueueStates
<1>5. /\ item' \in [Articles -> MusicRow]
      /\ \A a \in Articles : /\ a \in M!Linked => item'[a].status = "draft"
                             /\ a \notin M!Linked => item'[a] = item[a]
                             /\ item[a].file => a \notin M!Linked
                             /\ a \in M!Linked => item[a].status # "none"
                             /\ item'[a].status = "published" => item'[a].file
  BY <1>1 DEF MusicInd, MusicTyped, M!Linked, M!Link, MusicRow
<1>6. MusicTyped'
  BY <1>1, <1>4, <1>5 DEF MusicInd, MusicTyped, ThreadRow, QueueRow, MusicRow, CoverRow, M!QueueStates
<1>7. \A a \in Articles : queue'[a].state # "processing"
  BY <1>1, <1>4 DEF MusicInd, NoneForgotten
<1>8. InHand' /\ NoneForgotten'
  BY <1>1, <1>7 DEF InHand, NoneForgotten, M!ClaimedByOne
<1>9. AttemptsLeft' /\ AnnouncedIsDone'
  BY <1>1, <1>2, <1>4, <1>5 DEF MusicInd, AttemptsLeft, AnnouncedIsDone
<1>10. LinksFit'
  BY <1>1, <1>3, <1>4, <1>5 DEF MusicInd, LinksFit, ItemHasSource, M!NoLinkShown, M!HiddenIsQueued
<1> QED
  BY <1>6, <1>8, <1>9, <1>10 DEF MusicInd

\* A thread ends its article: nobody else has it.
LEMMA ArticleEnds ==
  ASSUME MusicInd, NEW w \in Threads, thread[w].at \in {"fetch", "save"},
         NEW a, a = thread[w].article, NEW rec \in QueueRow,
         queue' = [queue EXCEPT ![a] = rec], thread' = [thread EXCEPT ![w] = M!Free],
         rec.state # "processing", rec.state = "pending" => rec.tries < MusicRetries,
         rec.state # "none", UNCHANGED <<service, cover>>,
         \/ /\ UNCHANGED <<item, sourced, notices>>
            /\ rec.state = "done" => item[a].status = "published"
         \/ /\ item' \in [Articles -> MusicRow] /\ notices' \in [Articles -> Nat]
            /\ item'[a].file /\ item'[a].status = "published" /\ sourced' = sourced \cup {a}
            /\ notices'[a] <= 1 /\ rec.state = "done"
            /\ \A b \in Articles : b # a => item'[b] = item[b] /\ notices'[b] = notices[b]
  PROVE  /\ queue' \in [Articles -> QueueRow] /\ thread' \in [Threads -> ThreadRow]
         /\ InHand' /\ NoneForgotten' /\ AttemptsLeft' /\ AnnouncedIsDone' /\ LinksFit'
<1>1. a \in Articles /\ queue[a].state = "processing" /\ notices[a] = 0
  BY DEF MusicInd, InHand, AnnouncedIsDone, MusicTyped
<1>2. /\ queue' \in [Articles -> QueueRow] /\ queue'[a] = rec
      /\ \A b \in Articles : b # a => queue'[b] = queue[b]
  BY <1>1 DEF MusicInd, MusicTyped
<1>3. /\ thread' \in [Threads -> ThreadRow] /\ thread'[w].at = "free" /\ thread'[w].article = 0
      /\ \A v \in Threads : v # w => thread'[v] = thread[v] /\ thread[v].article # a
  <2>1. a # 0
    BY <1>1, MusicAssumption
  <2> QED
    BY <2>1 DEF MusicInd, MusicTyped, InHand, M!ClaimedByOne, M!Free, ThreadRow
<1>4. service = "import"
  BY DEF MusicInd, InHand
<1>5. InHand'
  BY <1>2, <1>3, <1>4 DEF MusicInd, InHand, M!ClaimedByOne
<1>6. NoneForgotten'
  BY <1>2, <1>3, <1>4 DEF MusicInd, NoneForgotten
<1>7. AttemptsLeft'
  BY <1>1, <1>2 DEF MusicInd, AttemptsLeft
<1>8. AnnouncedIsDone'
  BY <1>1, <1>2 DEF MusicInd, AnnouncedIsDone
<1>9. LinksFit'
  BY <1>1, <1>2, <1>4 DEF MusicInd, LinksFit, ItemHasSource, M!NoLinkShown, M!HiddenIsQueued
<1> QED
  BY <1>2, <1>3, <1>5, <1>6, <1>7, <1>8, <1>9

\* Steps of threads and others that leave the queue alone.
LEMMA QueueKept ==
  ASSUME MusicInd, UNCHANGED <<queue, notices>>,
         \/ service' = service \/ service' \in {"off", "index", "failed"}
         \/ service' = "backfill" /\ service = "import",
         item' \in [Articles -> MusicRow], cover' \in [Articles -> CoverRow], sourced' = sourced,
         \A a \in Articles : /\ item[a].file => item'[a].file
                             /\ item'[a].status = "published" => item[a].status = "published"
                             /\ item'[a].status = "draft" => item[a].status = "draft"
                             /\ item'[a].status # "none" => item[a].status # "none"
                             /\ cover'[a].state = "none" => cover[a].state = "none" /\ cover'[a] = cover[a],
         thread' \in [Threads -> ThreadRow], InHand', NoneForgotten'
  PROVE  MusicInd'
<1>1. MusicTyped'
  BY DEF MusicInd, MusicTyped, QueueRow, MusicRow, CoverRow, ThreadRow, M!QueueStates
<1>2. AttemptsLeft' /\ AnnouncedIsDone'
  BY DEF MusicInd, AttemptsLeft, AnnouncedIsDone
<1>3. LinksFit'
  BY DEF MusicInd, LinksFit, ItemHasSource, M!NoLinkShown, M!HiddenIsQueued
<1> QED
  BY <1>1, <1>2, <1>3 DEF MusicInd

\* Every step of the import of music keeps its invariant.
LEMMA MusicStep ==
  ASSUME MusicInd, M!Next
  PROVE  MusicInd'
<1>q. queue \in [Articles -> QueueRow] /\ notices \in [Articles -> Nat]
  BY DEF MusicInd, MusicTyped
<1>i. item \in [Articles -> MusicRow] /\ sourced \subseteq Articles
  BY DEF MusicInd, MusicTyped
<1>c. cover \in [Articles -> CoverRow]
  BY DEF MusicInd, MusicTyped
<1>t. thread \in [Threads -> ThreadRow]
  BY DEF MusicInd, MusicTyped
<1>0. \A w \in Threads :
        /\ thread[w].at \in {"fetch", "save"} =>
             /\ service = "import" /\ thread[w].article \in Articles
             /\ queue[thread[w].article].state = "processing"
             /\ queue[thread[w].article].tries < MusicRetries
        /\ thread[w].at \notin {"fetch", "save"} => thread[w].article = 0
        /\ service # "import" => thread[w].at = "over"
  BY DEF MusicInd, InHand, AttemptsLeft
<1>1. CASE M!Start
  <2>1. /\ UNCHANGED <<queue, item, sourced, notices, cover, thread>>
        /\ service \in {"off", "failed"} /\ service' = "index"
    BY <1>1 DEF M!Start, M!shown
  <2>2. thread' \in [Threads -> ThreadRow] /\ InHand' /\ NoneForgotten'
    BY <1>t, <2>1 DEF MusicInd, InHand, NoneForgotten, M!ClaimedByOne
  <2> QED
    BY <1>i, <1>c, <2>1, <2>2, QueueKept
<1>a. CASE M!Restore \/ M!HideLinks \/ \E as \in SUBSET Articles : M!Index(as)
  BY <1>a, IndexStep, RestoreStep, HideLinksStep
<1>2. CASE M!Finish \/ M!EndBackfill \/ M!Kill
  <2>1. /\ UNCHANGED <<queue, item, sourced, notices, cover>>
        /\ \/ service' \in {"off", "failed"}
           \/ service' = "backfill" /\ service = "import"
        /\ thread' = [w \in Threads |-> [at |-> "over", article |-> 0]]
    BY <1>2 DEF M!Finish, M!EndBackfill, M!Kill, M!Stop, M!Over, M!shown
  <2>2. thread' \in [Threads -> ThreadRow] /\ InHand' /\ NoneForgotten'
    BY <2>1 DEF ThreadRow, InHand, NoneForgotten, M!ClaimedByOne
  <2> QED
    BY <1>i, <1>c, <2>1, <2>2, QueueKept
<1>3. ASSUME NEW w \in Threads, M!Claim(w) PROVE MusicInd'
  <2>1. /\ service = "import" /\ thread[w] = [at |-> "free", article |-> 0]
        /\ UNCHANGED <<service, item, sourced, notices, cover>>
    BY <1>3 DEF M!Claim, M!Free, M!shown
  <2>2. CASE thread' = [thread EXCEPT ![w] = M!Over] /\ UNCHANGED queue
    <3>1. /\ thread' \in [Threads -> ThreadRow] /\ thread'[w].at = "over" /\ thread'[w].article = 0
          /\ \A v \in Threads : v # w => thread'[v] = thread[v]
      BY <1>t, <2>2 DEF M!Over, ThreadRow
    <3>2. InHand'
      BY <2>1, <2>2, <3>1 DEF MusicInd, InHand, M!ClaimedByOne
    <3>3. NoneForgotten'
      BY <2>1, <2>2, <3>1 DEF MusicInd, NoneForgotten
    <3> QED
      BY <1>i, <1>c, <2>1, <2>2, <3>1, <3>2, <3>3, QueueKept
  <2>3. ASSUME NEW a \in Articles, M!Claimable(a),
               queue' = [queue EXCEPT ![a].state = "processing"],
               thread' = [thread EXCEPT ![w] = [at |-> "fetch", article |-> a]]
        PROVE  MusicInd'
    <3>1. queue[a].state \in {"pending", "error"} /\ queue[a].tries < MusicRetries
      BY <2>3 DEF M!Claimable, M!Due, MusicInd, AttemptsLeft
    <3>2. /\ queue' \in [Articles -> QueueRow]
          /\ queue'[a].state = "processing" /\ queue'[a].tries = queue[a].tries
          /\ \A b \in Articles : b # a => queue'[b] = queue[b]
      BY <1>q, <2>3 DEF QueueRow, M!QueueStates
    <3>3. /\ thread' \in [Threads -> ThreadRow] /\ thread'[w].at = "fetch" /\ thread'[w].article = a
          /\ \A v \in Threads : v # w => thread'[v] = thread[v]
      BY <1>t, <2>3 DEF ThreadRow
    <3>4. \A v \in Threads : thread[v].article # a
      BY <1>0, <3>1, MusicAssumption
    <3>5. MusicTyped'
      BY <1>i, <1>c, <1>q, <2>1, <3>2, <3>3 DEF MusicInd, MusicTyped, MusicRow, CoverRow, ThreadRow,
         QueueRow, M!QueueStates
    <3>6. InHand'
      BY <2>1, <3>2, <3>3, <3>4 DEF MusicInd, InHand, M!ClaimedByOne
    <3>7. NoneForgotten'
      <4>1. /\ \A v \in Threads : v # w => thread'[v] = thread[v]
            /\ thread[w].at # "dead" /\ \A b \in Articles : thread[w].article # b
        BY <2>1, <3>3, MusicAssumption
      <4>2. \A b \in Articles : queue'[b].state = "processing" =>
              b = a \/ queue[b].state = "processing"
        BY <3>2
      <4> QED
        BY <2>1, <3>3, <4>1, <4>2 DEF MusicInd, NoneForgotten
    <3>8. AttemptsLeft'
      BY <2>1, <3>1, <3>2 DEF MusicInd, AttemptsLeft
    <3>9. AnnouncedIsDone' /\ LinksFit'
      BY <2>1, <3>1, <3>2 DEF MusicInd, AnnouncedIsDone, LinksFit, ItemHasSource, M!NoLinkShown,
         M!HiddenIsQueued
    <3> QED
      BY <3>5, <3>6, <3>7, <3>8, <3>9 DEF MusicInd
  <2> QED
    BY <1>3, <2>2, <2>3 DEF M!Claim
<1>4. ASSUME NEW w \in Threads, thread[w].at \in {"fetch", "save"}, NEW rec \in QueueRow,
             queue' = [queue EXCEPT ![thread[w].article] = rec],
             thread' = [thread EXCEPT ![w] = M!Free],
             rec.state \notin {"none", "processing"}, rec.state = "pending" => rec.tries < MusicRetries,
             rec.state = "done" => item[thread[w].article].status = "published",
             UNCHANGED <<service, item, sourced, notices, cover>>
      PROVE  MusicInd'
  <2>1. /\ queue' \in [Articles -> QueueRow] /\ thread' \in [Threads -> ThreadRow]
         /\ InHand' /\ NoneForgotten' /\ AttemptsLeft' /\ AnnouncedIsDone' /\ LinksFit'
    BY <1>4, ArticleEnds
  <2>2. MusicTyped'
    BY <1>i, <1>c, <1>q, <1>4, <2>1 DEF MusicInd, MusicTyped, MusicRow, CoverRow, ThreadRow,
         QueueRow, M!QueueStates
  <2> QED
    BY <2>1, <2>2 DEF MusicInd
<1>5. ASSUME NEW w \in Threads, M!Fetch(w) PROVE MusicInd'
  <2> DEFINE a == thread[w].article
  <2>1. /\ thread[w].at = "fetch" /\ UNCHANGED <<service, item, sourced, notices, cover>>
        /\ a \in Articles /\ queue[a].tries < MusicRetries /\ queue[a] \in QueueRow
    BY <1>0, <1>q, <1>5 DEF M!Fetch, M!shown
  <2>2. ASSUME NEW s \in {"done", "skipped", "pending"}, M!End(w, a, s),
               s = "done" => item[a].status = "published"
        PROVE  MusicInd'
    <3> DEFINE rec == [queue[a] EXCEPT !.state = s]
    <3>1. rec \in QueueRow /\ rec.state = s /\ rec.tries = queue[a].tries
      BY <2>1 DEF QueueRow, M!QueueStates
    <3>2. queue' = [queue EXCEPT ![a] = rec] /\ thread' = [thread EXCEPT ![w] = M!Free]
      BY <1>q, <2>1, <2>2 DEF M!End
    <3> HIDE DEF rec
    <3> QED
      BY <1>4, <2>1, <2>2, <3>1, <3>2
  <2>3. CASE M!Failed(w, a)
    <3> DEFINE rec == [state |-> "error", tries |-> queue[a].tries + 1]
    <3>1. queue[a].tries \in 0 .. MusicRetries
      BY <2>1 DEF QueueRow
    <3>2. queue[a].tries + 1 \in 0 .. MusicRetries
      BY <2>1, <3>1, MusicAssumption
    <3>3. rec \in QueueRow /\ rec.state = "error"
      BY <3>2 DEF QueueRow, M!QueueStates
    <3>4. queue' = [queue EXCEPT ![a] = rec] /\ thread' = [thread EXCEPT ![w] = M!Free]
      BY <1>q, <2>1, <2>3 DEF M!Failed
    <3> HIDE DEF rec
    <3> QED
      BY <1>4, <2>1, <3>3, <3>4
  <2>4. CASE thread' = [thread EXCEPT ![w].at = "save"] /\ UNCHANGED queue
    <3>1. /\ thread' \in [Threads -> ThreadRow] /\ thread'[w].at = "save" /\ thread'[w].article = a
          /\ \A v \in Threads : v # w => thread'[v] = thread[v]
      BY <1>t, <2>4 DEF ThreadRow
    <3>2. InHand'
      BY <1>0, <2>1, <2>4, <3>1 DEF MusicInd, InHand, M!ClaimedByOne
    <3>3. NoneForgotten'
      <4>1. \A v \in Threads : /\ thread'[v].article = thread[v].article
                               /\ thread[v].at = "dead" => thread'[v].at = "dead"
        BY <2>1, <3>1
      <4> QED
        BY <2>1, <2>4, <4>1 DEF MusicInd, NoneForgotten
    <3> QED
      BY <1>i, <1>c, <2>1, <2>4, <3>1, <3>2, <3>3, QueueKept
  <2> QED
    BY <1>5, <2>2, <2>3, <2>4 DEF M!Fetch, M!Confirmed
<1>6. ASSUME NEW w \in Threads, M!Save(w) PROVE MusicInd'
  <2> DEFINE a == thread[w].article
             rec == [queue[a] EXCEPT !.state = "done"]
  <2>1. /\ thread[w].at = "save" /\ UNCHANGED <<service, cover>> /\ sourced' = sourced \cup {a}
        /\ a \in Articles /\ queue[a] \in QueueRow /\ queue[a].state = "processing"
    BY <1>0, <1>q, <1>6 DEF M!Save
  <2>2. rec \in QueueRow /\ rec.state = "done"
    BY <2>1 DEF QueueRow, M!QueueStates
  <2>3. queue' = [queue EXCEPT ![a] = rec] /\ thread' = [thread EXCEPT ![w] = M!Free]
    BY <1>q, <1>6, <2>1 DEF M!Save, M!End
  <2>4. PICK c \in BOOLEAN : item' = [item EXCEPT ![a] = M!Saved(c)]
    BY <1>6 DEF M!Save
  <2>5. /\ item' \in [Articles -> MusicRow] /\ item'[a].file /\ item'[a].status = "published"
        /\ \A b \in Articles : b # a => item'[b] = item[b]
    BY <1>i, <2>1, <2>4 DEF M!Saved, MusicRow
  <2>6. notices[a] = 0 /\ notices' = [notices EXCEPT ![a] = @ + IF M!New(a) THEN 1 ELSE 0]
    BY <1>6, <2>1 DEF M!Save, MusicInd, AnnouncedIsDone
  <2>7. /\ notices' \in [Articles -> Nat] /\ notices'[a] <= 1
        /\ \A b \in Articles : b # a => notices'[b] = notices[b]
    BY <1>q, <2>1, <2>6
  <2>t. thread[w].at \in {"fetch", "save"} /\ a = thread[w].article
    BY <2>1
  <2> HIDE DEF rec, a
  <2>8. /\ queue' \in [Articles -> QueueRow] /\ thread' \in [Threads -> ThreadRow]
        /\ InHand' /\ NoneForgotten' /\ AttemptsLeft' /\ AnnouncedIsDone' /\ LinksFit'
    BY <2>1, <2>2, <2>3, <2>5, <2>7, <2>t, ArticleEnds
  <2>9. MusicTyped'
    BY <1>i, <1>c, <2>1, <2>5, <2>7, <2>8 DEF MusicInd, MusicTyped, MusicRow, CoverRow, ThreadRow,
         QueueRow, M!QueueStates
  <2> QED
    BY <2>8, <2>9 DEF MusicInd
<1>7. ASSUME NEW w \in Threads, M!Crash(w) PROVE MusicInd'
  <2>1. /\ thread' = [thread EXCEPT ![w] = M!Dead] /\ service = "import"
        /\ UNCHANGED <<service, queue, item, sourced, notices, cover>>
    BY <1>0, <1>7 DEF M!Crash, M!shown
  <2>2. /\ thread' \in [Threads -> ThreadRow] /\ thread'[w].at = "dead" /\ thread'[w].article = 0
        /\ \A v \in Threads : v # w => thread'[v] = thread[v]
    BY <1>t, <2>1 DEF M!Dead, ThreadRow
  <2>3. InHand'
    BY <1>0, <2>1, <2>2 DEF MusicInd, InHand, M!ClaimedByOne
  <2>4. NoneForgotten'
    BY <2>1, <2>2 DEF NoneForgotten
  <2> QED
    BY <1>i, <1>c, <2>1, <2>2, <2>3, <2>4, QueueKept
<1>8. ASSUME NEW a \in Articles, M!Backfill(a) PROVE MusicInd'
  <2>1. /\ service = "backfill" /\ UNCHANGED <<service, queue, sourced, thread, notices>>
        /\ cover[a].tries < MusicRetries
    BY <1>8 DEF M!Backfill, M!Coverless, MusicInd, AttemptsLeft
  <2>2. PICK rec : /\ cover' = [cover EXCEPT ![a] = rec]
                   /\ \/ rec = [state |-> "skipped", tries |-> MusicRetries]
                      \/ rec = [state |-> "done", tries |-> 0]
                      \/ rec = [state |-> "error", tries |-> cover[a].tries + 1]
    BY <1>c, <1>8 DEF M!Backfill
  <2>3. cover[a].tries \in 0 .. MusicRetries
    BY <1>c DEF CoverRow
  <2>4. cover[a].tries + 1 \in 0 .. MusicRetries /\ 0 \in 0 .. MusicRetries
        /\ MusicRetries \in 0 .. MusicRetries
    BY <2>1, <2>3, MusicAssumption
  <2>5. rec \in CoverRow /\ rec.state # "none"
    BY <2>2, <2>4 DEF CoverRow
  <2>6. /\ cover' \in [Articles -> CoverRow]
        /\ \A b \in Articles : cover'[b].state = "none" =>
             cover[b].state = "none" /\ cover'[b] = cover[b]
    BY <1>c, <2>2, <2>5
  <2>7. /\ item' \in [Articles -> MusicRow]
        /\ \A b \in Articles : item'[b].file = item[b].file /\ item'[b].status = item[b].status
    <3>1. item' = item \/ item' = [item EXCEPT ![a].cover = TRUE]
      BY <1>8 DEF M!Backfill
    <3>2. CASE item' = [item EXCEPT ![a].cover = TRUE]
      BY <1>i, <3>2 DEF MusicRow
    <3> QED
      BY <1>i, <3>1, <3>2
  <2>8. thread' \in [Threads -> ThreadRow] /\ InHand' /\ NoneForgotten'
    BY <1>t, <2>1 DEF MusicInd, InHand, NoneForgotten, M!ClaimedByOne
  <2> QED
    BY <2>1, <2>6, <2>7, <2>8, QueueKept
<1>9. ASSUME NEW a \in Articles, M!Remove(a) PROVE MusicInd'
  <2>1. /\ item' = [item EXCEPT ![a].status = "removed"]
        /\ UNCHANGED <<service, queue, sourced, cover, thread, notices>>
    BY <1>9 DEF M!Remove
  <2>2. /\ item' \in [Articles -> MusicRow]
        /\ \A b \in Articles : /\ item'[b].file = item[b].file
                               /\ item'[b].status = item[b].status \/ item'[b].status = "removed"
                               /\ item'[b].status # "none" => item[b].status # "none"
    <3>1. item[a].status = "published"
      BY <1>9 DEF M!Remove
    <3> QED
      BY <1>i, <2>1, <3>1 DEF MusicRow
  <2>3. thread' \in [Threads -> ThreadRow] /\ InHand' /\ NoneForgotten'
    BY <1>t, <2>1 DEF MusicInd, InHand, NoneForgotten, M!ClaimedByOne
  <2> QED
    BY <1>c, <2>1, <2>2, <2>3, QueueKept
<1> QED
  BY <1>1, <1>a, <1>2, <1>3, <1>5, <1>6, <1>7, <1>8, <1>9 DEF M!Next, M!Step

\* Only a failure is counted as one.
LEMMA MusicFailures ==
  ASSUME M!Next
  PROVE  UNCHANGED failures \/ M!Fault
  BY DEF M!Next, M!Step, M!Start, M!Index, M!Restore, M!HideLinks, M!Finish, M!EndBackfill, M!Kill, M!Claim, M!Fetch, M!Save,
     M!Crash, M!Backfill, M!Remove

\* What the invariant says of the properties.
LEMMA MusicMean ==
  ASSUME MusicInd, failures \in 0 .. MaxFailures
  PROVE  M!TypeOK /\ M!ClaimedByOne /\ M!AnnouncedOnce /\ M!NoLinkShown /\ M!HiddenIsQueued
<1>1. M!ClaimedByOne /\ M!AnnouncedOnce /\ M!NoLinkShown /\ M!HiddenIsQueued
  BY DEF MusicInd, InHand, AnnouncedIsDone, LinksFit, M!AnnouncedOnce
<1>2. /\ \A w \in Threads : thread[w].at \in {"free", "fetch", "save", "over", "dead"}
      /\ service = "import" /\ (\A w \in Threads : thread[w] # M!Dead) =>
           \A a \in Articles : queue[a].state = "processing" =>
             \E w \in Threads : thread[w].article = a
  <2>1. \A w \in Threads : thread[w].at = "dead" => thread[w] = M!Dead
    BY DEF MusicInd, MusicTyped, InHand, M!Dead, ThreadRow
  <2> QED
    BY <2>1 DEF MusicInd, MusicTyped, NoneForgotten, ThreadRow
<1> QED
  BY <1>1, <1>2 DEF MusicInd, MusicTyped, M!TypeOK, QueueRow, MusicRow, CoverRow

-----------------------------------------------------------------------------
(* The accounts of the other protocols.                                      *)

NativeRow == [gen : 0 .. MaxChanges, on : BOOLEAN, used : Nat, until : Nat]
AccountRow == [gen : 0 .. MaxChanges, ready : BOOLEAN]
UserRow == [state : {"none", "on", "off"}, until : Nat]
SessionRow == [name : A!Names \cup {<<0, 0>>}, way : A!Ways \cup {"none"}, live : BOOLEAN,
               bytes : 0 .. MaxBytes, ledger : 0 .. MaxBytes]
WorkerRow == [at : {"rest", "collect", "clients", "client"}, snap : [Clients -> NativeRow],
              want : BOOLEAN, left : SUBSET (Sessions \cup Clients),
              todo : SUBSET (A!Samples \cup A!Protocols)]

\* An id's generations are changes of the past.
PanelFits ==
  /\ now \in 1 .. MaxTime /\ changes \in 0 .. MaxChanges
  /\ native \in [Clients -> NativeRow] /\ base \in [Clients -> Nat]
  /\ account \in [Clients -> AccountRow]
  /\ \A c \in Clients : /\ native[c].gen <= changes /\ account[c].gen <= changes
                        /\ native[c].gen = 0 => base[c] = 0

UsersTyped ==
  /\ user \in [A!Names -> [A!Protocols -> UserRow]]
  /\ usable \in [A!Names -> [A!Protocols -> BOOLEAN]]

Opened(s) == session[s].name # <<0, 0>>

\* A session's hook carries all of its bytes.
SessionsFit ==
  /\ session \in [Sessions -> SessionRow] /\ flying \subseteq A!Samples
  /\ \A s \in Sessions : /\ ~Opened(s) => session[s] = A!Unused
                         /\ session[s].name[2] <= changes
                         /\ session[s].ledger <= session[s].bytes
  /\ \A x \in flying : /\ Opened(x[1]) /\ ~session[x[1]].live
                       /\ x[2] = session[x[1]].bytes

\* The account of a session's client is there as long as the client is.
RowsKept ==
  \A s \in Sessions :
    LET n == session[s].name
    IN Opened(s) /\ native[n[1]].gen = n[2] => account[n[1]].gen = n[2]

\* The panel's rows that the worker has read are old, but a client that was not the
\* account's then is not the account's now.
WorkerFits ==
  /\ worker \in WorkerRow
  /\ worker.at = "collect" =>
       /\ worker.left \subseteq Sessions /\ worker.todo \subseteq A!Samples
       /\ \A x \in worker.todo : Opened(x[1]) /\ x[2] <= session[x[1]].bytes
  /\ worker.at \in {"clients", "client"} =>
       /\ worker.left \subseteq Clients
       /\ \A c \in Clients :
            /\ worker.snap[c].gen <= changes
            /\ account[c].gen # 0 /\ worker.snap[c].gen # account[c].gen =>
                 native[c].gen # account[c].gen
  /\ worker.at = "client" => worker.left # {}

\* What AllCounted says, without the account's row.
AllSettled ==
  \A s \in Sessions :
    LET n == session[s].name
    IN /\ Opened(s) /\ ~session[s].live /\ failures = 0
       /\ \A x \in flying : x[1] # s
       /\ native[n[1]].gen = n[2]
       => session[s].ledger = session[s].bytes

AccountsInd ==
  PanelFits /\ UsersTyped /\ SessionsFit /\ RowsKept /\ WorkerFits /\ A!UsageCountedOnce /\ AllSettled

\* The sum in Accounts is that of the lemmas in Sums.
LEMMA SameSum == ASSUME NEW f, NEW S PROVE A!SumFunctionOnSet(f, S) = SumFunctionOnSet(f, S)
  BY DEF A!SumFunctionOnSet, A!FoldFunctionOnSet, A!MapThenFoldSet, SumFunctionOnSet,
     FoldFunctionOnSet, MapThenFoldSet

\* The name of a session that was opened.
LEMMA NameOfOpened ==
  ASSUME SessionsFit, NEW s \in Sessions, Opened(s)
  PROVE  /\ session[s].name \in A!Names /\ session[s].name[1] \in Clients
         /\ session[s].name[2] \in 1 .. MaxChanges /\ session[s].name[2] # 0
         /\ session[s].name = <<session[s].name[1], session[s].name[2]>>
  BY DEF SessionsFit, Opened, SessionRow, A!Names, A!Generations

\* A name is a client and one of its generations.
LEMMA NamesAreOpened ==
  ASSUME NEW n \in A!Names
  PROVE  n # <<0, 0>> /\ n[1] \in Clients /\ n[2] \in 1 .. MaxChanges /\ n = <<n[1], n[2]>>
  BY AccountsAssumption DEF A!Names, A!Generations

\* Row finds a client exactly when the name's generation is the panel's and the account's.
LEMMA RowFound ==
  ASSUME PanelFits, NEW n \in A!Names
  PROVE  /\ A!Row(n) # A!NoClient <=> native[n[1]].gen = n[2] /\ account[n[1]].gen = n[2]
         /\ A!Row(n) # A!NoClient => A!Row(n) = native[n[1]]
<1>1. n[1] \in Clients /\ n[2] \in 1 .. MaxChanges
  BY NamesAreOpened
<1>2. native[n[1]].gen = n[2] => native[n[1]] # A!NoClient
  BY <1>1 DEF A!NoClient
<1> QED
  BY <1>2 DEF A!Row, A!Client

\* Bytes that sessions are known to have carried, and who is counted for them.
Ledgers == [s \in Sessions |-> session[s].ledger]

\* UsageCountedOnce with a sum that the lemmas of Sums are about.
LEMMA CountedAs ==
  A!UsageCountedOnce <=>
    \A c \in Clients : native[c].gen # 0 =>
      native[c].used + base[c] =
        SumFunctionOnSet(Ledgers, {s \in Sessions : session[s].name = <<c, native[c].gen>>})
  BY SameSum DEF A!UsageCountedOnce, A!Named, Ledgers

\* Ledgers are numbers.
LEMMA LedgersTyped ==
  ASSUME SessionsFit
  PROVE  \A s \in Sessions : Ledgers[s] \in Int /\ Ledgers[s] = session[s].ledger
  BY DEF SessionsFit, SessionRow, Ledgers

\* Nothing counted is changed, but clients may be removed or made anew.
LEMMA CountKept ==
  ASSUME SessionsFit, A!UsageCountedOnce, Ledgers' = Ledgers,
         \A s \in Sessions : session'[s].name = session[s].name,
         \A c \in Clients : native'[c].gen # 0 =>
           \/ /\ native'[c].gen = native[c].gen
              /\ native'[c].used + base'[c] = native[c].used + base[c]
           \/ /\ \A s \in Sessions : session[s].name # <<c, native'[c].gen>>
              /\ native'[c].used + base'[c] = 0
  PROVE  A!UsageCountedOnce'
<1> DEFINE Of(c, g) == {s \in Sessions : session[s].name = <<c, g>>}
<1>1. \A c, g : {s \in Sessions : session'[s].name = <<c, g>>} = Of(c, g)
  OBVIOUS
<1>2. SumFunctionOnSet(Ledgers, {}) = 0
  BY SumFirst, FS_EmptySet
<1>3. ASSUME NEW c \in Clients, native'[c].gen # 0
      PROVE  native'[c].used + base'[c] = SumFunctionOnSet(Ledgers', Of(c, native'[c].gen))
  <2>1. CASE native'[c].gen = native[c].gen /\ native'[c].used + base'[c] = native[c].used + base[c]
    BY <1>3, <2>1, CountedAs
  <2>2. CASE /\ \A s \in Sessions : session[s].name # <<c, native'[c].gen>>
             /\ native'[c].used + base'[c] = 0
    <3>1. Of(c, native'[c].gen) = {}
      BY <2>2
    <3> HIDE DEF Of
    <3> QED
      BY <1>2, <2>2, <3>1
  <2> QED
    BY <1>3, <2>1, <2>2
<1>4. \A c \in Clients : native'[c].gen # 0 =>
        native'[c].used + base'[c] =
          SumFunctionOnSet(Ledgers', {s \in Sessions : session'[s].name = <<c, native'[c].gen>>})
  BY <1>1, <1>3
<1> HIDE DEF Of
<1> QED
  BY <1>4, SameSum DEF A!UsageCountedOnce, A!Named, Ledgers

\* The panel's clients keep their generation, are removed, or are new.
Ages ==
  \A c \in Clients : native'[c].gen = native[c].gen \/ native'[c].gen \in {0, changes + 1}

\* Sessions as `f` has them: credited perhaps, and otherwise as they are.
OnlyCredited(f) ==
  /\ f \in [Sessions -> SessionRow]
  /\ \A t \in Sessions :
       /\ f[t].name = session[t].name /\ f[t].live = session[t].live
       /\ f[t].bytes = session[t].bytes /\ session[t].ledger <= f[t].ledger
       /\ f[t].ledger <= f[t].bytes /\ (f[t] = session[t] \/ Opened(t))

\* What a step leaves of the sessions' names and bytes.
SameNames ==
  \A t \in Sessions : session'[t].name = session[t].name /\ session'[t].bytes = session[t].bytes

\* Sessions as they are.
LEMMA NothingCredited == SessionsFit => OnlyCredited(session)
  BY DEF SessionsFit, SessionRow, OnlyCredited

\* Hooks that are gone have counted all bytes of their session, or failed.
HooksCounted(f, gone) ==
  \A x \in gone :
    \/ failures' # 0
    \/ LET n == session[x[1]].name
       IN native[n[1]].gen = n[2] => f[x[1]].ledger = f[x[1]].bytes

\* Sessions are credited, some are cut, and some hooks end: with the bytes counted, or
\* by a failure.
LEMMA SessionsStep ==
  ASSUME SessionsFit, AllSettled, PanelFits, failures \in Nat,
         NEW f, NEW ss \in SUBSET Sessions, NEW gone \in SUBSET flying,
         OnlyCredited(f), \A t \in ss : session[t].live,
         session' = A!Closed(f, ss), flying' = (flying \ gone) \cup A!Finals(ss),
         changes' \in {changes, changes + 1}, Ages, failures' \in {failures, failures + 1},
         HooksCounted(f, gone)
  PROVE  /\ SessionsFit' /\ AllSettled' /\ SameNames
         /\ \A t \in Sessions : session'[t].ledger = f[t].ledger
<1>0. \A t \in Sessions : /\ f[t] \in SessionRow /\ f[t].name = session[t].name
                          /\ f[t].live = session[t].live /\ f[t].bytes = session[t].bytes
  BY DEF OnlyCredited
<1>a. \A t \in Sessions :
        session'[t] = IF t \in ss THEN [f[t] EXCEPT !.live = FALSE] ELSE f[t]
  BY DEF A!Closed
<1>1. \A t \in Sessions :
        /\ session'[t] \in SessionRow /\ session'[t].name = session[t].name
        /\ session'[t].bytes = session[t].bytes /\ session'[t].ledger = f[t].ledger
        /\ t \in ss \/ session'[t].live = session[t].live
        /\ t \in ss => ~session'[t].live
        /\ Opened(t)' <=> Opened(t)
        /\ t \notin ss => session'[t] = f[t]
  <2> TAKE t \in Sessions
  <2>1. CASE t \in ss
    <3>1. f[t] \in SessionRow /\ session'[t] = [f[t] EXCEPT !.live = FALSE]
      BY <1>0, <1>a, <2>1
    <3>2. /\ session'[t] \in SessionRow /\ session'[t].name = f[t].name
          /\ session'[t].bytes = f[t].bytes /\ session'[t].ledger = f[t].ledger
          /\ ~session'[t].live
      BY <3>1 DEF SessionRow
    <3> QED
      BY <1>0, <2>1, <3>2 DEF Opened
  <2>2. CASE t \notin ss
    <3>1. session'[t] = f[t]
      BY <1>a, <2>2
    <3> QED
      BY <1>0, <2>2, <3>1 DEF Opened
  <2> QED
    BY <2>1, <2>2
<1>2. session' \in [Sessions -> SessionRow] /\ SameNames
  BY <1>1 DEF A!Closed, SameNames
<1>3. \A t \in ss : Opened(t)
  BY DEF SessionsFit, A!Unused
<1>4. \A x : x \in A!Finals(ss) => x[1] \in ss /\ x \in A!Samples /\ x[2] = session[x[1]].bytes
  BY DEF A!Finals, A!Samples, SessionsFit, SessionRow
<1>5. \A t \in ss : <<t, session[t].bytes>> \in A!Finals(ss)
  BY DEF A!Finals
<1>6. changes \in Nat /\ changes <= changes'
  BY DEF PanelFits
<1>7. \A s \in Sessions : /\ ~Opened(s)' => session'[s] = A!Unused
                          /\ session'[s].name[2] <= changes'
                          /\ session'[s].ledger <= session'[s].bytes
  <2> TAKE s \in Sessions
  <2>1. session'[s].ledger <= session'[s].bytes
    BY <1>1 DEF OnlyCredited
  <2>2. ~Opened(s)' => session'[s] = A!Unused
    BY <1>1, <1>3 DEF SessionsFit, OnlyCredited
  <2>3. session[s].name[2] <= changes /\ session[s].name[2] \in Int
    BY DEF SessionsFit, SessionRow, A!Names, A!Generations
  <2>4. session'[s].name[2] <= changes'
    BY <1>1, <1>6, <2>3
  <2> QED
    BY <2>1, <2>2, <2>4
<1>8. \A x \in flying' : /\ Opened(x[1])' /\ ~session'[x[1]].live
                         /\ x[2] = session'[x[1]].bytes
  <2> TAKE x \in flying'
  <2>1. CASE x \in flying
    <3>1. x[1] \in Sessions /\ Opened(x[1]) /\ ~session[x[1]].live /\ x[2] = session[x[1]].bytes
      BY <2>1 DEF SessionsFit, A!Samples
    <3> QED
      BY <1>1, <3>1
  <2>2. CASE x \in A!Finals(ss)
    BY <1>1, <1>3, <1>4, <2>2
  <2> QED
    BY <2>1, <2>2
<1>9. flying' \subseteq A!Samples
  BY <1>4 DEF SessionsFit
<1>10. SessionsFit'
  BY <1>2, <1>7, <1>8, <1>9 DEF SessionsFit, SessionRow, A!Samples, A!Unused, A!Names, A!Ways,
     A!Generations, A!Protocols
<1>11. ASSUME NEW s \in Sessions, Opened(s)', ~session'[s].live, failures' = 0,
              \A x \in flying' : x[1] # s,
              native'[session'[s].name[1]].gen = session'[s].name[2]
       PROVE  session'[s].ledger = session'[s].bytes
  <2>1. Opened(s) /\ failures = 0
    BY <1>1, <1>11
  <2>2. s \notin ss
    <3>1. <<s, session[s].bytes>>[1] = s
      OBVIOUS
    <3>2. ~ <<s, session[s].bytes>> \in flying'
      BY <1>11, <3>1
    <3> QED
      BY <1>5, <3>2
  <2>3. ~session[s].live
    BY <1>1, <1>11, <2>2
  <2>4. native[session[s].name[1]].gen = session[s].name[2]
    <3>1. /\ session[s].name[1] \in Clients /\ session[s].name[2] # 0
          /\ session[s].name[2] <= changes /\ session[s].name[2] \in Int
      BY <2>1, NameOfOpened DEF SessionsFit
    <3> QED
      BY <1>1, <1>6, <1>11, <3>1 DEF Ages
  <2>5. CASE \E x \in gone : x[1] = s
    <3>1. PICK x \in gone : x[1] = s
      BY <2>5
    <3>2. f[s].ledger = f[s].bytes
      BY <1>11, <2>4, <3>1 DEF HooksCounted
    <3> QED
      BY <1>0, <1>1, <3>2
  <2>6. CASE ~ \E x \in gone : x[1] = s
    <3>1. \A x \in flying : x[1] # s
      BY <1>11, <2>6
    <3>2. session[s].ledger = session[s].bytes
      BY <2>1, <2>3, <2>4, <3>1 DEF AllSettled
    <3>3. /\ f[s].ledger \in Int /\ f[s].bytes = session[s].bytes /\ session[s].ledger <= f[s].ledger
          /\ f[s].ledger <= f[s].bytes /\ f[s].bytes \in Int
      BY DEF OnlyCredited, SessionRow
    <3> QED
      BY <1>1, <3>2, <3>3
  <2> QED
    BY <2>5, <2>6
<1> QED
  BY <1>1, <1>2, <1>10, <1>11 DEF AllSettled

\* The accounts of opened sessions stay while their clients do.
LEMMA RowsStep ==
  ASSUME AccountsInd, SameNames, Ages,
         \A c \in Clients : \/ account'[c].gen = account[c].gen \/ account[c].gen = 0
                            \/ account[c].gen # native[c].gen /\ native'[c].gen = native[c].gen
  PROVE  RowsKept'
<1>1. ASSUME NEW s \in Sessions, Opened(s),
             native'[session[s].name[1]].gen = session[s].name[2]
      PROVE  account'[session[s].name[1]].gen = session[s].name[2]
  <2>1. /\ session[s].name[1] \in Clients /\ session[s].name[2] # 0
        /\ session[s].name[2] <= changes /\ session[s].name[2] \in Int /\ changes \in Int
    BY <1>1, NameOfOpened DEF AccountsInd, SessionsFit, PanelFits
  <2>2. native[session[s].name[1]].gen = session[s].name[2]
    BY <1>1, <2>1 DEF Ages
  <2>3. account[session[s].name[1]].gen = session[s].name[2]
    BY <1>1, <2>2 DEF AccountsInd, RowsKept
  <2> QED
    BY <2>1, <2>2, <2>3
<1> QED
  BY <1>1 DEF RowsKept, SameNames, Opened

\* A sample of an opened session is credited to its client, if it is still there.
LEMMA CreditStep ==
  ASSUME AccountsInd, NEW x, x[1] \in Sessions, Opened(x[1]), x[2] \in 0 .. MaxBytes,
         x[2] <= session[x[1]].bytes, A!Credit(x)
  PROVE  /\ OnlyCredited(A!Credited(x))
         /\ native' \in [Clients -> NativeRow]
         /\ \A c \in Clients : native'[c].gen = native[c].gen
         /\ LET n == session[x[1]].name
            IN native[n[1]].gen = n[2] => x[2] <= A!Credited(x)[x[1]].ledger
         /\ SameNames /\ (\A t \in Sessions : session'[t].ledger = A!Credited(x)[t].ledger)
              /\ UNCHANGED base => A!UsageCountedOnce'
<1> DEFINE s == x[1]
           n == session[s].name
           c == n[1]
           v == A!Grown(s, x[2])
           d == v - session[s].ledger
           Of(b) == {t \in Sessions : session[t].name = <<b, native[b].gen>>}
<1>0. PanelFits /\ SessionsFit /\ RowsKept /\ A!UsageCountedOnce
  BY DEF AccountsInd
<1>1. /\ n \in A!Names /\ c \in Clients /\ n[2] # 0 /\ n = <<c, n[2]>>
  BY <1>0, NameOfOpened
<1>2. session \in [Sessions -> SessionRow] /\ session[s] \in SessionRow
      /\ session[s].ledger \in 0 .. MaxBytes /\ session[s].bytes \in 0 .. MaxBytes
      /\ session[s].ledger <= session[s].bytes
  BY <1>0 DEF SessionsFit, SessionRow
<1>3. /\ v \in 0 .. MaxBytes /\ session[s].ledger <= v /\ v <= session[s].bytes /\ x[2] <= v
      /\ d \in Nat
  BY <1>2, AccountsAssumption DEF A!Grown
<1>4. A!Row(n) # A!NoClient <=> native[c].gen = n[2]
  BY <1>0, <1>1, RowFound DEF RowsKept
<1> HIDE DEF d, v
<1>5. CASE native[c].gen # n[2]
  <2>1. A!Credited(x) = session /\ native' = native
    BY <1>4, <1>5 DEF A!Credited, A!Credit
  <2>2. OnlyCredited(session)
    BY <1>0, NothingCredited
  <2>3. native' \in [Clients -> NativeRow]
    BY <1>0, <2>1 DEF PanelFits
  <2>4. ASSUME SameNames, \A t \in Sessions : session'[t].ledger = session[t].ledger, UNCHANGED base
        PROVE  A!UsageCountedOnce'
    <3>1. Ledgers' = Ledgers
      BY <2>4 DEF Ledgers
    <3>2. \A t \in Sessions : session'[t].name = session[t].name
      BY <2>4 DEF SameNames
    <3> QED
      BY <1>0, <2>1, <2>4, <3>1, <3>2, CountKept
  <2> QED
    BY <1>5, <2>1, <2>2, <2>3, <2>4
<1>6. CASE native[c].gen = n[2]
  <2> DEFINE f == [session EXCEPT ![s].ledger = v]
  <2>1. A!Credited(x) = f /\ native' = [native EXCEPT ![c].used = @ + v - session[s].ledger]
    BY <1>4, <1>6 DEF A!Credited, A!Credit, A!Client, v
  <2>2. /\ f \in [Sessions -> SessionRow]
        /\ \A t \in Sessions :
             /\ f[t].name = session[t].name /\ f[t].live = session[t].live
             /\ f[t].bytes = session[t].bytes
             /\ f[t].ledger = IF t = s THEN v ELSE session[t].ledger
             /\ t # s => f[t] = session[t]
    BY <1>2, <1>3 DEF SessionRow
  <2>3. OnlyCredited(f)
    <3>1. \A t \in Sessions : session[t].ledger <= session[t].bytes /\ session[t].ledger \in Int
      BY <1>0, <1>2 DEF SessionsFit, SessionRow
    <3> HIDE DEF f
    <3> QED
      BY <1>3, <2>2, <3>1 DEF OnlyCredited
  <2>4. /\ native \in [Clients -> NativeRow] /\ native[c].used \in Nat
        /\ native[c].used + v - session[s].ledger = native[c].used + d /\ native[c].used + d \in Nat
    BY <1>0, <1>1, <1>2, <1>3 DEF PanelFits, NativeRow, d
  <2>5. /\ native' \in [Clients -> NativeRow]
        /\ \A b \in Clients : native'[b].gen = native[b].gen
        /\ native'[c].used = native[c].used + d
        /\ \A b \in Clients : b # c => native'[b].used = native[b].used
    <3> DEFINE r == [native[c] EXCEPT !.used = native[c].used + d]
    <3>1. r \in NativeRow /\ r.gen = native[c].gen /\ r.used = native[c].used + d
      BY <1>1, <2>4 DEF NativeRow
    <3>2. native' = [native EXCEPT ![c] = r]
      BY <1>1, <2>1, <2>4
    <3> HIDE DEF r
    <3> QED
      BY <1>1, <2>4, <3>1, <3>2
  <2> HIDE DEF f
  <2>6. ASSUME SameNames, \A t \in Sessions : session'[t].ledger = f[t].ledger, UNCHANGED base
        PROVE  A!UsageCountedOnce'
    <3>1. /\ \A t \in Sessions : Ledgers[t] \in Int
          /\ \A t \in Sessions : t # s => Ledgers'[t] = Ledgers[t]
          /\ Ledgers'[s] = v /\ Ledgers[s] = session[s].ledger
      BY <1>0, <2>2, <2>6, LedgersTyped DEF Ledgers
    <3>2. \A b \in Clients : Of(b) \subseteq Sessions /\ IsFiniteSet(Of(b))
      BY AccountsAssumption, FS_Subset
    <3>3. ASSUME NEW b \in Clients, b # c
          PROVE  SumFunctionOnSet(Ledgers', Of(b)) = SumFunctionOnSet(Ledgers, Of(b))
      <4>1. s \notin Of(b)
        BY <1>1, <3>3
      <4>2. \A t \in Of(b) : Ledgers[t] \in Int /\ Ledgers'[t] = Ledgers[t]
        BY <3>1, <3>2, <4>1
      <4> HIDE DEF Of
      <4> QED
        BY <3>2, <4>2, SumAgrees
    <3>4. SumFunctionOnSet(Ledgers', Of(c)) = SumFunctionOnSet(Ledgers, Of(c)) + d
      <4>1. s \in Of(c)
        BY <1>1, <1>6
      <4>2. /\ \A t \in Of(c) : Ledgers[t] \in Int /\ Ledgers'[t] \in Int
            /\ \A t \in Of(c) \ {s} : Ledgers[t] \in Int /\ Ledgers'[t] = Ledgers[t]
        BY <1>3, <3>1, <3>2
      <4> HIDE DEF Of
      <4>3. IsFiniteSet(Of(c)) /\ IsFiniteSet(Of(c) \ {s})
        <5>1. IsFiniteSet(Of(c))
          BY <1>1, <3>2
        <5> QED
          BY <5>1, <4>1, FS_RemoveElement
      <4>4. SumFunctionOnSet(Ledgers', Of(c)) = SumFunctionOnSet(Ledgers', Of(c) \ {s}) + Ledgers'[s]
        BY <4>1, <4>2, <4>3, SumWithout
      <4>5. SumFunctionOnSet(Ledgers, Of(c)) = SumFunctionOnSet(Ledgers, Of(c) \ {s}) + Ledgers[s]
        BY <4>1, <4>2, <4>3, SumWithout
      <4>6. /\ SumFunctionOnSet(Ledgers', Of(c) \ {s}) = SumFunctionOnSet(Ledgers, Of(c) \ {s})
            /\ SumFunctionOnSet(Ledgers, Of(c) \ {s}) \in Int
        BY <4>2, <4>3, SumAgrees, SumFirst
      <4> QED
        BY <1>2, <1>3, <3>1, <4>4, <4>5, <4>6 DEF d
    <3>5. ASSUME NEW b \in Clients, native'[b].gen # 0
          PROVE  native'[b].used + base'[b] = SumFunctionOnSet(Ledgers', Of(b))
      <4>1. native[b].used + base[b] = SumFunctionOnSet(Ledgers, Of(b))
        BY <1>0, <2>5, <3>5, CountedAs
      <4>2. native[b].used \in Nat /\ base[b] \in Nat
        BY <1>0 DEF PanelFits, NativeRow
      <4> HIDE DEF Of
      <4>3. CASE b = c
        BY <1>3, <2>5, <2>6, <3>4, <4>1, <4>2, <4>3
      <4>4. CASE b # c
        BY <2>5, <2>6, <3>3, <4>1, <4>4
      <4> QED
        BY <4>3, <4>4
    <3>6. \A b \in Clients : {t \in Sessions : session'[t].name = <<b, native'[b].gen>>} = Of(b)
      BY <2>5, <2>6 DEF SameNames
    <3>7. \A b \in Clients : native'[b].gen # 0 =>
            native'[b].used + base'[b] =
              SumFunctionOnSet(Ledgers', {t \in Sessions : session'[t].name = <<b, native'[b].gen>>})
      BY <3>5, <3>6
    <3> QED
      BY <3>7, SameSum DEF A!UsageCountedOnce, A!Named, Ledgers
  <2> QED
    BY <1>3, <2>1, <2>2, <2>3, <2>5, <2>6
<1> QED
  BY <1>5, <1>6

\* Nothing happens to the sessions.
LEMMA QuietSessions ==
  ASSUME SessionsFit, AllSettled, PanelFits, failures \in Nat,
         UNCHANGED <<session, flying>>,
         changes' \in {changes, changes + 1}, Ages, failures' \in {failures, failures + 1}
  PROVE  SessionsFit' /\ AllSettled' /\ SameNames /\ Ledgers' = Ledgers
<1>1. session \in [Sessions -> SessionRow]
  BY DEF SessionsFit
<1>2. session' = A!Closed(session, {})
  BY <1>1 DEF A!Closed
<1>3. flying' = (flying \ {}) \cup A!Finals({})
  BY DEF A!Finals
<1>4. {} \in SUBSET Sessions /\ {} \in SUBSET flying
  OBVIOUS
<1> QED
  BY <1>2, <1>3, <1>4, NothingCredited, SessionsStep DEF Ledgers, HooksCounted

\* Live sessions end, and their hooks begin to run.
LEMMA CutStep ==
  ASSUME AccountsInd, failures \in Nat, NEW ss \in SUBSET Sessions, \A t \in ss : session[t].live,
         A!End(ss), UNCHANGED <<native, base, changes>>, failures' \in {failures, failures + 1}
  PROVE  SessionsFit' /\ AllSettled' /\ SameNames /\ A!UsageCountedOnce'
<1>1. SessionsFit /\ AllSettled /\ PanelFits /\ A!UsageCountedOnce
  BY DEF AccountsInd
<1>2. session' = A!Closed(session, ss) /\ flying' = (flying \ {}) \cup A!Finals(ss)
  BY DEF A!End
<1>3. Ages /\ changes' \in {changes, changes + 1} /\ {} \in SUBSET flying
  BY DEF Ages
<1>4. /\ SessionsFit' /\ AllSettled' /\ SameNames
      /\ \A t \in Sessions : session'[t].ledger = session[t].ledger
  BY <1>1, <1>2, <1>3, NothingCredited, SessionsStep DEF HooksCounted
<1>5. Ledgers' = Ledgers /\ \A t \in Sessions : session'[t].name = session[t].name
  BY <1>4 DEF Ledgers, SameNames
<1>6. A!UsageCountedOnce'
  BY <1>1, <1>5, CountKept
<1> QED
  BY <1>4, <1>6

\* The worker's pass stays sound while others work.
LEMMA WorkerKept ==
  ASSUME AccountsInd, UNCHANGED worker, Ages, changes' \in {changes, changes + 1},
         \A t \in Sessions : Opened(t) =>
           session'[t].name = session[t].name /\ session[t].bytes <= session'[t].bytes,
         \A t \in Sessions : session'[t].bytes \in Int,
         \A c \in Clients : account'[c].gen = account[c].gen \/ account'[c].gen = 0
  PROVE  WorkerFits'
<1>1. \A c \in Clients : /\ account[c].gen <= changes /\ account[c].gen \in Int
  BY DEF AccountsInd, PanelFits, AccountRow
<1>2. changes \in Int /\ \A t \in Sessions : session[t].bytes \in Int
  BY DEF AccountsInd, PanelFits, SessionsFit, SessionRow
<1>3. \A c \in Clients : worker.snap[c].gen \in Int
  BY DEF AccountsInd, WorkerFits, WorkerRow, NativeRow
<1>4. worker.at = "collect" =>
        \A x \in worker.todo : Opened(x[1])' /\ x[2] <= session'[x[1]].bytes
  <2> SUFFICES ASSUME worker.at = "collect", NEW x \in worker.todo
               PROVE  Opened(x[1])' /\ x[2] <= session'[x[1]].bytes
    OBVIOUS
  <2>1. /\ x[1] \in Sessions /\ x[2] \in Int /\ Opened(x[1]) /\ x[2] <= session[x[1]].bytes
    BY DEF AccountsInd, WorkerFits, A!Samples
  <2> QED
    BY <1>2, <2>1 DEF Opened
<1>5. worker.at \in {"clients", "client"} =>
        \A c \in Clients :
            /\ worker.snap[c].gen <= changes'
            /\ account'[c].gen # 0 /\ worker.snap[c].gen # account'[c].gen =>
                 native'[c].gen # account'[c].gen
  BY <1>1, <1>2, <1>3 DEF Ages, AccountsInd, WorkerFits
<1> QED
  BY <1>4, <1>5 DEF AccountsInd, WorkerFits, WorkerRow, NativeRow, A!Samples, A!Protocols

\* The panel's side of a change in the panel.
LEMMA PanelStep ==
  ASSUME AccountsInd, failures \in Nat, UNCHANGED <<account, user, usable, session, flying, worker, failures>>,
         changes' \in {changes, changes + 1}, Ages, PanelFits',
         \A c \in Clients : native'[c].gen # 0 =>
           \/ /\ native'[c].gen = native[c].gen
              /\ native'[c].used + base'[c] = native[c].used + base[c]
           \/ native'[c].gen = changes + 1 /\ native'[c].used + base'[c] = 0
  PROVE  AccountsInd'
<1>1. SessionsFit /\ AllSettled /\ PanelFits /\ A!UsageCountedOnce /\ UsersTyped
  BY DEF AccountsInd
<1>2. SessionsFit' /\ AllSettled' /\ SameNames /\ Ledgers' = Ledgers
  BY <1>1, QuietSessions
<1>3. RowsKept'
  BY <1>2, RowsStep
<1>4. WorkerFits'
  BY <1>1, WorkerKept DEF SessionsFit, SessionRow
<1>5. A!UsageCountedOnce'
  <2>1. changes \in Int /\ \A s \in Sessions : session[s].name[2] <= changes
    BY <1>1 DEF PanelFits, SessionsFit
  <2>2. \A s \in Sessions, c \in Clients : session[s].name # <<c, changes + 1>>
    <3>1. \A c : <<c, changes + 1>>[2] = changes + 1
      OBVIOUS
    <3> QED
      BY <2>1, <3>1
  <2> QED
    BY <1>1, <1>2, <2>2, CountKept
<1>6. UsersTyped'
  BY <1>1 DEF UsersTyped, UserRow, A!Names, A!Generations, A!Protocols
<1> QED
  BY <1>2, <1>3, <1>4, <1>5, <1>6 DEF AccountsInd

\* A client is added, deleted, switched or renewed.
LEMMA PanelActs ==
  ASSUME AccountsInd, failures \in Nat, NEW c \in Clients,
         A!AddClient(c) \/ A!DeleteClient(c) \/ A!Switch(c) \/ A!Renew(c)
  PROVE  AccountsInd'
<1>1. /\ now \in 1 .. MaxTime /\ changes \in 0 .. MaxChanges
      /\ native \in [Clients -> NativeRow] /\ base \in [Clients -> Nat]
      /\ account \in [Clients -> AccountRow]
      /\ \A b \in Clients : /\ native[b].gen <= changes /\ account[b].gen <= changes
                            /\ native[b].gen = 0 => base[b] = 0
                            /\ native[b].gen \in 0 .. MaxChanges /\ account[b].gen \in 0 .. MaxChanges
                            /\ native[b].used \in Nat /\ base[b] \in Nat
  BY DEF AccountsInd, PanelFits, NativeRow, AccountRow
<1>2. /\ changes < MaxChanges /\ changes' = changes + 1 /\ UNCHANGED now
      /\ UNCHANGED <<account, user, usable, session, flying, worker, failures>>
      /\ changes' \in 0 .. MaxChanges
  BY <1>1, AccountsAssumption DEF A!AddClient, A!DeleteClient, A!Switch, A!Renew, A!Act, A!Others
<1>3. ASSUME NEW rec \in NativeRow, native' = [native EXCEPT ![c] = rec],
             NEW less \in Nat, base' = [base EXCEPT ![c] = less],
             \/ rec.gen = native[c].gen /\ rec.gen # 0 /\ rec.used + less = native[c].used + base[c]
             \/ rec.gen = changes + 1 /\ rec.used + less = 0
             \/ rec.gen = 0 /\ less = 0
      PROVE  AccountsInd'
  <2>1. /\ native' \in [Clients -> NativeRow] /\ base' \in [Clients -> Nat]
        /\ native'[c] = rec /\ base'[c] = less
        /\ \A b \in Clients : b # c => native'[b] = native[b] /\ base'[b] = base[b]
    BY <1>1, <1>3
  <2>2. Ages
    BY <1>3, <2>1 DEF Ages
  <2>g. rec.gen <= changes' /\ (rec.gen = 0 => less = 0)
    BY <1>1, <1>2, <1>3
  <2>3. PanelFits'
    <3>1. \A b \in Clients : native'[b].gen <= changes' /\ account'[b].gen <= changes'
      BY <1>1, <1>2, <2>1, <2>g
    <3>2. \A b \in Clients : native'[b].gen = 0 => base'[b] = 0
      BY <1>1, <2>1, <2>g
    <3>3. (now \in 1 .. MaxTime /\ changes \in 0 .. MaxChanges)'
      BY <1>1, <1>2
    <3>4. (account \in [Clients -> AccountRow])'
      BY <1>1, <1>2 DEF AccountRow
    <3>5. (native \in [Clients -> NativeRow])'
      BY <2>1 DEF NativeRow
    <3> QED
      BY <2>1, <3>1, <3>2, <3>3, <3>4, <3>5 DEF PanelFits
  <2>4. \A b \in Clients : native'[b].gen # 0 =>
           \/ /\ native'[b].gen = native[b].gen
              /\ native'[b].used + base'[b] = native[b].used + base[b]
           \/ native'[b].gen = changes + 1 /\ native'[b].used + base'[b] = 0
    BY <1>3, <2>1
  <2> QED
    BY <1>2, <2>2, <2>3, <2>4, PanelStep
<1>4. base = [base EXCEPT ![c] = base[c]]
  BY <1>1
<1>5. CASE A!AddClient(c)
  <2>1. PICK t \in {0, now + 1} :
          native' = [native EXCEPT ![c] = [gen |-> changes', on |-> TRUE, used |-> 0, until |-> t]]
    BY <1>5 DEF A!AddClient
  <2>2. [gen |-> changes', on |-> TRUE, used |-> 0, until |-> t] \in NativeRow
    BY <1>1, <1>2 DEF NativeRow
  <2>3. native[c].gen = 0 /\ base' = base
    BY <1>5 DEF A!AddClient
  <2>4. base[c] = 0
    BY <1>1, <2>3
  <2> DEFINE rec == [gen |-> changes', on |-> TRUE, used |-> 0, until |-> t]
  <2>5. rec.gen = changes + 1 /\ rec.used + base[c] = 0 /\ base[c] \in Nat
    BY <1>1, <1>2, <2>4
  <2> HIDE DEF rec
  <2>6. rec \in NativeRow /\ native' = [native EXCEPT ![c] = rec]
    BY <2>1, <2>2 DEF rec
  <2> QED
    BY <1>3, <1>4, <2>3, <2>5, <2>6
<1>6. CASE A!DeleteClient(c)
  <2>1. A!NoClient \in NativeRow /\ A!NoClient.gen = 0
    BY AccountsAssumption DEF A!NoClient, NativeRow
  <2>2. native' = [native EXCEPT ![c] = A!NoClient] /\ base' = [base EXCEPT ![c] = 0] /\ 0 \in Nat
    BY <1>6 DEF A!DeleteClient
  <2> QED
    BY <1>3, <2>1, <2>2
<1>7. CASE A!Switch(c)
  <2> DEFINE rec == [native[c] EXCEPT !.on = ~@]
  <2>1. rec \in NativeRow /\ rec.gen = native[c].gen /\ rec.used = native[c].used
    BY <1>1 DEF NativeRow
  <2>2. native' = [native EXCEPT ![c] = rec] /\ base' = base /\ native[c].gen # 0
    BY <1>1, <1>7 DEF A!Switch
  <2> HIDE DEF rec
  <2> QED
    BY <1>1, <1>3, <1>4, <2>1, <2>2
<1>8. CASE A!Renew(c)
  <2> DEFINE rec == [native[c] EXCEPT !.used = 0,
                                      !.until = IF native[c].until = 0 THEN 0 ELSE now + 1]
  <2>1. rec \in NativeRow /\ rec.gen = native[c].gen /\ rec.used = 0
    <3>1. native[c] \in NativeRow /\ now + 1 \in Nat
      BY <1>1
    <3> QED
      BY <3>1 DEF NativeRow
  <2>2. /\ native' = [native EXCEPT ![c] = rec] /\ native[c].gen # 0
        /\ base' = [base EXCEPT ![c] = base[c] + native[c].used]
    BY <1>1, <1>8 DEF A!Renew
  <2>3. base[c] + native[c].used \in Nat /\ 0 + (base[c] + native[c].used) = native[c].used + base[c]
    BY <1>1
  <2> HIDE DEF rec
  <2> QED
    BY <1>3, <2>1, <2>2, <2>3
<1> QED
  BY <1>5, <1>6, <1>7, <1>8

\* Time passes.
LEMMA TickStep ==
  ASSUME AccountsInd, failures \in Nat, A!Tick
  PROVE  AccountsInd'
<1>1. now < MaxTime /\ now' = now + 1 /\ UNCHANGED <<native, base, changes>>
      /\ UNCHANGED <<account, user, usable, session, flying, worker, failures>>
  BY DEF A!Tick, A!Others
<1>2. now' \in 1 .. MaxTime
  BY <1>1, AccountsAssumption DEF AccountsInd, PanelFits
<1>3. PanelFits' /\ Ages
  BY <1>1, <1>2 DEF AccountsInd, PanelFits, Ages, NativeRow, AccountRow
<1> QED
  BY <1>1, <1>3, PanelStep

-----------------------------------------------------------------------------
\* A session is opened under the name of a client that may connect.
LEMMA ConnectStep ==
  ASSUME AccountsInd, failures \in Nat, NEW s \in Sessions, A!Connect(s)
  PROVE  AccountsInd'
<1>0. PanelFits /\ SessionsFit /\ RowsKept /\ A!UsageCountedOnce /\ AllSettled /\ UsersTyped
  BY DEF AccountsInd
<1>1. PICK n \in A!Names, w \in A!Ways :
        /\ A!Permitted(A!Row(n))
        /\ session' = [session EXCEPT ![s] =
             [name |-> n, way |-> w, live |-> TRUE, bytes |-> 0, ledger |-> 0]]
  BY DEF A!Connect
<1>2. /\ session[s] = A!Unused /\ UNCHANGED <<now, native, base, changes, account, user, usable, flying, worker,
                                              failures>>
  BY DEF A!Connect, A!panel
<1>3. /\ n # <<0, 0>> /\ n[1] \in Clients /\ n[2] \in 1 .. MaxChanges
      /\ native[n[1]].gen = n[2] /\ account[n[1]].gen = n[2] /\ n[2] <= changes
      /\ n = <<n[1], n[2]>>
  <2>1. A!Row(n) # A!NoClient
    BY <1>1 DEF A!Permitted, A!NoClient
  <2> QED
    BY <1>0, <2>1, NamesAreOpened, RowFound DEF PanelFits
<1>4. ~Opened(s) /\ session[s].ledger = 0 /\ session[s].bytes = 0
  BY <1>2 DEF Opened, A!Unused
<1>5. [name |-> n, way |-> w, live |-> TRUE, bytes |-> 0, ledger |-> 0] \in SessionRow
  BY AccountsAssumption DEF SessionRow
<1>6. /\ session' \in [Sessions -> SessionRow]
      /\ session'[s].name = n /\ session'[s].live /\ session'[s].bytes = 0 /\ session'[s].ledger = 0
      /\ \A t \in Sessions : t # s => session'[t] = session[t]
  BY <1>0, <1>1, <1>5 DEF SessionsFit
<1>7. \A x \in flying : x[1] # s /\ x[1] \in Sessions
  BY <1>0, <1>4 DEF SessionsFit, A!Samples
<1>8. SessionsFit'
  <2>1. \A t \in Sessions : /\ ~Opened(t)' => session'[t] = A!Unused
                            /\ session'[t].name[2] <= changes
                            /\ session'[t].ledger <= session'[t].bytes
    BY <1>0, <1>3, <1>6 DEF SessionsFit, Opened
  <2>2. \A x \in flying : /\ Opened(x[1])' /\ ~session'[x[1]].live
                          /\ x[2] = session'[x[1]].bytes
    BY <1>0, <1>6, <1>7 DEF SessionsFit, Opened
  <2> QED
    BY <1>0, <1>2, <1>6, <2>1, <2>2 DEF SessionsFit, SessionRow, A!Samples, A!Unused, A!Names,
       A!Ways, A!Generations, A!Protocols
<1>9. RowsKept'
  BY <1>0, <1>2, <1>3, <1>6 DEF RowsKept, Opened
<1>10. AllSettled'
  BY <1>0, <1>2, <1>6 DEF AllSettled, Opened
<1>11. PanelFits' /\ UsersTyped'
  BY <1>0, <1>2 DEF PanelFits, UsersTyped, NativeRow, AccountRow, UserRow, A!Names, A!Generations,
     A!Protocols
<1>12. WorkerFits'
  <2>1. \A t \in Sessions : Opened(t) =>
           session'[t].name = session[t].name /\ session[t].bytes <= session'[t].bytes
    BY <1>0, <1>4, <1>6 DEF SessionsFit, SessionRow
  <2>2. Ages /\ \A t \in Sessions : session'[t].bytes \in Int
    BY <1>2, <1>6 DEF Ages, SessionRow
  <2> QED
    BY <1>2, <2>1, <2>2, WorkerKept
<1>13. A!UsageCountedOnce'
  <2> DEFINE Of(c) == {t \in Sessions : session[t].name = <<c, native[c].gen>>}
             OfNow(c) == {t \in Sessions : session'[t].name = <<c, native[c].gen>>}
  <2>1. Ledgers' = Ledgers
    BY <1>2, <1>6 DEF Ledgers, A!Unused
  <2>2. ASSUME NEW c \in Clients, native[c].gen # 0
        PROVE  SumFunctionOnSet(Ledgers, OfNow(c)) = SumFunctionOnSet(Ledgers, Of(c))
    <3>1. s \notin Of(c)
      BY <1>2, <2>2 DEF A!Unused
    <3>2. /\ IsFiniteSet(Of(c)) /\ \A t \in Of(c) \cup {s} : Ledgers[t] \in Int
          /\ Ledgers[s] = 0
      BY <1>0, <1>4, LedgersTyped, AccountsAssumption, FS_Subset
    <3>3. OfNow(c) = Of(c) \/ OfNow(c) = Of(c) \cup {s}
      <4>1. \A t \in Sessions : t \in OfNow(c) <=>
              t \in Of(c) \/ (t = s /\ n = <<c, native[c].gen>>)
        BY <1>6, <3>1
      <4>2. OfNow(c) \subseteq Sessions /\ Of(c) \subseteq Sessions
        OBVIOUS
      <4> HIDE DEF Of, OfNow
      <4> QED
        BY <4>1, <4>2
    <3> HIDE DEF Of, OfNow
    <3>4. SumFunctionOnSet(Ledgers, Of(c) \cup {s}) = SumFunctionOnSet(Ledgers, Of(c)) + 0
      BY <3>1, <3>2, SumWith
    <3>5. SumFunctionOnSet(Ledgers, Of(c)) \in Int
      BY <3>2, SumFirst
    <3>6. SumFunctionOnSet(Ledgers, Of(c) \cup {s}) = SumFunctionOnSet(Ledgers, Of(c))
      BY <3>4, <3>5
    <3>7. CASE OfNow(c) = Of(c)
      BY <3>7
    <3>8. CASE OfNow(c) = Of(c) \cup {s}
      BY <3>6, <3>8
    <3> QED
      BY <3>3, <3>7, <3>8
  <2>3. \A c \in Clients : native[c].gen # 0 =>
          native[c].used + base[c] = SumFunctionOnSet(Ledgers, Of(c))
    BY <1>0, CountedAs
  <2>4. \A c \in Clients : native'[c].gen # 0 =>
          native'[c].used + base'[c] = SumFunctionOnSet(Ledgers',
            {t \in Sessions : session'[t].name = <<c, native'[c].gen>>})
    BY <1>2, <2>1, <2>2, <2>3
  <2> QED
    BY <2>4, SameSum DEF A!UsageCountedOnce, A!Named, Ledgers
<1> QED
  BY <1>8, <1>9, <1>10, <1>11, <1>12, <1>13 DEF AccountsInd

\* A live session carries a byte.
LEMMA TransferStep ==
  ASSUME AccountsInd, failures \in Nat, NEW s \in Sessions, A!Transfer(s)
  PROVE  AccountsInd'
<1>0. PanelFits /\ SessionsFit /\ RowsKept /\ A!UsageCountedOnce /\ AllSettled /\ UsersTyped
  BY DEF AccountsInd
<1>1. /\ session[s].live /\ session[s].bytes < MaxBytes
      /\ session' = [session EXCEPT ![s].bytes = @ + 1]
      /\ UNCHANGED <<now, native, base, changes, account, user, usable, flying, worker, failures>>
  BY DEF A!Transfer, A!panel
<1>2. \A t \in Sessions : session[t] \in SessionRow
  BY <1>0 DEF SessionsFit
<1>3. session[s].bytes \in 0 .. MaxBytes /\ session[s].bytes + 1 \in 0 .. MaxBytes
  BY <1>1, <1>2, AccountsAssumption DEF SessionRow
<1>4. /\ session' \in [Sessions -> SessionRow]
      /\ session'[s].name = session[s].name /\ session'[s].live
      /\ session'[s].bytes = session[s].bytes + 1 /\ session'[s].ledger = session[s].ledger
      /\ \A t \in Sessions : t # s => session'[t] = session[t]
  BY <1>0, <1>1, <1>3 DEF SessionsFit, SessionRow
<1>5. Opened(s)
  BY <1>0, <1>1 DEF SessionsFit, A!Unused
<1>6. \A x \in flying : x[1] # s /\ x[1] \in Sessions
  BY <1>0, <1>1 DEF SessionsFit, A!Samples
<1>7. SessionsFit'
  <2>1. session[s].ledger \in Int /\ session[s].ledger <= session[s].bytes + 1
    BY <1>0, <1>2, <1>3 DEF SessionsFit, SessionRow
  <2>2. \A t \in Sessions : /\ ~Opened(t)' => session'[t] = A!Unused
                            /\ session'[t].name[2] <= changes
                            /\ session'[t].ledger <= session'[t].bytes
    BY <1>0, <1>4, <1>5, <2>1 DEF SessionsFit, Opened
  <2>3. \A x \in flying : /\ Opened(x[1])' /\ ~session'[x[1]].live
                          /\ x[2] = session'[x[1]].bytes
    BY <1>0, <1>4, <1>6 DEF SessionsFit, Opened
  <2> QED
    BY <1>0, <1>1, <1>4, <2>2, <2>3 DEF SessionsFit, SessionRow, A!Samples, A!Unused, A!Names,
       A!Ways, A!Generations, A!Protocols
<1>8. RowsKept' /\ AllSettled'
  BY <1>0, <1>1, <1>4 DEF RowsKept, AllSettled, Opened
<1>9. PanelFits' /\ UsersTyped'
  BY <1>0, <1>1 DEF PanelFits, UsersTyped, NativeRow, AccountRow, UserRow, A!Names, A!Generations,
     A!Protocols
<1>10. WorkerFits'
  <2>1. \A t \in Sessions : session'[t].name = session[t].name /\ session[t].bytes <= session'[t].bytes
    BY <1>2, <1>3, <1>4 DEF SessionRow
  <2>2. Ages /\ \A t \in Sessions : session'[t].bytes \in Int
    BY <1>1, <1>4 DEF Ages, SessionRow
  <2> QED
    BY <1>1, <2>1, <2>2, WorkerKept
<1>11. A!UsageCountedOnce'
  <2>1. Ledgers' = Ledgers /\ \A t \in Sessions : session'[t].name = session[t].name
    BY <1>4 DEF Ledgers
  <2> QED
    BY <1>0, <1>1, <2>1, CountKept
<1> QED
  BY <1>7, <1>8, <1>9, <1>10, <1>11 DEF AccountsInd

-----------------------------------------------------------------------------
\* The worker, and what it writes.
LEMMA PutTyped ==
  ASSUME NEW N, NEW P, NEW R, NEW f \in [N -> [P -> R]], NEW n, NEW p, NEW r \in R
  PROVE  [f EXCEPT ![n][p] = r] \in [N -> [P -> R]]
<1> DEFINE g == [f[n] EXCEPT ![p] = r]
<1>1. n \in N => g \in [P -> R]
  OBVIOUS
<1> HIDE DEF g
<1>2. [f EXCEPT ![n] = g] \in [N -> [P -> R]]
  BY <1>1
<1> QED
  BY <1>2 DEF g

\* The types of the users after a step.
LEMMA UsersNow ==
  ASSUME user' \in [A!Names -> [A!Protocols -> UserRow]],
         usable' \in [A!Names -> [A!Protocols -> BOOLEAN]]
  PROVE  UsersTyped'
  BY DEF UsersTyped, UserRow, A!Names, A!Generations, A!Protocols

\* Users that are disabled, and those whose server is told.
LEMMA UsersOff ==
  ASSUME UsersTyped, NEW xs
  PROVE  /\ A!Off(xs) \in [A!Names -> [A!Protocols -> UserRow]]
         /\ A!Refused(xs) \in [A!Names -> [A!Protocols -> BOOLEAN]]
<1>1. \A n \in A!Names, p \in A!Protocols :
        user[n][p] \in UserRow /\ [user[n][p] EXCEPT !.state = "off"] \in UserRow
  <2>1. \A n \in A!Names, p \in A!Protocols : user[n][p] \in UserRow
    BY DEF UsersTyped
  <2>2. \A r \in UserRow : [r EXCEPT !.state = "off"] \in UserRow
    BY DEF UserRow
  <2> QED
    BY <2>1, <2>2
<1>2. \A n \in A!Names, p \in A!Protocols :
        (IF <<n, p>> \in xs THEN [user[n][p] EXCEPT !.state = "off"] ELSE user[n][p]) \in UserRow
  BY <1>1
<1>3. A!Off(xs) \in [A!Names -> [A!Protocols -> UserRow]]
  BY <1>2 DEF A!Off
<1>4. \A n \in A!Names, p \in A!Protocols : (usable[n][p] /\ <<n, p>> \notin xs) \in BOOLEAN
  BY DEF UsersTyped
<1>5. A!Refused(xs) \in [A!Names -> [A!Protocols -> BOOLEAN]]
  BY <1>4 DEF A!Refused
<1> QED
  BY <1>3, <1>5

\* Only live sessions are cut.
LEMMA CutsLive == \A xs : A!Cut(xs) \in SUBSET Sessions /\ \A t \in A!Cut(xs) : session[t].live
  BY DEF A!Cut, A!Of

\* A step that ends no session.
LEMMA QuietEnd ==
  ASSUME SessionsFit, UNCHANGED <<session, flying>>
  PROVE  A!End({}) /\ {} \in SUBSET Sessions
  BY DEF SessionsFit, A!End, A!Closed, A!Finals

\* A worker that rests is a worker.
LEMMA RestFits == A!Resting \in WorkerRow
<1>1. A!NoClient \in NativeRow
  BY AccountsAssumption DEF A!NoClient, NativeRow
<1>2. A!NoSnap \in [Clients -> NativeRow]
  BY <1>1 DEF A!NoSnap
<1> QED
  BY <1>2 DEF A!Resting, WorkerRow

\* The client the worker is at, and what it wants of a user.
LEMMA AtClient ==
  ASSUME AccountsInd, worker.at \in {"clients", "client"}, worker.left # {}
  PROVE  /\ A!Current \in worker.left /\ A!Current \in Clients
         /\ worker.snap[A!Current] \in NativeRow /\ A!Wish \in UserRow
<1>1. worker.left \in SUBSET Clients /\ worker.snap \in [Clients -> NativeRow] /\ worker.want \in BOOLEAN
  BY DEF AccountsInd, WorkerFits, WorkerRow
<1>2. worker.left \in SUBSET Nat
  BY <1>1, AccountsAssumption
<1>3. \E k \in worker.left : \A l \in worker.left : k <= l
  BY <1>2, LeastNumber
<1>4. A!Current \in worker.left
  BY <1>3 DEF A!Current, A!Min
<1>5. worker.snap[A!Current] \in NativeRow /\ worker.snap[A!Current].until \in Nat
  BY <1>1, <1>4 DEF NativeRow
<1>6. A!Wish \in UserRow
  BY <1>1, <1>5 DEF A!Wish, UserRow
<1> QED
  BY <1>1, <1>4, <1>5, <1>6

\* Where the worker may be after a step that leaves the panel as it is.
Moved ==
  /\ worker' \in WorkerRow
  /\ \/ worker'.at = "rest"
     \/ /\ worker'.at = "collect" /\ worker'.left \subseteq Sessions
        /\ worker'.todo \subseteq A!Samples
        /\ \A x \in worker'.todo : Opened(x[1]) /\ x[2] <= session[x[1]].bytes
     \/ /\ worker'.at \in {"clients", "client"} /\ worker.at \in {"clients", "client"}
        /\ worker'.left \subseteq Clients /\ worker'.snap = worker.snap
        /\ worker'.at = "client" => worker'.left # {}
     \/ /\ worker'.at = "clients" /\ worker'.left \subseteq Clients /\ worker'.snap = native
        /\ UNCHANGED account

\* Accounts that are kept, made for the client that was read, or removed.
AccountsMoved ==
  /\ account' \in [Clients -> AccountRow]
  /\ \A c \in Clients :
       \/ account'[c].gen = account[c].gen
       \/ account[c].gen = 0 /\ account'[c].gen = worker.snap[c].gen /\ worker.at = "clients"
       \/ account'[c].gen = 0 /\ account[c].gen # native[c].gen

\* A step of the worker, or of what fails beside it.
LEMMA WorkerStep ==
  ASSUME AccountsInd, failures \in Nat, UNCHANGED <<now, native, base, changes>>,
         failures' \in {failures, failures + 1},
         NEW ss \in SUBSET Sessions, \A t \in ss : session[t].live, A!End(ss),
         UsersTyped', AccountsMoved, Moved
  PROVE  AccountsInd'
<1>1. SessionsFit' /\ AllSettled' /\ SameNames /\ A!UsageCountedOnce'
  BY CutStep
<1>2. Ages
  BY DEF Ages
<1>3. PanelFits /\ WorkerFits /\ SessionsFit
  BY DEF AccountsInd
<1>4. \A c \in Clients : account'[c].gen <= changes
  BY <1>3 DEF AccountsMoved, PanelFits, WorkerFits
<1>5. RowsKept'
  BY <1>1, <1>2, RowsStep DEF AccountsMoved
<1>6. PanelFits'
  BY <1>3, <1>4 DEF PanelFits, AccountsMoved, NativeRow, AccountRow
<1>7. \A x \in A!Samples : x[1] \in Sessions
  BY DEF A!Samples
<1>8. WorkerFits'
  <2>1. (worker \in WorkerRow)'
    BY DEF Moved, WorkerRow, NativeRow, A!Samples, A!Protocols
  <2>2. CASE worker'.at = "rest"
    BY <2>1, <2>2 DEF WorkerFits
  <2>3. CASE /\ worker'.at = "collect" /\ worker'.left \subseteq Sessions
             /\ worker'.todo \subseteq A!Samples
             /\ \A x \in worker'.todo : Opened(x[1]) /\ x[2] <= session[x[1]].bytes
    <3>1. \A x \in worker'.todo : Opened(x[1])' /\ x[2] <= session'[x[1]].bytes
      BY <1>1, <1>7, <2>3 DEF SameNames, Opened
    <3> QED
      BY <2>1, <2>3, <3>1 DEF WorkerFits, A!Samples
  <2>4. CASE /\ worker'.at \in {"clients", "client"} /\ worker.at \in {"clients", "client"}
             /\ worker'.left \subseteq Clients /\ worker'.snap = worker.snap
             /\ worker'.at = "client" => worker'.left # {}
    <3>1. \A c \in Clients :
            /\ worker'.snap[c].gen <= changes'
            /\ account'[c].gen # 0 /\ worker'.snap[c].gen # account'[c].gen =>
                 native'[c].gen # account'[c].gen
      BY <1>3, <2>4 DEF WorkerFits, AccountsMoved
    <3> QED
      BY <2>1, <2>4, <3>1 DEF WorkerFits
  <2>5. CASE /\ worker'.at = "clients" /\ worker'.left \subseteq Clients /\ worker'.snap = native
             /\ UNCHANGED account
    <3>1. \A c \in Clients : worker'.snap[c].gen <= changes'
      BY <1>3, <2>5 DEF PanelFits
    <3> QED
      BY <2>1, <2>5, <3>1 DEF WorkerFits
  <2> QED
    BY <2>2, <2>3, <2>4, <2>5 DEF Moved
<1> QED
  BY <1>1, <1>5, <1>6, <1>8 DEF AccountsInd

\* A step that leaves the accounts alone.
LEMMA AccountsStay == ASSUME AccountsInd, UNCHANGED account PROVE AccountsMoved
  BY DEF AccountsInd, PanelFits, AccountsMoved

\* An account is ready or not, and stays the one it is.
LEMMA ReadyMoved ==
  ASSUME AccountsInd, NEW b \in BOOLEAN, NEW c, account' = [account EXCEPT ![c].ready = b]
  PROVE  AccountsMoved
<1>1. account \in [Clients -> AccountRow]
  BY DEF AccountsInd, PanelFits
<1>2. /\ account' \in [Clients -> AccountRow]
      /\ \A d \in Clients : account'[d].gen = account[d].gen
  BY <1>1 DEF AccountRow
<1> QED
  BY <1>2 DEF AccountsMoved

\* A step that leaves the users alone.
LEMMA UsersStay == ASSUME AccountsInd, UNCHANGED <<user, usable>> PROVE UsersTyped'
  BY UsersNow DEF AccountsInd, UsersTyped

\* The worker gives its pass up.
LEMMA WorkerRests == worker' = A!Resting => Moved
  BY RestFits DEF Moved, A!Resting

\* The worker is not concerned.
LEMMA WorkerWaits == AccountsInd /\ UNCHANGED worker => Moved
  BY DEF AccountsInd, WorkerFits, WorkerRow, Moved

\* Samples are credited as hooks end or the worker comes to them.
LEMMA HookStep ==
  ASSUME AccountsInd, failures \in Nat, NEW f, NEW ss \in SUBSET Sessions, NEW gone \in SUBSET flying,
         OnlyCredited(f), \A t \in ss : session[t].live,
         session' = A!Closed(f, ss), flying' = (flying \ gone) \cup A!Finals(ss),
         UNCHANGED <<now, base, changes, account, user, usable>>,
         native' \in [Clients -> NativeRow], \A c \in Clients : native'[c].gen = native[c].gen,
         failures' \in {failures, failures + 1},
         HooksCounted(f, gone),
         SameNames /\ (\A t \in Sessions : session'[t].ledger = f[t].ledger) => A!UsageCountedOnce',
         \/ UNCHANGED worker
         \/ worker.at = "collect" /\ worker' = [worker EXCEPT !.todo = {}]
  PROVE  AccountsInd'
<1>1. PanelFits /\ SessionsFit /\ AllSettled /\ UsersTyped /\ WorkerFits
  BY DEF AccountsInd
<1>2. Ages /\ changes' \in {changes, changes + 1}
  BY DEF Ages
<1>3. /\ SessionsFit' /\ AllSettled' /\ SameNames
      /\ \A t \in Sessions : session'[t].ledger = f[t].ledger
  BY <1>1, <1>2, SessionsStep
<1>4. A!UsageCountedOnce'
  BY <1>3
<1>5. RowsKept'
  BY <1>2, <1>3, RowsStep
<1>6. PanelFits'
  BY <1>1 DEF PanelFits, NativeRow, AccountRow
<1>7. UsersTyped'
  BY <1>1, UsersNow DEF UsersTyped
<1>8. CASE UNCHANGED worker
  <2>1. \A t \in Sessions :
          /\ session'[t].name = session[t].name /\ session[t].bytes <= session'[t].bytes
          /\ session'[t].bytes \in Int
    BY <1>1, <1>3 DEF SameNames, SessionsFit, SessionRow
  <2>2. WorkerFits'
    BY <1>2, <1>8, <2>1, WorkerKept
  <2> QED
    BY <1>3, <1>4, <1>5, <1>6, <1>7, <2>2 DEF AccountsInd
<1>9. CASE worker.at = "collect" /\ worker' = [worker EXCEPT !.todo = {}]
  <2>1. worker \in WorkerRow /\ worker.left \subseteq Sessions
    BY <1>1, <1>9 DEF WorkerFits
  <2>2. /\ (worker \in WorkerRow)' /\ worker'.at = "collect" /\ worker'.left \subseteq Sessions
        /\ worker'.todo = {}
    BY <1>9, <2>1 DEF WorkerRow, NativeRow, A!Samples, A!Protocols
  <2>3. WorkerFits'
    BY <2>2 DEF WorkerFits
  <2> QED
    BY <1>3, <1>4, <1>5, <1>6, <1>7, <2>3 DEF AccountsInd
<1> QED
  BY <1>8, <1>9

\* A hook is lost; only without failures all is counted.
LEMMA LoseHookStep ==
  ASSUME AccountsInd, failures \in Nat, NEW x \in flying, A!LoseHook(x)
  PROVE  AccountsInd'
<1>1. /\ UNCHANGED <<now, native, base, changes, account, user, usable, session, worker>>
      /\ failures' = failures + 1 /\ flying' = flying \ {x}
  BY DEF A!LoseHook, A!panel, A!Fault
<1>2. PanelFits /\ SessionsFit /\ A!UsageCountedOnce
  BY DEF AccountsInd
<1>3. OnlyCredited(session)
  BY <1>2, NothingCredited
<1>4. session' = A!Closed(session, {}) /\ flying' = (flying \ {x}) \cup A!Finals({})
  BY <1>1, <1>2 DEF SessionsFit, A!Closed, A!Finals
<1>5. native' \in [Clients -> NativeRow] /\ \A c \in Clients : native'[c].gen = native[c].gen
  BY <1>1, <1>2 DEF PanelFits
<1>6. A!UsageCountedOnce'
  BY <1>1, <1>2, CountKept DEF Ledgers
<1>7. {x} \in SUBSET flying /\ {} \in SUBSET Sessions /\ HooksCounted(session, {x})
  BY <1>1 DEF HooksCounted
<1> QED
  BY <1>1, <1>3, <1>4, <1>5, <1>6, <1>7, HookStep

\* A hook brings all bytes of its session.
LEMMA LandStep ==
  ASSUME AccountsInd, failures \in Nat, NEW x \in flying, A!Land(x)
  PROVE  AccountsInd'
<1>1. /\ A!Credit(x) /\ session' = A!Credited(x) /\ flying' = flying \ {x}
      /\ UNCHANGED <<now, base, changes, account, user, usable, worker, failures>>
  BY DEF A!Land
<1>2. SessionsFit
  BY DEF AccountsInd
<1>3. /\ x[1] \in Sessions /\ Opened(x[1]) /\ x[2] \in 0 .. MaxBytes
      /\ x[2] = session[x[1]].bytes /\ x[2] <= session[x[1]].bytes
  BY <1>2, AccountsAssumption DEF SessionsFit, A!Samples
<1> DEFINE f == A!Credited(x)
<1>4. /\ OnlyCredited(f)
      /\ native' \in [Clients -> NativeRow]
      /\ \A c \in Clients : native'[c].gen = native[c].gen
      /\ LET n == session[x[1]].name
         IN native[n[1]].gen = n[2] => x[2] <= f[x[1]].ledger
      /\ SameNames /\ (\A t \in Sessions : session'[t].ledger = f[t].ledger)
           => A!UsageCountedOnce'
  BY <1>1, <1>3, CreditStep
<1>5. session' = f /\ f \in [Sessions -> SessionRow]
  BY <1>1, <1>4 DEF OnlyCredited
<1> HIDE DEF f
<1>6. session' = A!Closed(f, {}) /\ flying' = (flying \ {x}) \cup A!Finals({})
  BY <1>1, <1>5 DEF A!Closed, A!Finals
<1>7. LET n == session[x[1]].name
      IN native[n[1]].gen = n[2] => f[x[1]].ledger = f[x[1]].bytes
  <2>1. /\ f[x[1]].bytes = session[x[1]].bytes /\ f[x[1]].ledger <= f[x[1]].bytes
        /\ f[x[1]].ledger \in Int /\ f[x[1]].bytes \in Int
    BY <1>3, <1>4 DEF OnlyCredited, SessionRow
  <2> QED
    BY <1>3, <1>4, <2>1
<1>8. {x} \in SUBSET flying /\ {} \in SUBSET Sessions /\ HooksCounted(f, {x})
  BY <1>7 DEF HooksCounted
<1> QED
  BY <1>1, <1>4, <1>6, <1>8, HookStep

\* The worker credits the sample it took, however old it is by now.
LEMMA CreditSampleStep ==
  ASSUME AccountsInd, failures \in Nat, NEW x \in worker.todo, A!CreditSample(x)
  PROVE  AccountsInd'
<1>1. PICK ss \in SUBSET Sessions :
        (\A t \in ss : session[t].live) /\ session' = A!Closed(A!Credited(x), ss)
        /\ flying' = flying \cup A!Finals(ss)
  <2> DEFINE s == x[1]
             n == session[s].name
             stays == A!Identity(n) /\ A!Permitted(native'[A!Client(n)])
             cut == IF session[s].way = "routeros6" /\ ~stays THEN A!Of(n, "routeros6") ELSE {}
  <2>1. session' = A!Closed(A!Credited(x), cut) /\ flying' = flying \cup A!Finals(cut)
    BY DEF A!CreditSample
  <2>2. cut \in SUBSET Sessions /\ \A t \in cut : session[t].live
    BY DEF A!Of
  <2> HIDE DEF cut
  <2> QED
    BY <2>1, <2>2
<1>2. /\ A!Credit(x) /\ worker.at = "collect" /\ worker' = [worker EXCEPT !.todo = {}]
      /\ UNCHANGED <<now, base, changes, account, user, usable, failures>>
  BY DEF A!CreditSample
<1>3. /\ x[1] \in Sessions /\ Opened(x[1]) /\ x[2] \in 0 .. MaxBytes
      /\ x[2] <= session[x[1]].bytes
  BY <1>2 DEF AccountsInd, WorkerFits, A!Samples
<1> DEFINE f == A!Credited(x)
<1>4. /\ OnlyCredited(f)
      /\ native' \in [Clients -> NativeRow]
      /\ \A c \in Clients : native'[c].gen = native[c].gen
      /\ SameNames /\ (\A t \in Sessions : session'[t].ledger = f[t].ledger)
           => A!UsageCountedOnce'
  BY <1>2, <1>3, CreditStep
<1>5. session' = A!Closed(f, ss)
  BY <1>1
<1> HIDE DEF f
<1>6. flying' = (flying \ {}) \cup A!Finals(ss) /\ {} \in SUBSET flying /\ HooksCounted(f, {})
  BY <1>1 DEF HooksCounted
<1> QED
  BY <1>1, <1>2, <1>4, <1>5, <1>6, HookStep

\* A step that leaves the sessions alone.
LEMMA QuietWorkerStep ==
  ASSUME AccountsInd, failures \in Nat, UNCHANGED <<now, native, base, changes, session, flying>>,
         failures' \in {failures, failures + 1}, UsersTyped', AccountsMoved, Moved
  PROVE  AccountsInd'
<1>1. A!End({}) /\ {} \in SUBSET Sessions
  BY QuietEnd DEF AccountsInd
<1> QED
  BY <1>1, WorkerStep

\* A session ends by itself.
LEMMA DisconnectStep ==
  ASSUME AccountsInd, failures \in Nat, NEW s \in Sessions, A!Disconnect(s)
  PROVE  AccountsInd'
<1>1. /\ session[s].live /\ A!End({s}) /\ {s} \in SUBSET Sessions
      /\ UNCHANGED <<now, native, base, changes, account, user, usable, worker, failures>>
  BY DEF A!Disconnect, A!panel
<1>2. UsersTyped' /\ AccountsMoved /\ Moved
  BY <1>1, UsersStay, AccountsStay, WorkerWaits
<1> QED
  BY <1>1, <1>2, WorkerStep

\* The worker begins its pass with the users that have expired.
LEMMA ExpireStep ==
  ASSUME AccountsInd, failures \in Nat, A!Expire
  PROVE  AccountsInd'
<1> DEFINE xs == A!Ended
           live == {s \in Sessions : session'[s].live}
<1>1. /\ usable' = A!Refused(xs) /\ user' = A!Off(xs) /\ A!End(A!Cut(xs))
      /\ worker' = [A!Resting EXCEPT !.at = "collect", !.left = live]
      /\ UNCHANGED <<now, native, base, changes, account, failures>>
  BY DEF A!Expire, A!panel
<1>2. UsersTyped' /\ AccountsMoved
  BY <1>1, UsersOff, UsersNow, AccountsStay DEF AccountsInd
<1>3. A!Cut(xs) \in SUBSET Sessions /\ \A t \in A!Cut(xs) : session[t].live
  BY CutsLive
<1>4. live \in SUBSET Sessions
  OBVIOUS
<1> HIDE DEF live, xs
<1>5. Moved
  <2>1. A!Resting \in WorkerRow /\ A!Resting.todo = {}
    BY RestFits DEF A!Resting
  <2>2. /\ worker' \in WorkerRow /\ worker'.at = "collect" /\ worker'.left = live
        /\ worker'.todo = {}
    BY <1>1, <1>4, <2>1 DEF WorkerRow
  <2> QED
    BY <1>4, <2>2 DEF Moved
<1> QED
  BY <1>1, <1>2, <1>3, <1>5, WorkerStep

\* The counters of a session are read; they only grow afterwards.
LEMMA SampleStep ==
  ASSUME AccountsInd, failures \in Nat, NEW s \in Sessions, A!Sample(s)
  PROVE  AccountsInd'
<1> DEFINE due == IF session[s].live THEN A!Finals({s}) ELSE {}
<1>1. /\ worker.at = "collect"
      /\ worker' = [worker EXCEPT !.left = worker.left \ {s}, !.todo = due]
      /\ UNCHANGED <<now, native, base, changes, account, user, usable, session, flying, failures>>
  <2>1. worker \in WorkerRow
    BY DEF AccountsInd, WorkerFits
  <2> QED
    BY <2>1 DEF A!Sample, A!panel, A!lines, WorkerRow
<1>2. UsersTyped' /\ AccountsMoved
  BY <1>1, UsersStay, AccountsStay
<1>3. /\ due \in SUBSET A!Samples
      /\ \A x \in due : Opened(x[1]) /\ x[2] <= session[x[1]].bytes
  <2>1. session[s] \in SessionRow /\ (session[s].live => Opened(s))
    BY DEF AccountsInd, SessionsFit, A!Unused
  <2> QED
    BY <2>1, AccountsAssumption DEF A!Finals, A!Samples, SessionRow
<1>4. worker \in WorkerRow /\ worker.left \subseteq Sessions
  BY <1>1 DEF AccountsInd, WorkerFits
<1> HIDE DEF due
<1>5. /\ worker' \in WorkerRow /\ worker'.at = "collect" /\ worker'.left \subseteq Sessions
      /\ worker'.todo = due
  BY <1>1, <1>3, <1>4 DEF WorkerRow
<1>6. Moved
  BY <1>3, <1>5 DEF Moved
<1> QED
  BY <1>1, <1>2, <1>6, QuietWorkerStep

\* The worker reads the panel's clients.
LEMMA ReadRowsStep ==
  ASSUME AccountsInd, failures \in Nat, A!ReadRows
  PROVE  AccountsInd'
<1> DEFINE those == {c \in Clients : native[c].gen # 0}
<1>1. /\ worker' = [worker EXCEPT !.at = "clients", !.snap = native, !.left = those]
      /\ UNCHANGED <<now, native, base, changes, account, user, usable, session, flying, failures>>
  BY DEF A!ReadRows, A!panel, A!lines
<1>2. UsersTyped' /\ AccountsMoved
  BY <1>1, UsersStay, AccountsStay
<1>3. worker \in WorkerRow /\ native \in [Clients -> NativeRow] /\ those \in SUBSET Clients
  BY DEF AccountsInd, WorkerFits, PanelFits
<1> HIDE DEF those
<1>4. /\ worker' \in WorkerRow /\ worker'.at = "clients" /\ worker'.left \subseteq Clients
      /\ worker'.snap = native
  BY <1>1, <1>3 DEF WorkerRow
<1>5. Moved
  BY <1>1, <1>4 DEF Moved
<1> QED
  BY <1>1, <1>2, <1>5, QuietWorkerStep

\* A user of a client that is gone is deleted.
LEMMA SweepStep ==
  ASSUME AccountsInd, failures \in Nat, NEW c \in Clients, NEW p \in A!Protocols, A!Sweep(c, p)
  PROVE  AccountsInd'
<1>1. PICK xs :
        /\ usable' = A!Refused(xs) /\ A!End(A!Cut(xs))
        /\ user' = [A!Off(A!Ended) EXCEPT ![A!NameOf(c)][p] = A!NoUser]
        /\ UNCHANGED <<now, native, base, changes, account, worker, failures>>
  BY DEF A!Sweep, A!panel
<1>2. A!NoUser \in UserRow
  BY DEF A!NoUser, UserRow
<1>3. UsersTyped /\ A!Off(A!Ended) \in [A!Names -> [A!Protocols -> UserRow]]
      /\ A!Refused(xs) \in [A!Names -> [A!Protocols -> BOOLEAN]]
  BY UsersOff DEF AccountsInd
<1>4. user' \in [A!Names -> [A!Protocols -> UserRow]]
  BY <1>1, <1>2, <1>3, PutTyped
<1>5. UsersTyped' /\ AccountsMoved /\ Moved
  BY <1>1, <1>3, <1>4, UsersNow, AccountsStay, WorkerWaits
<1>6. A!Cut(xs) \in SUBSET Sessions /\ \A t \in A!Cut(xs) : session[t].live
  BY CutsLive
<1> QED
  BY <1>1, <1>5, <1>6, WorkerStep

\* The account of a client that was not the panel's when its rows were read.
LEMMA ForgetStep ==
  ASSUME AccountsInd, failures \in Nat, NEW c \in Clients, A!Forget(c)
  PROVE  AccountsInd'
<1>1. /\ worker.at = "clients" /\ account[c].gen # 0 /\ worker.snap[c].gen # account[c].gen
      /\ account' = [account EXCEPT ![c] = [gen |-> 0, ready |-> FALSE]]
      /\ UNCHANGED <<now, native, base, changes, user, usable, session, flying, worker, failures>>
  BY DEF A!Forget, A!panel, A!lines, A!Stale
<1>2. account[c].gen # native[c].gen /\ account \in [Clients -> AccountRow]
  BY <1>1 DEF AccountsInd, WorkerFits, PanelFits
<1>3. [gen |-> 0, ready |-> FALSE] \in AccountRow
  BY AccountsAssumption DEF AccountRow
<1>4. AccountsMoved
  BY <1>1, <1>2, <1>3 DEF AccountsMoved
<1>5. UsersTyped' /\ Moved
  BY <1>1, UsersStay, WorkerWaits
<1> QED
  BY <1>1, <1>4, <1>5, QuietWorkerStep

\* The worker comes to the next client, whose account is made if there is none.
LEMMA TakeStep ==
  ASSUME AccountsInd, failures \in Nat, A!Take
  PROVE  AccountsInd'
<1>1. /\ worker.at = "clients" /\ worker.left # {}
      /\ account' = IF account[A!Current].gen # 0 THEN account
                    ELSE [account EXCEPT ![A!Current].gen = worker.snap[A!Current].gen]
      /\ worker' = [worker EXCEPT !.at = "client", !.todo = A!Protocols,
                                  !.want = A!Permitted(worker.snap[A!Current])]
      /\ UNCHANGED <<now, native, base, changes, user, usable, session, flying, failures>>
  BY DEF A!Take, A!panel, A!lines
<1>2. A!Current \in Clients /\ worker.snap[A!Current] \in NativeRow
  BY <1>1, AtClient
<1>3. account \in [Clients -> AccountRow] /\ worker \in WorkerRow /\ worker.left \subseteq Clients
  BY <1>1 DEF AccountsInd, PanelFits, WorkerFits
<1>4. AccountsMoved
  <2>1. CASE account[A!Current].gen # 0
    BY <1>1, <2>1, AccountsStay
  <2>2. CASE account[A!Current].gen = 0
    <3>1. /\ account' \in [Clients -> AccountRow]
          /\ account'[A!Current].gen = worker.snap[A!Current].gen
          /\ \A d \in Clients : d # A!Current => account'[d] = account[d]
      BY <1>1, <1>2, <1>3, <2>2 DEF AccountRow, NativeRow
    <3> QED
      BY <1>1, <2>2, <3>1 DEF AccountsMoved
  <2> QED
    BY <2>1, <2>2
<1>5. A!Permitted(worker.snap[A!Current]) \in BOOLEAN
  BY DEF A!Permitted
<1>6. /\ worker' \in WorkerRow /\ worker'.at = "client" /\ worker'.left = worker.left
      /\ worker'.snap = worker.snap
  BY <1>1, <1>3, <1>5 DEF WorkerRow
<1>7. Moved
  BY <1>1, <1>3, <1>6 DEF Moved
<1>8. UsersTyped'
  BY <1>1, UsersStay
<1> QED
  BY <1>1, <1>4, <1>7, <1>8, QuietWorkerStep

\* One protocol of the client is done with.
LEMMA DoneWith ==
  ASSUME AccountsInd, worker.at = "client", NEW p, worker' = [worker EXCEPT !.todo = @ \ {p}]
  PROVE  Moved
<1>1. worker \in WorkerRow /\ worker.left \subseteq Clients /\ worker.left # {}
  BY DEF AccountsInd, WorkerFits
<1>2. /\ worker' \in WorkerRow /\ worker'.at = "client" /\ worker'.left = worker.left
      /\ worker'.snap = worker.snap
  BY <1>1 DEF WorkerRow
<1> QED
  BY <1>1, <1>2 DEF Moved

\* A user is made what its client may have.
LEMMA HandleStep ==
  ASSUME AccountsInd, failures \in Nat, NEW p \in A!Protocols, A!Handle(p)
  PROVE  AccountsInd'
<1>1. PICK xs :
        /\ worker.at = "client"
        /\ user' = [A!Off(A!Ended) EXCEPT ![A!NameOf(A!Current)][p] = A!Wish]
        /\ usable' = [A!Refused(A!Ended) EXCEPT ![A!NameOf(A!Current)][p] =
                        A!Enabled(A!NameOf(A!Current), p)]
        /\ A!End(A!Cut(xs)) /\ worker' = [worker EXCEPT !.todo = @ \ {p}]
        /\ UNCHANGED <<now, native, base, changes, account, failures>>
  BY DEF A!Handle, A!Busy, A!panel
<1>2. worker.left # {}
  BY <1>1 DEF AccountsInd, WorkerFits
<1>3. A!Wish \in UserRow
  BY <1>1, <1>2, AtClient
<1>4. UsersTyped /\ A!Off(A!Ended) \in [A!Names -> [A!Protocols -> UserRow]]
      /\ A!Refused(A!Ended) \in [A!Names -> [A!Protocols -> BOOLEAN]]
  BY UsersOff DEF AccountsInd
<1>5. user' \in [A!Names -> [A!Protocols -> UserRow]]
  BY <1>1, <1>3, <1>4, PutTyped
<1>6. A!Enabled(A!NameOf(A!Current), p) \in BOOLEAN
  BY DEF A!Enabled
<1>7. usable' \in [A!Names -> [A!Protocols -> BOOLEAN]]
  BY <1>1, <1>4, <1>6, PutTyped
<1>8. UsersTyped' /\ AccountsMoved /\ Moved
  BY <1>1, <1>5, <1>7, UsersNow, AccountsStay, DoneWith
<1>9. A!Cut(xs) \in SUBSET Sessions /\ \A t \in A!Cut(xs) : session[t].live
  BY CutsLive
<1> QED
  BY <1>1, <1>8, <1>9, WorkerStep

\* A user is left as it is.
LEMMA KeepStep ==
  ASSUME AccountsInd, failures \in Nat, NEW p \in A!Protocols, A!Keep(p)
  PROVE  AccountsInd'
<1>1. /\ worker.at = "client" /\ worker' = [worker EXCEPT !.todo = @ \ {p}]
      /\ UNCHANGED <<now, native, base, changes, account, user, usable, session, flying, failures>>
  BY DEF A!Keep, A!Busy, A!panel, A!lines
<1>2. UsersTyped' /\ AccountsMoved /\ Moved
  BY <1>1, UsersStay, AccountsStay, DoneWith
<1> QED
  BY <1>1, <1>2, QuietWorkerStep

\* A user that cannot be enabled ends the pass.
LEMMA RefuseStep ==
  ASSUME AccountsInd, failures \in Nat, NEW p \in A!Protocols, A!Refuse(p)
  PROVE  AccountsInd'
<1>1. /\ user' = A!Off(A!Ended) /\ usable' = A!Refused(A!Ended) /\ A!End(A!Cut(A!Ended))
      /\ account' = [account EXCEPT ![A!Current].ready = FALSE] /\ worker' = A!Resting
      /\ UNCHANGED <<now, native, base, changes, failures>>
  BY DEF A!Refuse, A!Unready, A!Abort, A!panel
<1>2. UsersTyped'
  BY <1>1, UsersOff, UsersNow DEF AccountsInd
<1>3. AccountsMoved /\ Moved
  BY <1>1, ReadyMoved, WorkerRests
<1>4. A!Cut(A!Ended) \in SUBSET Sessions /\ \A t \in A!Cut(A!Ended) : session[t].live
  BY CutsLive
<1> QED
  BY <1>1, <1>2, <1>3, <1>4, WorkerStep

\* A client is done with.
LEMMA ClientDoneStep ==
  ASSUME AccountsInd, failures \in Nat, A!ClientDone
  PROVE  AccountsInd'
<1>1. /\ worker.at = "client"
      /\ account' = [account EXCEPT ![A!Current].ready = TRUE]
      /\ UNCHANGED <<now, native, base, changes, user, usable, session, flying, failures>>
      /\ \/ worker' = A!Resting
         \/ worker' = [worker EXCEPT !.at = "clients", !.left = @ \ {A!Current}]
  BY DEF A!ClientDone, A!panel, A!lines
<1>2. UsersTyped' /\ AccountsMoved
  BY <1>1, UsersStay, ReadyMoved
<1>3. CASE worker' = A!Resting
  BY <1>1, <1>2, <1>3, WorkerRests, QuietWorkerStep
<1>4. CASE worker' = [worker EXCEPT !.at = "clients", !.left = @ \ {A!Current}]
  <2>1. worker \in WorkerRow /\ worker.left \subseteq Clients
    BY <1>1 DEF AccountsInd, WorkerFits
  <2>2. /\ worker' \in WorkerRow /\ worker'.at = "clients" /\ worker'.left \subseteq Clients
        /\ worker'.snap = worker.snap
    BY <1>4, <2>1 DEF WorkerRow
  <2>3. Moved
    BY <1>1, <2>2 DEF Moved
  <2> QED
    BY <1>1, <1>2, <2>3, QuietWorkerStep
<1> QED
  BY <1>1, <1>3, <1>4

\* There is no client left.
LEMMA NoClientsStep ==
  ASSUME AccountsInd, failures \in Nat, A!NoClients
  PROVE  AccountsInd'
<1>1. /\ worker' = A!Resting
      /\ UNCHANGED <<now, native, base, changes, account, user, usable, session, flying, failures>>
  BY DEF A!NoClients, A!Abort, A!panel, A!lines
<1> QED
  BY <1>1, UsersStay, AccountsStay, WorkerRests, QuietWorkerStep

\* A command fails in the middle of a change.
LEMMA BreakStep ==
  ASSUME AccountsInd, failures \in Nat, NEW p \in A!Protocols, A!Break(p)
  PROVE  AccountsInd'
<1>1. /\ worker.at = "client" /\ worker' = A!Resting
      /\ usable' \in {usable, [usable EXCEPT ![A!NameOf(A!Current)][p] = worker.want]}
      /\ user' \in {user, [user EXCEPT ![A!NameOf(A!Current)][p] = A!Wish]}
      /\ account' = [account EXCEPT ![A!Current].ready = FALSE] \/ UNCHANGED account
      /\ failures' = failures + 1
      /\ UNCHANGED <<now, native, base, changes, session, flying>>
  BY DEF A!Break, A!Busy, A!Unready, A!Abort, A!Fault, A!panel, A!lines
<1>2. worker.left # {} /\ worker.want \in BOOLEAN
  BY <1>1 DEF AccountsInd, WorkerFits, WorkerRow
<1>3. A!Wish \in UserRow
  BY <1>1, <1>2, AtClient
<1>4. user' \in [A!Names -> [A!Protocols -> UserRow]]
  <2>1. user \in [A!Names -> [A!Protocols -> UserRow]]
    BY DEF AccountsInd, UsersTyped
  <2>2. [user EXCEPT ![A!NameOf(A!Current)][p] = A!Wish] \in [A!Names -> [A!Protocols -> UserRow]]
    BY <1>3, <2>1, PutTyped
  <2> QED
    BY <1>1, <2>1, <2>2
<1>5. usable' \in [A!Names -> [A!Protocols -> BOOLEAN]]
  <2>1. usable \in [A!Names -> [A!Protocols -> BOOLEAN]]
    BY DEF AccountsInd, UsersTyped
  <2>2. [usable EXCEPT ![A!NameOf(A!Current)][p] = worker.want]
          \in [A!Names -> [A!Protocols -> BOOLEAN]]
    BY <1>2, <2>1, PutTyped
  <2> QED
    BY <1>1, <2>1, <2>2
<1>6. UsersTyped' /\ AccountsMoved /\ Moved
  BY <1>1, <1>4, <1>5, UsersNow, AccountsStay, ReadyMoved, WorkerRests
<1> QED
  BY <1>1, <1>6, QuietWorkerStep

\* A command fails while users expire.
LEMMA BreakExpireStep ==
  ASSUME AccountsInd, failures \in Nat, A!BreakExpire
  PROVE  AccountsInd'
<1>1. PICK xs :
        /\ usable' = A!Refused(xs) /\ failures' = failures + 1
        /\ UNCHANGED <<now, native, base, changes, account, user, session, flying, worker>>
  BY DEF A!BreakExpire, A!Fault, A!panel, A!lines
<1>2. UsersTyped'
  BY <1>1, UsersOff, UsersNow DEF AccountsInd, UsersTyped
<1>3. AccountsMoved /\ Moved
  BY <1>1, AccountsStay, WorkerWaits
<1> QED
  BY <1>1, <1>2, <1>3, QuietWorkerStep

\* The pass fails.
LEMMA FailStep ==
  ASSUME AccountsInd, failures \in Nat, A!Fail
  PROVE  AccountsInd'
<1>1. /\ worker' = A!Resting /\ failures' = failures + 1
      /\ UNCHANGED <<now, native, base, changes, account, user, usable, session, flying>>
  BY DEF A!Fail, A!Fault, A!Abort, A!panel, A!lines
<1> QED
  BY <1>1, UsersStay, AccountsStay, WorkerRests, QuietWorkerStep

-----------------------------------------------------------------------------
\* The invariant holds before the first client.
LEMMA AccountsStart == A!Init => AccountsInd
<1> SUFFICES ASSUME A!Init PROVE AccountsInd
  OBVIOUS
<1>1. /\ now = 1 /\ native = A!NoSnap /\ base = [c \in Clients |-> 0] /\ changes = 0
      /\ account = [c \in Clients |-> [gen |-> 0, ready |-> FALSE]]
      /\ user = [n \in A!Names |-> [p \in A!Protocols |-> A!NoUser]]
      /\ usable = [n \in A!Names |-> [p \in A!Protocols |-> FALSE]]
      /\ session = [s \in Sessions |-> A!Unused] /\ flying = {} /\ worker = A!Resting
  BY DEF A!Init
<1>2. A!NoClient \in NativeRow /\ A!NoClient.gen = 0 /\ [gen |-> 0, ready |-> FALSE] \in AccountRow
  BY AccountsAssumption DEF A!NoClient, NativeRow, AccountRow
<1>3. PanelFits
  BY <1>1, <1>2, AccountsAssumption DEF PanelFits, A!NoSnap
<1>4. A!NoUser \in UserRow
  BY DEF A!NoUser, UserRow
<1>5. UsersTyped
  BY <1>1, <1>4 DEF UsersTyped
<1>6. A!Unused \in SessionRow /\ A!Unused.name = <<0, 0>> /\ A!Unused.ledger = A!Unused.bytes
      /\ A!Unused.ledger = 0
  BY AccountsAssumption DEF A!Unused, SessionRow
<1>7. \A s \in Sessions : session[s] = A!Unused /\ ~Opened(s)
  BY <1>1, <1>6 DEF Opened
<1>8. SessionsFit
  <2>1. session \in [Sessions -> SessionRow]
    BY <1>1, <1>6
  <2>2. changes = 0 /\ <<0, 0>>[2] <= 0 /\ 0 <= 0
    BY <1>1
  <2> QED
    BY <1>1, <1>6, <1>7, <2>1, <2>2 DEF SessionsFit
<1>9. RowsKept /\ AllSettled
  BY <1>7 DEF RowsKept, AllSettled
<1>10. WorkerFits
  BY <1>1, RestFits DEF WorkerFits, A!Resting
<1>11. A!UsageCountedOnce
  BY <1>1 DEF A!UsageCountedOnce, A!NoSnap, A!NoClient
<1> QED
  BY <1>3, <1>5, <1>8, <1>9, <1>10, <1>11 DEF AccountsInd

\* Every step of the accounts, the panel and the sessions keeps the invariant.
LEMMA AccountsStep == AccountsInd /\ failures \in Nat /\ A!Next => AccountsInd'
<1> SUFFICES ASSUME AccountsInd, failures \in Nat, A!Next PROVE AccountsInd'
  OBVIOUS
<1>1. CASE A!Pass
  <2>1. CASE A!Expire \/ A!ReadRows \/ A!Take \/ A!ClientDone \/ A!NoClients
    BY <2>1, ExpireStep, ReadRowsStep, TakeStep, ClientDoneStep, NoClientsStep
  <2>2. CASE \E c \in Clients : A!Forget(c) \/ \E p \in A!Protocols : A!Sweep(c, p)
    BY <2>2, ForgetStep, SweepStep
  <2>3. CASE \E p \in A!Protocols : A!Handle(p) \/ A!Keep(p) \/ A!Refuse(p)
    BY <2>3, HandleStep, KeepStep, RefuseStep
  <2>4. CASE (\E s \in Sessions : A!Sample(s)) \/ \E x \in worker.todo : A!CreditSample(x)
    BY <2>4, SampleStep, CreditSampleStep
  <2> QED
    BY <1>1, <2>1, <2>2, <2>3, <2>4 DEF A!Pass
<1>2. CASE A!Fail \/ A!Tick \/ A!BreakExpire \/ \E p \in A!Protocols : A!Break(p)
  BY <1>2, FailStep, TickStep, BreakExpireStep, BreakStep
<1>3. CASE \E c \in Clients : A!AddClient(c) \/ A!DeleteClient(c) \/ A!Switch(c) \/ A!Renew(c)
  BY <1>3, PanelActs
<1>4. CASE \E s \in Sessions : A!Connect(s) \/ A!Transfer(s) \/ A!Disconnect(s)
  BY <1>4, ConnectStep, TransferStep, DisconnectStep
<1>5. CASE \E x \in flying : A!Land(x) \/ A!LoseHook(x)
  BY <1>5, LandStep, LoseHookStep
<1> QED
  BY <1>1, <1>2, <1>3, <1>4, <1>5 DEF A!Next

\* Only a failure is counted as one.
LEMMA AccountsFailures == A!Next => UNCHANGED failures \/ A!Fault
  BY DEF A!Next, A!Pass, A!Expire, A!ReadRows, A!Take, A!ClientDone, A!NoClients, A!Forget, A!Sweep,
     A!Handle, A!Keep, A!Refuse, A!Sample, A!CreditSample, A!Fail, A!Tick, A!BreakExpire, A!Break,
     A!AddClient, A!DeleteClient, A!Switch, A!Renew, A!Connect, A!Transfer, A!Disconnect, A!Land,
     A!LoseHook, A!Others

\* What the invariant says of the properties.
LEMMA AccountsMean ==
  AccountsInd /\ failures \in 0 .. MaxFailures => A!TypeOK /\ A!UsageCountedOnce /\ A!AllCounted
<1> SUFFICES ASSUME AccountsInd, failures \in 0 .. MaxFailures
             PROVE  A!TypeOK /\ A!UsageCountedOnce /\ A!AllCounted
  OBVIOUS
<1>0. PanelFits /\ UsersTyped /\ SessionsFit /\ WorkerFits /\ AllSettled
  BY DEF AccountsInd
<1>1. \A c \in Clients : /\ native[c].gen \in 0 .. MaxChanges /\ native[c].used >= 0
                         /\ account[c].gen \in 0 .. MaxChanges
  BY <1>0 DEF PanelFits, NativeRow, AccountRow
<1>2. \A n \in A!Names, p \in A!Protocols : user[n][p].state \in {"none", "on", "off"}
  BY <1>0 DEF UsersTyped, UserRow
<1>3. worker.at \in {"rest", "collect", "clients", "client"}
  BY <1>0 DEF WorkerFits, WorkerRow
<1>4. A!TypeOK
  BY <1>0, <1>1, <1>2, <1>3 DEF A!TypeOK, PanelFits, UsersTyped, SessionsFit, WorkerFits
<1>5. ASSUME NEW s \in Sessions, session[s] # A!Unused, ~session[s].live, failures = 0,
             \A x \in flying : x[1] # s, A!Row(session[s].name) # A!NoClient
      PROVE  session[s].ledger = session[s].bytes
  <2>1. Opened(s)
    BY <1>0, <1>5 DEF SessionsFit
  <2>2. native[session[s].name[1]].gen = session[s].name[2]
    BY <1>0, <1>5, <2>1, NameOfOpened, RowFound
  <2> QED
    BY <1>0, <1>5, <2>1, <2>2 DEF AllSettled
<1>6. A!AllCounted
  BY <1>5 DEF A!AllCounted
<1> QED
  BY <1>4, <1>6 DEF AccountsInd

-----------------------------------------------------------------------------
(* The services together.                                                    *)

\* A service keeps its invariant while another one runs.
LEMMA FilmsKept == FilmsInd /\ UNCHANGED films => FilmsInd'
  BY DEF FilmsInd, films, FilmsTyped, LoopFits, JobInHand, TriesLeft, F!AnnouncedOnce, F!FileServed,
     F!JobStates, F!Episodes, F!Titles, F!Nothing, F!Complete

\* The same for the catalogue.
LEMMA CatalogueKept == CatalogueInd /\ UNCHANGED catalogue => CatalogueInd'
  BY DEF CatalogueInd, catalogue, CatalogueTyped, ListFits, BatchFits, MidStaged, UnseenIsEmpty,
     C!QueuedIsStaged, C!Settled, C!ProcStates, C!Unseen, C!Works, EntryStates, RunType, ProcType,
     RunIds, Counts, Batches, Results

\* The same for music.
LEMMA MusicKept == MusicInd /\ UNCHANGED music => MusicInd'
  BY DEF MusicInd, music, MusicTyped, InHand, NoneForgotten, AttemptsLeft, AnnouncedIsDone,
     LinksFit, ItemHasSource, M!ClaimedByOne, M!NoLinkShown, M!HiddenIsQueued, QueueRow, MusicRow, CoverRow, ThreadRow, M!QueueStates

\* A failure elsewhere only makes AllCounted say less.
LEMMA AccountsKept ==
  AccountsInd /\ UNCHANGED accounts /\ failures \in Nat /\ failures' \in {failures, failures + 1}
    => AccountsInd'
<1> SUFFICES ASSUME AccountsInd, UNCHANGED accounts, failures \in Nat,
                    failures' \in {failures, failures + 1}
             PROVE  AccountsInd'
  OBVIOUS
<1>1. UNCHANGED <<now, native, base, account, user, usable, session, flying, worker, changes>>
  BY DEF accounts
<1>2. UsersTyped' /\ AccountsMoved /\ Moved
  BY <1>1, UsersStay, AccountsStay, WorkerWaits
<1> QED
  BY <1>1, <1>2, QuietWorkerStep

ServicesInd ==
  /\ failures \in 0 .. MaxFailures
  /\ FilmsInd /\ CatalogueInd /\ MusicInd /\ AccountsInd

\* All services start within their invariants.
LEMMA ServicesStart == ServicesInit => ServicesInd
<1> SUFFICES ASSUME ServicesInit PROVE ServicesInd
  OBVIOUS
<1>1. F!Init /\ C!Init /\ A!Init /\ M!Init
  BY DEF ServicesInit
<1>2. failures \in 0 .. MaxFailures
  BY <1>1, FailuresAssumption DEF F!Init
<1> QED
  BY <1>1, <1>2, FilmsStart, CatalogueStart, MusicStart, AccountsStart DEF ServicesInd

\* Failures are counted up to their bound, whichever service they befall.
LEMMA FailuresStep ==
  ASSUME failures \in 0 .. MaxFailures, F!Next \/ C!Next \/ M!Next \/ A!Next
  PROVE  failures' \in 0 .. MaxFailures /\ failures' \in {failures, failures + 1}
<1>1. UNCHANGED failures \/ (failures < MaxFailures /\ failures' = failures + 1)
  BY FilmsFailures, CatalogueFailures, MusicFailures, AccountsFailures
     DEF F!Fault, C!Fault, M!Fault, A!Fault
<1> QED
  BY <1>1, FailuresAssumption

\* A step of one service keeps the invariants of all.
LEMMA ServicesStep == ServicesInd /\ [ServicesNext]_services => ServicesInd'
<1> SUFFICES ASSUME ServicesInd, [ServicesNext]_services PROVE ServicesInd'
  OBVIOUS
<1>0. /\ failures \in 0 .. MaxFailures /\ failures \in Nat
      /\ FilmsInd /\ CatalogueInd /\ MusicInd /\ AccountsInd
  BY FailuresAssumption DEF ServicesInd
<1>1. CASE F!Next /\ UNCHANGED <<catalogue, music, accounts>>
  <2>1. failures' \in 0 .. MaxFailures /\ failures' \in {failures, failures + 1}
    BY <1>0, <1>1, FailuresStep
  <2>2. FilmsInd' /\ CatalogueInd' /\ MusicInd' /\ AccountsInd'
    BY <1>0, <1>1, <2>1, FilmsStep, CatalogueKept, MusicKept, AccountsKept
  <2> QED
    BY <2>1, <2>2 DEF ServicesInd
<1>2. CASE C!Next /\ UNCHANGED <<films, music, accounts>>
  <2>1. failures' \in 0 .. MaxFailures /\ failures' \in {failures, failures + 1}
    BY <1>0, <1>2, FailuresStep
  <2>2. FilmsInd' /\ CatalogueInd' /\ MusicInd' /\ AccountsInd'
    BY <1>0, <1>2, <2>1, FilmsKept, CatalogueStep, MusicKept, AccountsKept
  <2> QED
    BY <2>1, <2>2 DEF ServicesInd
<1>3. CASE M!Next /\ UNCHANGED <<films, catalogue, accounts>>
  <2>1. failures' \in 0 .. MaxFailures /\ failures' \in {failures, failures + 1}
    BY <1>0, <1>3, FailuresStep
  <2>2. FilmsInd' /\ CatalogueInd' /\ MusicInd' /\ AccountsInd'
    BY <1>0, <1>3, <2>1, FilmsKept, CatalogueKept, MusicStep, AccountsKept
  <2> QED
    BY <2>1, <2>2 DEF ServicesInd
<1>4. CASE A!Next /\ UNCHANGED <<films, catalogue, music>>
  <2>1. failures' \in 0 .. MaxFailures /\ failures' \in {failures, failures + 1}
    BY <1>0, <1>4, FailuresStep
  <2>2. FilmsInd' /\ CatalogueInd' /\ MusicInd' /\ AccountsInd'
    BY <1>0, <1>4, <2>1, FilmsKept, CatalogueKept, MusicKept, AccountsStep
  <2> QED
    BY <2>1, <2>2 DEF ServicesInd
<1>5. CASE UNCHANGED services
  <2>1. UNCHANGED <<failures, films, catalogue, music, accounts>>
    BY <1>5 DEF services
  <2>2. FilmsInd' /\ CatalogueInd' /\ MusicInd' /\ AccountsInd'
    BY <1>0, <2>1, FilmsKept, CatalogueKept, MusicKept, AccountsKept
  <2> QED
    BY <1>0, <2>1, <2>2 DEF ServicesInd
<1> QED
  BY <1>1, <1>2, <1>3, <1>4, <1>5 DEF ServicesNext

\* The invariants of the services say what the runs check.
LEMMA ServicesMean == ServicesInd => ImportInv /\ UsageCounted
<1> SUFFICES ASSUME ServicesInd PROVE ImportInv /\ UsageCounted
  OBVIOUS
<1>1. F!TypeOK /\ F!AnnouncedOnce /\ F!FileServed
  BY FilmsMean DEF ServicesInd
<1>2. C!TypeOK /\ C!QueuedIsStaged
  BY CatalogueMean DEF ServicesInd
<1>3. M!TypeOK /\ M!ClaimedByOne /\ M!AnnouncedOnce /\ M!NoLinkShown /\ M!HiddenIsQueued
  BY MusicMean DEF ServicesInd
<1>4. A!TypeOK /\ A!UsageCountedOnce /\ A!AllCounted
  BY AccountsMean DEF ServicesInd
<1> QED
  BY <1>1, <1>2, <1>3, <1>4 DEF ImportInv, ServicesTypes, UsageCounted

\* The invariant holds in every behaviour.
LEMMA ServicesHold == ServicesSpec => []ServicesInd
  BY ServicesStart, ServicesStep, PTL DEF ServicesSpec

\* Whatever the workers of the imports are killed at, an episode or a piece of music is
\* announced at most once and served as a file that was imported, no article is uploaded
\* by two threads, no page of the catalogue is settled before its films are staged, and
\* links of the former importer of music, once hidden, are not shown again until they are
\* imported (film_importer.py, film_catalog.py, rozmusic_importer.py).
THEOREM ServicesImport == ServicesSpec => []ImportInv
  BY ServicesHold, ServicesMean, PTL

\* The panel shows each client the traffic of its own sessions exactly once, and all of
\* it when they have ended without a failure (unified.py, manager.py, routeros6.py).
THEOREM ServicesUsage == ServicesSpec => []UsageCounted
  BY ServicesHold, ServicesMean, PTL

\* A film that an administrator removed is not shown again by anything the importer does
\* afterwards (film_importer.py).
THEOREM ServicesRemoved == ServicesSpec => FilmRemovedStays
<1> DEFINE Stays == \A e \in F!Episodes : episode[e].status = "removed" => episode'[e] = episode[e]
<1>1. ServicesInd /\ [ServicesNext]_services => [Stays]_F!vars
  <2> SUFFICES ASSUME ServicesInd, [ServicesNext]_services PROVE Stays
    OBVIOUS
  <2>1. CASE F!Next
    BY <2>1, RemovedStep DEF ServicesInd
  <2>2. CASE UNCHANGED films
    BY <2>2 DEF films
  <2> QED
    BY <2>1, <2>2 DEF ServicesNext, services
<1> QED
  BY <1>1, ServicesHold, PTL DEF ServicesSpec, FilmRemovedStays, F!RemovedStays
=============================================================================
