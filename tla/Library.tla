------------------------------- MODULE Library -------------------------------
(***************************************************************************)
(* The media library (runtime/media_library.py): submissions of music and  *)
(* films, playlists, votes, reports, and the loyalty points and notices    *)
(* they bring (runtime/social.py).                                         *)
(*                                                                         *)
(* A submission is a draft whose owner answers one question after another; *)
(* the buttons of earlier questions stay in his chat.  Handlers run in one *)
(* transaction each, and one that raises ValueError changes nothing: such  *)
(* a condition is a guard.  The optional fields of a draft are Steps many, *)
(* its cover is field 0.  Comments, visits and the contents are left out.  *)
(***************************************************************************)
EXTENDS Integers, FiniteSets, Functions

CONSTANTS
  Users, Nobody,
  Music, Films, Lists,   \* what may be submitted: files by their Telegram ids, playlists
  Links,                 \* those of the files that are addresses on the web
  Steps,                 \* number of optional fields
  Audience,              \* u -> the followers a publication of u is announced to
  FieldPoints, PostPoints, LikePoints,   \* media_settings
  FieldCap, PostCap, LikeCap,            \* per day: 30, 50 and 20
  Authors,               \* bound: the users who submit files and lists
  MaxActs                \* bound: votes, reports, invitations, switches and days in all

VARIABLES
  item,       \* rows of media_items and playlists
  prompt,     \* users.state
  broadcast,  \* kinds whose publication is announced to everybody
  notices,    \* rows of the outbox that announce a publication
  members,    \* <<list, user>>: who accepted an invitation
  entries,    \* <<list, file>>
  likes,      \* <<user, item>>: media_likes and playlist_likes
  reactions,  \* [by, on, vote]: social_reactions
  reports,    \* [by, on, status]
  ledger,     \* rows of loyalty_points; ref is unique
  day, acts

vars == <<item, prompt, broadcast, notices, members, entries, likes, reactions, reports,
          ledger, day, acts>>

Files == Music \cup Films
Items == Files \cup Lists
NoItem == [owner |-> Nobody, status |-> "none", type |-> "", season |-> FALSE, episode |-> FALSE,
           marked |-> {}]
Quiet == <<"", Nobody, 0>>

Init ==
  /\ item = [i \in Items |-> NoItem]
  /\ prompt = [u \in Users |-> Quiet]
  /\ broadcast = {}
  /\ notices = {} /\ members = {} /\ entries = {} /\ likes = {} /\ reactions = {} /\ reports = {}
  /\ ledger = {} /\ day = 0 /\ acts = 0

Kind(f) == IF f \in Music THEN "music" ELSE item[f].type
Owns(u, f) == item[f].owner = u /\ item[f].status # "removed"
Draft(u, f) == item[f].owner = u /\ item[f].status = "draft"
Published(i) == item[i].status = "published"
Asked(u, at) == prompt[u][1] = at
About(u) == prompt[u][2]
Say(u, p) == prompt' = [prompt EXCEPT ![u] = p]
MinOf(a, b) == IF a < b THEN a ELSE b
Acted == acts < MaxActs /\ acts' = acts + 1

(***************************************************************************)
(* Points.                                                                 *)
(***************************************************************************)
Rows(u, kinds, d) == {r \in ledger : r.to = u /\ r.kind \in kinds /\ r.day = d}
Earned(u, kinds, d) == SumFunctionOnSet([r \in ledger |-> r.points], Rows(u, kinds, d))
Left(u, kinds, cap) == cap - Earned(u, kinds, day)

\* The row an award adds: none for no points or for a reference used before.
\* Mutant of Award: a reference may be used again on another day.
AwardAgain(u, points, kind, ref) ==
  {r \in {[to |-> u, points |-> points, kind |-> kind, ref |-> ref, day |-> day]} : points > 0}
Award(u, points, kind, ref) ==
  {r \in {[to |-> u, points |-> points, kind |-> kind, ref |-> ref, day |-> day]} :
     points > 0 /\ \A old \in ledger : old.ref # ref}

\* The points of all the fields of f, in one row; in the code one per field.
\* Mutant of FieldReward: the cap is looked at once, before the first field.
FieldRewardAll(u, f, fields) ==
  IF Left(u, {"media_metadata"}, FieldCap) <= 0 THEN {}
  ELSE Award(u, Cardinality(fields) * FieldPoints, "media_metadata", <<"metadata", f>>)
FieldReward(u, f, fields) ==
  Award(u, MinOf(Cardinality(fields) * FieldPoints, Left(u, {"media_metadata"}, FieldCap)),
        "media_metadata", <<"metadata", f>>)
PostReward(u, i) ==
  Award(u, MinOf(PostPoints, Left(u, {"social_post"}, PostCap)), "social_post", <<"post", i>>)
\* A like of a file or list, with the button, and one of a profile.
LikeReward(u, by, i) ==
  Award(u, MinOf(LikePoints, Left(u, {"media_like"}, LikeCap)), "media_like", <<"liked", i, by>>)
VoteReward(u, by) ==
  Award(u, MinOf(LikePoints, Left(u, {"social_like", "media_like"}, LikeCap)),
        "social_like", <<"liked", u, by>>)

(***************************************************************************)
(* Submissions.                                                            *)
(***************************************************************************)
Question(f, row, k) ==
  IF f \in Films /\ row.type = "" THEN <<"type", f, 0>>
  ELSE IF row.type = "series" /\ ~row.season THEN <<"season", f, 0>>
  ELSE IF row.type = "series" /\ ~row.episode THEN <<"episode", f, 0>>
  ELSE IF k > Steps THEN <<"cover", f, 0>>
  ELSE <<"meta", f, k>>

Unheard == UNCHANGED <<notices, ledger>>
Rest == UNCHANGED <<broadcast, members, entries, likes, reactions, reports, day, acts>>
Ask(u, f, row, k) == item' = [item EXCEPT ![f] = row] /\ Say(u, Question(f, row, k)) /\ Unheard /\ Rest

\* A file arrives while no question is open, or the one for a file: new, or a draft of the same owner taken up again.  One that
\* was submitted before, also if it was removed since, is refused.
Accept(u, f) ==
  /\ u \in Authors /\ Asked(u, "")
  /\ \/ item[f].status = "none" /\ Ask(u, f, [NoItem EXCEPT !.owner = u, !.status = "draft"], 1)
     \/ Draft(u, f) /\ Ask(u, f, item[f], 1)

ChooseType(u, f, t) ==
  /\ f \in Films /\ Draft(u, f)
  /\ Ask(u, f, [item[f] EXCEPT !.type = t, !.season = FALSE, !.episode = FALSE], 1)

\* The number of the season or the episode; the latter is put off while there
\* is no season.
GiveNumber(u) ==
  \E f \in Films :
    /\ About(u) = f /\ Draft(u, f) /\ item[f].type = "series"
    /\ \/ Asked(u, "season") /\ Ask(u, f, [item[f] EXCEPT !.season = TRUE], 1)
       \/ Asked(u, "episode") /\ Ask(u, f, [item[f] EXCEPT !.episode = item[f].season], 1)

FillField(u) ==
  \E f \in Files :
    /\ Asked(u, "meta") /\ About(u) = f /\ Draft(u, f)
    /\ Ask(u, f, [item[f] EXCEPT !.marked = @ \cup {prompt[u][3]}], prompt[u][3] + 1)

\* Buttons of this and of earlier questions.
Skip(u, f, k) == Draft(u, f) /\ Ask(u, f, item[f], k + 1)
Finish(u, f) == Owns(u, f) /\ Ask(u, f, item[f], Steps + 1)

\* To everybody, unless it is an address on the web, which cannot be sent as a
\* file; to the followers, unless the switch says everybody.
Announced(f) ==
  {[to |-> v, on |-> f, why |-> "broadcast"] : v \in {w \in Users : Kind(f) \in broadcast /\ f \notin Links}}
Followed(u, f) ==
  {[to |-> v, on |-> f, why |-> "follow"] : v \in {w \in Audience[u] : Kind(f) \notin broadcast}}

Ready(f) ==
  f \in Films => item[f].type = "movie" \/ (item[f].type = "series" /\ item[f].season /\ item[f].episode)

Publish(u, f, fields) ==
  LET row == [item[f] EXCEPT !.marked = fields]
  IN  IF Ready(f)
      THEN /\ item' = [item EXCEPT ![f] = [row EXCEPT !.status = "published"]]
           /\ notices' = notices \cup Announced(f) \cup Followed(u, f)
           /\ ledger' = ledger \cup FieldReward(u, f, fields) \cup PostReward(u, f)
           /\ Say(u, Quiet) /\ Rest
      ELSE Ask(u, f, row, 1)

PublishPlain(u, f) == Draft(u, f) /\ Publish(u, f, item[f].marked)
SendCover(u) ==
  \E f \in Files :
    Asked(u, "cover") /\ About(u) = f /\ Draft(u, f) /\ Publish(u, f, item[f].marked \cup {0})

Gone(i) == item' = [item EXCEPT ![i].status = "removed"]
Cancel(u, f) ==
  /\ Owns(u, f)
  /\ IF item[f].status = "draft" THEN Gone(f) ELSE UNCHANGED item
  /\ Say(u, Quiet) /\ Unheard /\ Rest
Remove(u, i) ==
  /\ Owns(u, i) /\ Published(i)
  /\ Gone(i)
  /\ UNCHANGED prompt /\ Unheard /\ Rest

\* Another menu withdraws the question, or asks for a file.
Menu(u) ==
  /\ Say(u, Quiet)
  /\ UNCHANGED item /\ Unheard /\ Rest

(***************************************************************************)
(* Playlists.                                                              *)
(***************************************************************************)
AskList(u) ==
  /\ u \in Authors
  /\ \E private \in {0, 1} : Say(u, <<"plnew", Nobody, private>>)
  /\ UNCHANGED item /\ Unheard /\ Rest
NameList(u, l) ==
  /\ Asked(u, "plnew") /\ item[l].status = "none"
  /\ item' = [item EXCEPT ![l] = [NoItem EXCEPT !.owner = u, !.status = "published",
                                    !.type = IF prompt[u][3] = 1 THEN "private" ELSE "public"]]
  /\ Say(u, Quiet)
  /\ ledger' = ledger \cup PostReward(u, l)
  /\ UNCHANGED notices /\ Rest

Sees(u, i) == item[i].type = "private" => item[i].owner = u \/ <<i, u>> \in members
Join(u, l) ==
  /\ Published(l) /\ <<l, u>> \notin members /\ Acted /\ members' = members \cup {<<l, u>>}
  /\ UNCHANGED <<item, prompt, broadcast, notices, entries, likes, reactions, reports, ledger, day>>
AddTo(u, l, f) ==
  /\ Published(l) /\ item[l].owner = u /\ Published(f) /\ <<l, f>> \notin entries /\ Acted
  /\ entries' = entries \cup {<<l, f>>}
  /\ UNCHANGED <<item, prompt, broadcast, notices, members, likes, reactions, reports, ledger, day>>

(***************************************************************************)
(* Votes.                                                                  *)
(***************************************************************************)
Others(u, i) == {r \in reactions : r.by # u \/ r.on # i}
Vote(u, i, n) == [by |-> u, on |-> i, vote |-> n]
\* A vote is withdrawn with the button that cast it; only the others count for
\* the bound.
Casting(withdrawn) ==
  /\ IF withdrawn THEN UNCHANGED acts ELSE Acted
  /\ UNCHANGED <<item, prompt, broadcast, notices, members, entries, reports, day>>

\* The like button of a file or a list.
Like(u, i) ==
  /\ Published(i) /\ Sees(u, i) /\ item[i].owner # u
  /\ Casting(<<u, i>> \in likes)
  /\ IF <<u, i>> \in likes
     THEN likes' = likes \ {<<u, i>>} /\ reactions' = Others(u, i) /\ UNCHANGED ledger
     ELSE /\ likes' = likes \cup {<<u, i>>}
          /\ reactions' = Others(u, i) \cup {Vote(u, i, 1)}
          /\ ledger' = ledger \cup LikeReward(item[i].owner, u, i)

\* The other button; the likes kept for the rankings follow.
Dislike(u, i) ==
  /\ Published(i) /\ item[i].type # "private" /\ item[i].owner # u
  /\ Casting(Vote(u, i, -1) \in reactions)
  /\ reactions' = IF Vote(u, i, -1) \in reactions THEN Others(u, i)
                  ELSE Others(u, i) \cup {Vote(u, i, -1)}
  /\ likes' = likes \ {<<u, i>>}
  /\ UNCHANGED ledger

VoteProfile(u, v, n) ==
  /\ u # v
  /\ Casting(Vote(u, v, n) \in reactions)
  /\ IF Vote(u, v, n) \in reactions
     THEN reactions' = Others(u, v) /\ UNCHANGED ledger
     ELSE /\ reactions' = Others(u, v) \cup {Vote(u, v, n)}
          /\ ledger' = ledger \cup (IF n = 1 THEN VoteReward(v, u) ELSE {})
  /\ UNCHANGED likes

(***************************************************************************)
(* Reports, settings and time.                                             *)
(***************************************************************************)
AskReport(u, f) ==
  /\ Published(f) /\ acts < MaxActs
  /\ Say(u, <<"report", f, 0>>)
  /\ UNCHANGED item /\ Unheard /\ Rest
\* A second report by the same user is ignored, whatever became of the first.
SendReport(u) ==
  /\ Asked(u, "report") /\ Acted
  /\ reports' = IF \E r \in reports : r.by = u /\ r.on = About(u) THEN reports
                ELSE reports \cup {[by |-> u, on |-> About(u), status |-> "pending"]}
  /\ Say(u, Quiet) /\ Unheard
  /\ UNCHANGED <<item, broadcast, members, entries, likes, reactions, day>>

Close(rs, s) == reports' = (reports \ rs) \cup {[r EXCEPT !.status = s] : r \in rs}
Pending(f) == {r \in reports : r.on = f /\ r.status = "pending"}
\* Mutant of Uphold: the other reports of the file stay open.
UpholdOne(r) ==
  /\ Gone(r.on) /\ Close({r}, "removed")
  /\ UNCHANGED <<prompt, broadcast, members, entries, likes, reactions, day, acts>> /\ Unheard
Uphold(r) ==
  /\ Gone(r.on) /\ Close(Pending(r.on), "removed")
  /\ UNCHANGED <<prompt, broadcast, members, entries, likes, reactions, day, acts>> /\ Unheard
Dismiss(r) ==
  /\ Close({r}, "dismissed")
  /\ UNCHANGED <<item, prompt, broadcast, members, entries, likes, reactions, day, acts>> /\ Unheard

SetBroadcast(k) ==
  /\ Acted
  /\ broadcast' = IF k \in broadcast THEN broadcast \ {k} ELSE broadcast \cup {k}
  /\ UNCHANGED <<item, prompt, members, entries, likes, reactions, reports, day>> /\ Unheard

\* The switches of the kinds of files there are.
Switches == {k \in {"music", "movie", "series"} : (IF k = "music" THEN Music ELSE Films) # {}}

NewDay ==
  /\ Acted /\ day' = day + 1
  /\ UNCHANGED <<item, prompt, broadcast, members, entries, likes, reactions, reports>> /\ Unheard

Next ==
  \/ \E u \in Users :
       \/ Menu(u) \/ AskList(u) \/ GiveNumber(u) \/ FillField(u) \/ SendCover(u) \/ SendReport(u)
       \/ \E f \in Files :
            \/ Accept(u, f) \/ Finish(u, f) \/ PublishPlain(u, f) \/ Cancel(u, f) \/ AskReport(u, f)
            \/ \E t \in {"movie", "series"} : ChooseType(u, f, t)
            \/ \E k \in 1 .. Steps : Skip(u, f, k)
            \/ \E l \in Lists : AddTo(u, l, f)
       \/ \E l \in Lists : NameList(u, l) \/ Join(u, l)
       \/ \E i \in Items : Remove(u, i) \/ Like(u, i) \/ Dislike(u, i)
       \/ \E v \in Users, n \in {1, -1} : VoteProfile(u, v, n)
  \/ \E r \in reports : r.status = "pending" /\ (Uphold(r) \/ Dismiss(r))
  \/ \E k \in Switches : SetBroadcast(k)
  \/ NewDay

Spec == Init /\ [][Next]_vars

(***************************************************************************)
(* Properties.                                                             *)
(***************************************************************************)
\* The variables have the shapes of the tables' rows, and a film or an episode
\* that everybody sees can be told from the others of its series.
TypeOK ==
  /\ item \in [Items -> [owner : Users \cup {Nobody}, status : {"none", "draft", "published", "removed"},
                         type : {"", "movie", "series", "public", "private"},
                         season : BOOLEAN, episode : BOOLEAN, marked : SUBSET (0 .. Steps)]]
  /\ \A u \in Users : prompt[u][1] \in {"", "type", "season", "episode", "meta", "cover",
                                         "plnew", "report"}
  /\ \A r \in reports : r \in [by : Users, on : Files, status : {"pending", "removed", "dismissed"}]
  /\ \A f \in Films : Published(f) =>
       item[f].type # "" /\ (item[f].type = "series" => item[f].season /\ item[f].episode)

\* What a user earns in a day with fields, with publications and with likes
\* stays within the limit of each, however his points fall.
CapsHold ==
  \A u \in Users, d \in 0 .. day :
    /\ Earned(u, {"media_metadata"}, d) <= FieldCap
    /\ Earned(u, {"social_post"}, d) <= PostCap
    /\ Earned(u, {"media_like"}, d) <= LikeCap
    /\ Earned(u, {"social_like"}, d) <= LikeCap

\* Liking, withdrawing the like and liking again, today or tomorrow, with one
\* button or the other, rewards the owner once; a file is rewarded once.
RewardedOnce == \A r, s \in ledger : r.ref = s.ref => r = s

\* The likes the rankings count are the votes in favour, though two pieces of
\* code write both tables.
LikesAreVotes ==
  \A u \in Users, i \in Items : <<u, i>> \in likes <=> Vote(u, i, 1) \in reactions

\* A publication reaches nobody twice, whatever the switches were meanwhile.
ToldOnce == \A m, n \in notices : m.to = n.to /\ m.on = n.on => m = n

\* What the tables of files, votes, notices and points say of each other, after
\* any order of buttons, old ones included, and across days.
Inv == TypeOK /\ CapsHold /\ RewardedOnce /\ LikesAreVotes /\ ToldOnce

\* What was published stays as it was, buttons of earlier questions and
\* questions still open notwithstanding; it can only be removed, for good.
PublishedIsFinal ==
  [][\A i \in Items :
       /\ Published(i) => item'[i] \in {item[i], [item[i] EXCEPT !.status = "removed"]}
       /\ item[i].status = "removed" => item'[i] = item[i]]_vars

\* A decision to remove a file settles every report against it; what is
\* reported later, from a question asked before, waits for a decision of its own.
DecisionSettles ==
  [][\A r \in reports : (r \notin reports' /\ [r EXCEPT !.status = "removed"] \in reports')
       => \A q \in reports' : q.on = r.on => q.status # "pending"]_vars

\* What has been decided about a file, by its owner or an administrator, stands.
DecisionsStand == PublishedIsFinal /\ DecisionSettles
=============================================================================
