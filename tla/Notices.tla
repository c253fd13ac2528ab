------------------------------ MODULE Notices ------------------------------
(***************************************************************************)
(* In-app notices and announcements (notifications/service.py,             *)
(* notifications/router.py) and the page that shows them                   *)
(* (notifications/page.tsx).                                               *)
(*                                                                         *)
(* A notice carries the time at which its transaction began and is seen    *)
(* from its commit on, so that notices appear out of order; the notices of *)
(* one transaction share their time.  A page asks for what is strictly     *)
(* older than the last notice it shows.  Its requests may overlap: the     *)
(* next page may be on its way while everything is marked as read and the  *)
(* first page is loaded again.                                             *)
(***************************************************************************)
EXTENDS Integers, Sequences, FiniteSets, FiniteSetsExt

CONSTANTS
  Poster,       \* transactions in progress at the same time
  Person, Reader,
  SchoolMember, \* accounts with a role in the school or its organization
  ClassGuardian, ClassTeacher,  \* accounts a class announcement is for
  Text,         \* what announcements say
  PageSize,
  MaxPosts,     \* bound on transactions
  MaxWalks      \* bound on reloads of the first page

ASSUME NoticeAssumption ==
  /\ Reader \in Person /\ SchoolMember \cup ClassGuardian \cup ClassTeacher \subseteq Person
  /\ IsFiniteSet(Person) /\ IsFiniteSet(Text) /\ "FEE_OVERDUE" \notin Text
  /\ PageSize \in Nat \ {0} /\ MaxPosts \in Nat /\ MaxWalks \in Nat

VARIABLES
  clock,        \* the time of the last transaction that began
  posting,      \* transactions in progress
  notice,       \* committed rows
  read,         \* notices whose read_at is set
  screen,       \* the page of the reader
  marking,      \* the notices a request to mark everything found
  walks

noticeVars == <<clock, posting, notice, read, screen, marking, walks>>

Time == 1 .. MaxPosts
(* what: an announcement's text, or a reminder; n tells apart reminders of *)
(* one transaction to one person.                                          *)
Notice == [to : Person, at : Time, what : Text \cup {"FEE_OVERDUE"}, n : 1 .. 2]
NoPost == [at |-> 0, rows |-> {}]
(* next: next_before, 0 for none; more: the cursor of the next page asked  *)
(* for; goal: what could be seen when the first page was; raced: a page    *)
(* was asked for before the first one was loaded again, and came after it. *)
Screen ==
  [items : Seq(Notice), next : 0 .. MaxPosts, more : 0 .. MaxPosts,
   reload : BOOLEAN, goal : SUBSET Notice, raced : BOOLEAN]
Blank == [items |-> <<>>, next |-> 0, more |-> 0, reload |-> FALSE, goal |-> {}, raced |-> FALSE]

NoticesTypeOK ==
  /\ clock \in 0 .. MaxPosts
  /\ posting \in [Poster -> [at : 0 .. MaxPosts, rows : SUBSET Notice]]
  /\ notice \subseteq Notice /\ read \subseteq notice
  /\ \A r \in read : r.to = Reader
  /\ screen \in Screen
  /\ marking.pc \in {"idle", "write"} /\ marking.found \subseteq notice
  /\ walks \in 0 .. MaxWalks

NoticesInit ==
  /\ clock = 0 /\ posting = [s \in Poster |-> NoPost]
  /\ notice = {} /\ read = {}
  /\ screen = Blank
  /\ marking = [pc |-> "idle", found |-> {}]
  /\ walks = 0

----------------------------------------------------------------------------
Page1 == <<screen, marking, walks>>
Shown == {screen.items[i] : i \in DOMAIN screen.items}

Issue(s, rows) ==
  /\ posting[s].at = 0
  /\ clock < MaxPosts
  /\ clock' = clock + 1
  /\ posting' = [posting EXCEPT ![s] = [at |-> clock + 1, rows |-> rows]]
  /\ UNCHANGED <<notice, read, Page1>>
Announce(s, to, text) ==
  Issue(s, [to : to, at : {clock + 1}, what : {text}, n : {1}])

(* create_announcement, to a school or to classes of it.                   *)
ToSchool(s, text) == Announce(s, SchoolMember, text)
ToClass(s, text) == Announce(s, ClassGuardian \cup ClassTeacher, text)
(* A run of reminders: one notice for each fee of a guardian.              *)
Remind(s) == Issue(s, [to : {Reader}, at : {clock + 1}, what : {"FEE_OVERDUE"}, n : 1 .. 2])

CommitPost(s) ==
  /\ posting[s].at # 0
  /\ notice' = notice \cup posting[s].rows
  /\ posting' = [posting EXCEPT ![s] = NoPost]
  /\ UNCHANGED <<clock, read, Page1>>
FailPost(s) ==
  /\ posting[s].at # 0
  /\ posting' = [posting EXCEPT ![s] = NoPost]
  /\ UNCHANGED <<clock, notice, read, Page1>>

----------------------------------------------------------------------------
\* Faulty variant: the recipient is not looked at.
Everyones == notice
Mine == {r \in notice : r.to = Reader}

(* The notices older than a cursor, 0 for no cursor.                       *)
\* Faulty variant: the last notice of a page is found again by the next.
OlderOrSame(before) == {r \in Mine : before = 0 \/ r.at <= before}
Older(before) == {r \in Mine : before = 0 \/ r.at < before}

(* list_notifications: the latest of them, as many as fit, and the cursor  *)
(* of the next page when one more was found.  Among notices of one time    *)
(* the database returns any.                                               *)
InPage(before, page) ==
  /\ page \subseteq Older(before)
  /\ Cardinality(page) = Min({PageSize, Cardinality(Older(before))})
  /\ \A r \in page, o \in Older(before) \ page : r.at >= o.at
\* Faulty variant: the cursor is the notice that did not fit.
ExtraRow(before, page) ==
  IF page = Older(before) THEN 0 ELSE Max({r.at : r \in Older(before) \ page})
NextBefore(before, page) ==
  IF page = Older(before) THEN 0 ELSE Min({r.at : r \in page})
\* The lists of a page, the latest notice first.
InOrder(page) ==
  {list \in [1 .. Cardinality(page) -> page] :
     /\ \A r \in page : \E i \in DOMAIN list : list[i] = r
     /\ \A i, j \in DOMAIN list : i < j => list[i].at >= list[j].at}

(* loadFirstPage, when the page opens and after everything is marked.      *)
OpenInbox ==
  /\ walks < MaxWalks
  /\ screen = Blank
  /\ walks' = walks + 1
  /\ screen' = [screen EXCEPT !.reload = TRUE]
  /\ UNCHANGED <<clock, posting, notice, read, marking>>
AnswerFirst ==
  /\ screen.reload
  /\ \E page \in SUBSET Mine :
       /\ InPage(0, page)
       /\ \E list \in InOrder(page) :
            screen' = [screen EXCEPT !.items = list, !.next = NextBefore(0, page),
                                     !.reload = FALSE, !.goal = Mine,
                                     !.raced = @ \/ screen.more # 0]
  /\ UNCHANGED <<clock, posting, notice, read, marking, walks>>

(* handleLoadMore keeps the cursor it was called with, and appends.        *)
AskMore ==
  /\ screen.next # 0 /\ screen.more = 0
  /\ screen' = [screen EXCEPT !.more = screen.next, !.raced = @ \/ screen.reload]
  /\ UNCHANGED <<clock, posting, notice, read, marking, walks>>
AnswerMore ==
  /\ screen.more # 0
  /\ \E page \in SUBSET Older(screen.more) :
       /\ InPage(screen.more, page)
       /\ \E list \in InOrder(page) :
            screen' = [screen EXCEPT !.items = @ \o list,
                                     !.next = NextBefore(screen.more, page), !.more = 0]
  /\ UNCHANGED <<clock, posting, notice, read, marking, walks>>

(* mark_read, of a notice on the page.                                     *)
MarkRead ==
  /\ \E r \in Shown \ read : read' = read \cup {r}
  /\ UNCHANGED <<clock, posting, notice, Page1>>

(* mark_all_read finds what is unread, writes it, and the page is loaded   *)
(* again.                                                                  *)
FindUnread ==
  /\ marking.pc = "idle" /\ walks < MaxWalks
  /\ ~Shown \subseteq read
  /\ walks' = walks + 1
  /\ marking' = [pc |-> "write", found |-> Mine \ read]
  /\ UNCHANGED <<clock, posting, notice, read, screen>>
\* Faulty variant: everything unread by now is marked.
MarkEverything ==
  /\ marking.pc = "write"
  /\ read' = Mine
  /\ marking' = [pc |-> "idle", found |-> {}]
  /\ screen' = [screen EXCEPT !.reload = TRUE]
  /\ UNCHANGED <<clock, posting, notice, walks>>
MarkAllRead ==
  /\ marking.pc = "write"
  /\ read' = read \cup marking.found
  /\ marking' = [pc |-> "idle", found |-> {}]
  /\ screen' = [screen EXCEPT !.reload = TRUE]
  /\ UNCHANGED <<clock, posting, notice, walks>>

----------------------------------------------------------------------------
(* list_school_announcements: the rows of one announcement are one entry   *)
(* with the number of its recipients.                                      *)
\* Faulty variant: announcements that say the same are one.
SameText(r) == {o \in notice : o.what = r.what}
SameEntry(r) == {o \in notice : o.what = r.what /\ o.at = r.at}
History == {[at |-> r.at, count |-> Cardinality(SameEntry(r))] : r \in {r \in notice : r.what \in Text}}

NoticesNext ==
  \/ \E s \in Poster :
       \/ \E text \in Text : ToSchool(s, text) \/ ToClass(s, text)
       \/ Remind(s) \/ CommitPost(s) \/ FailPost(s)
  \/ OpenInbox \/ AnswerFirst \/ AskMore \/ AnswerMore
  \/ MarkRead \/ FindUnread \/ MarkAllRead

NoticesSpec == NoticesInit /\ [][NoticesNext]_noticeVars

----------------------------------------------------------------------------
(* The page shows no notice twice and none above an older one, although    *)
(* notices appear out of order and requests of the page overlap.           *)
InboxInOrder ==
  \A i, j \in DOMAIN screen.items : i < j =>
    /\ screen.items[i] # screen.items[j]
    /\ screen.items[i].at >= screen.items[j].at

(* A reader who goes on to the last page has seen every notice that there  *)
(* was at the first one, except one that shares its time with a notice     *)
(* that was shown, and unless a page on its way met a reload.              *)
NothingSkipped ==
  walks > 0 /\ screen.next = 0 /\ screen.more = 0 /\ ~screen.reload /\ ~screen.raced
    => \A r \in screen.goal \ Shown :
         \E o \in Shown : o.at = r.at

(* Only what the reader was shown, or what was there when everything was   *)
(* asked to be marked, becomes read: a notice that arrives meanwhile stays *)
(* unread.                                                                 *)
ArrivalsStayUnread ==
  [][read' \ read \subseteq Shown \cup marking.found]_noticeVars

(* The history of a school tells two announcements of one text apart and   *)
(* gives each exactly its recipients.                                      *)
HistoryIsExact ==
  \A e \in History : e.count = Cardinality({r.to : r \in {r \in notice : r.at = e.at}})

(* Readers and school see what was sent: the inbox in order and without    *)
(* holes, each announcement with its recipients, and nothing read that     *)
(* nobody was shown.                                                       *)
NoticesAreFaithful ==
  []InboxInOrder /\ []NothingSkipped /\ []HistoryIsExact /\ ArrivalsStayUnread
=============================================================================
