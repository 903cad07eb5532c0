------------------------------ MODULE ListProofs ------------------------------
(***************************************************************************)
(* What the pages of an account may be used for, whatever the matches,     *)
(* boards, groups and teams, and however many operations and failures      *)
(* there are: a deletion takes reports of the scope they were chosen in, a *)
(* description is renamed from the one that is listed, a card that can be  *)
(* used shows its group as it is, and a tick is of the team it was made    *)
(* for.  Each page has an invariant that its steps keep.  And what the     *)
(* overlay's page shows: the last state it was sent, once it is at rest,   *)
(* and alerts of a team that has just won, whichever side it is on.        *)
(***************************************************************************)
EXTENDS OverlayPage, AccountLists, FiniteSetTheorems, FunctionTheorems, SequenceTheorems, NaturalsInduction, WellFoundedInduction, TLAPS

-----------------------------------------------------------------------------
(* The reports: what is selected, and what is being deleted, is of the scope it was   *)
(* chosen in.                                                                          *)

ReportsPast ==
  past = [strayed |-> past.strayed, skipped |-> past.skipped] /\ past.strayed \in BOOLEAN

AreControls(c) ==
  c = [oid |-> c.oid, mode |-> c.mode, day |-> c.day, key |-> c.key, dir |-> c.dir, page |-> c.page]
ControlsInv == AreControls(ctl)

DeletionInv ==
  job = Reports!NoJob \/ job = [stage |-> job.stage, ids |-> job.ids, todo |-> job.todo, sent |-> job.sent, ctl |-> job.ctl]

\* Nothing is selected before the boards have been read.
ReportsInv ==
  /\ ReportsPast /\ ControlsInv /\ DeletionInv /\ Reports!SelectionInScope
  /\ overlays # "ready" => selected = {}

LEMMA ReportsBegins == ASSUME Reports!Init PROVE ReportsInv
BY DEF Reports!Init, ReportsInv, ReportsPast, ControlsInv, AreControls, DeletionInv, Reports!SelectionInScope, Reports!InScope

LEMMA ScopeIsOf ==
  ASSUME NEW c, NEW d, c.oid = d.oid, c.mode = d.mode, c.day = d.day
  PROVE  Reports!InScope(c) = Reports!InScope(d)
BY DEF Reports!InScope

\* The deletion that there is goes on, or ends.
DeletionGoesOn == DeletionInv' /\ (job' = Reports!NoJob \/ (job # Reports!NoJob /\ job'.ids = job.ids /\ job'.ctl = job.ctl))

\* A step that keeps what is selected keeps its scope.
LEMMA ReportsGoOn ==
  ASSUME ReportsInv, ReportsPast', past.strayed => past'.strayed, ControlsInv', DeletionGoesOn,
         \/ selected' = {}
         \/ /\ selected' = selected /\ ctl'.oid = ctl.oid /\ ctl'.mode = ctl.mode /\ ctl'.day = ctl.day
            /\ overlays' # "ready" => overlays # "ready"
  PROVE  ReportsInv'
<1>1. Reports!SelectionInScope'
  <2> SUFFICES ASSUME ~past'.strayed
               PROVE  /\ selected' \subseteq Reports!InScope(ctl')
                      /\ job' # Reports!NoJob => job'.ids \subseteq Reports!InScope(job'.ctl)
    BY DEF Reports!SelectionInScope, Reports!InScope, Reports!Passes, Reports!NoJob
  <2>1. /\ selected \subseteq Reports!InScope(ctl)
        /\ job # Reports!NoJob => job.ids \subseteq Reports!InScope(job.ctl)
    BY DEF ReportsInv, Reports!SelectionInScope
  <2>2. selected' \subseteq Reports!InScope(ctl')
    BY <2>1, ScopeIsOf
  <2> QED
    BY <2>1, <2>2 DEF DeletionGoesOn
<1>2. overlays' # "ready" => selected' = {}
  BY DEF ReportsInv
<1> QED
  BY <1>1, <1>2 DEF ReportsInv, DeletionGoesOn

LEMMA DeletionRests == ASSUME ReportsInv, job' = job PROVE DeletionGoesOn
BY DEF ReportsInv, DeletionInv, DeletionGoesOn, Reports!NoJob

LEMMA DeletionMoves ==
  ASSUME ReportsInv, job.stage # "none", NEW st, NEW todo, NEW sent,
         job' = [job EXCEPT !.stage = st, !.sent = sent, !.todo = todo]
  PROVE  DeletionGoesOn
<1>1. job # Reports!NoJob
  BY DEF Reports!NoJob
<1>2. job' = [stage |-> st, ids |-> job.ids, todo |-> todo, sent |-> sent, ctl |-> job.ctl]
  BY <1>1 DEF ReportsInv, DeletionInv
<1> QED
  BY <1>1, <1>2 DEF DeletionGoesOn, DeletionInv

LEMMA DeletionIsReloaded ==
  ASSUME ReportsInv, job.stage # "none", NEW c, Reports!GoOn(c)
  PROVE  DeletionGoesOn
<1>1. job' = Reports!NoJob \/ job' = [job EXCEPT !.stage = "days"]
  BY DEF Reports!GoOn
<1>2. job' = [job EXCEPT !.stage = "days"] => job' = [job EXCEPT !.stage = "days", !.sent = job.sent, !.todo = job.todo]
  BY DEF ReportsInv, DeletionInv, Reports!NoJob
<1> QED
  BY <1>1, <1>2, DeletionMoves DEF DeletionGoesOn, DeletionInv

LEMMA DeletionContinues ==
  ASSUME ReportsInv, NEW r, NEW c, Reports!Continue(r, c)
  PROVE  DeletionGoesOn
BY DeletionRests, DeletionIsReloaded DEF Reports!Continue, Reports!Mine

\* What the network brings.
LEMMA ReportsArrive ==
  ASSUME ReportsInv, Reports!Network
  PROVE  ReportsInv'
<1>0. ReportsPast /\ ControlsInv
  BY DEF ReportsInv
<1>1. CASE Reports!OverlaysReady
  <2>1. PICK b : Reports!Turn([ctl EXCEPT !.oid = b])
    BY <1>1 DEF Reports!OverlaysReady
  <2>2. selected' = {} /\ job' = job
    BY <1>1 DEF Reports!OverlaysReady, ReportsInv
  <2>3. ReportsPast' /\ past'.strayed = past.strayed /\ ControlsInv'
    BY <1>0, <2>1 DEF Reports!Turn, ReportsPast, ControlsInv, AreControls
  <2> QED
    BY <2>2, <2>3, DeletionRests, ReportsGoOn
<1>2. CASE Reports!OverlaysFail
  BY <1>0, <1>2, DeletionRests, ReportsGoOn DEF Reports!OverlaysFail, Reports!controls, ReportsInv, ReportsPast, ControlsInv, AreControls
<1>3. ASSUME NEW r \in lists, Reports!Answer(r) PROVE ReportsInv'
  BY <1>0, <1>3, DeletionRests, ReportsGoOn DEF Reports!Answer, Reports!controls, ReportsPast, ControlsInv, AreControls
<1>4. ASSUME NEW r \in lists, Reports!Land(r) PROVE ReportsInv'
  <2>1. selected' = selected /\ overlays' = overlays
    BY <1>4 DEF Reports!Land
  <2>2. DeletionGoesOn
    BY <1>4, DeletionContinues DEF Reports!Land
  <2>3. /\ ControlsInv' /\ ctl'.oid = ctl.oid /\ ctl'.mode = ctl.mode /\ ctl'.day = ctl.day
        /\ ReportsPast' /\ past'.strayed = past.strayed
    BY <1>0, <1>4 DEF Reports!Land, ReportsPast, ControlsInv, AreControls
  <2> QED
    BY <2>1, <2>2, <2>3, ReportsGoOn
<1>5. ASSUME NEW r \in lists, Reports!Fail(r) PROVE ReportsInv'
  <2>1. DeletionGoesOn
    BY <1>5, DeletionContinues DEF Reports!Fail
  <2> QED
    BY <1>0, <1>5, <2>1, ReportsGoOn DEF Reports!Fail, Reports!controls, ReportsPast, ControlsInv, AreControls
<1>6. ASSUME NEW r \in dayLists, Reports!LandDays(r) \/ Reports!FailDays(r) PROVE ReportsInv'
  <2>1. PICK found : Reports!EndDays(r, found)
    BY <1>6 DEF Reports!LandDays, Reports!FailDays
  <2>2. DeletionGoesOn
    BY <2>1, DeletionRests DEF Reports!EndDays, DeletionGoesOn, DeletionInv
  <2> QED
    BY <1>0, <2>1, <2>2, ReportsGoOn DEF Reports!EndDays, Reports!controls, ReportsPast, ControlsInv, AreControls
<1>7. CASE Reports!Delete \/ Reports!NextChunk
  <2>2. DeletionGoesOn
    <3>1. CASE Reports!Delete
      <4>1. job.stage = "sent" /\ job' = [job EXCEPT !.stage = "answered"]
        BY <3>1 DEF Reports!Delete
      <4>2. job' = [job EXCEPT !.stage = "answered", !.sent = job.sent, !.todo = job.todo]
        BY <4>1 DEF ReportsInv, DeletionInv, Reports!NoJob
      <4>3. job.stage # "none"
        BY <4>1
      <4> QED
        BY <4>2, <4>3, DeletionMoves
    <3>2. CASE Reports!NextChunk
      <4>1. job.stage = "answered" /\ \E c : job' = [job EXCEPT !.stage = "sent", !.sent = c, !.todo = @ \ c]
        BY <3>2 DEF Reports!NextChunk
      <4>2. PICK c : job' = [job EXCEPT !.stage = "sent", !.sent = c, !.todo = job.todo \ c]
        BY <4>1
      <4>3. job.stage # "none"
        BY <4>1
      <4> QED
        BY <4>2, <4>3, DeletionMoves
    <3> QED
      BY <1>7, <3>1, <3>2
  <2> QED
    BY <1>0, <1>7, <2>2, ReportsGoOn DEF Reports!Delete, Reports!NextChunk, Reports!controls, ReportsPast, ControlsInv, AreControls
<1>8. CASE Reports!Deleted \/ Reports!DeleteFails
  <2>1. Reports!Refresh /\ job.stage # "none"
    BY <1>8 DEF Reports!Deleted, Reports!DeleteFails
  <2>2. selected' = {} /\ ReportsPast' /\ past'.strayed = past.strayed /\ ControlsInv'
    BY <1>0, <2>1 DEF Reports!Refresh, ReportsPast, ControlsInv, AreControls
  <2>3. (\E c : Reports!GoOn(c)) \/ job' = [job EXCEPT !.stage = "reloading"]
    BY <2>1 DEF Reports!Refresh
  <2>4. job' = [job EXCEPT !.stage = "reloading"] => job' = [job EXCEPT !.stage = "reloading", !.sent = job.sent, !.todo = job.todo]
    BY <2>1 DEF ReportsInv, DeletionInv, Reports!NoJob
  <2>5. DeletionGoesOn
    BY <2>1, <2>3, <2>4, DeletionMoves, DeletionIsReloaded
  <2> QED
    BY <2>2, <2>5, ReportsGoOn
<1> QED
  BY <1>1, <1>2, <1>3, <1>4, <1>5, <1>6, <1>7, <1>8 DEF Reports!Network

LEMMA ControlsStay ==
  ASSUME ControlsInv
  PROVE  /\ \A b : AreControls([ctl EXCEPT !.oid = b, !.day = None, !.mode = None, !.page = 0])
         /\ \A m : AreControls([ctl EXCEPT !.mode = m, !.day = None, !.page = 0])
         /\ \A d : AreControls([ctl EXCEPT !.day = d, !.page = 0])
         /\ \A k, r : AreControls([ctl EXCEPT !.page = 0, !.key = k, !.dir = r])
<1>1. ASSUME NEW b, NEW c, c = [ctl EXCEPT !.oid = b, !.day = None, !.mode = None, !.page = 0]
      PROVE  AreControls(c)
  BY <1>1 DEF ControlsInv, AreControls
<1>2. ASSUME NEW m, NEW c, c = [ctl EXCEPT !.mode = m, !.day = None, !.page = 0]
      PROVE  AreControls(c)
  BY <1>2 DEF ControlsInv, AreControls
<1>3. ASSUME NEW d, NEW c, c = [ctl EXCEPT !.day = d, !.page = 0]
      PROVE  AreControls(c)
  BY <1>3 DEF ControlsInv, AreControls
<1>4. ASSUME NEW k, NEW r, NEW c, c = [ctl EXCEPT !.page = 0, !.key = k, !.dir = r]
      PROVE  AreControls(c)
  BY <1>4 DEF ControlsInv, AreControls
<1> QED
  BY <1>1, <1>2, <1>3, <1>4

LEMMA ReportsChoose ==
  ASSUME ReportsInv, NEW c, Reports!Choose(c), AreControls(c)
  PROVE  ReportsInv'
<1>1. selected' = {} /\ job' = job /\ ctl' = c
  BY DEF Reports!Choose, Reports!Turn
<1>2. ReportsPast' /\ past'.strayed = past.strayed
  BY DEF Reports!Choose, Reports!Turn, ReportsInv, ReportsPast
<1> QED
  BY <1>1, <1>2, DeletionRests, ReportsGoOn DEF ControlsInv, AreControls

LEMMA ReportsStray ==
  ASSUME ReportsInv, NEW s, Reports!Strayed(s)
  PROVE  /\ ReportsPast' /\ (past.strayed => past'.strayed)
         /\ ~past'.strayed => s \subseteq selected \cup Reports!InScope(ctl)
<1> DEFINE strays == ~(s \subseteq selected \cup Reports!InScope(ctl))
<1>1. past' = [past EXCEPT !.strayed = @ \/ strays]
  BY DEF Reports!Strayed
<1>2. strays \in BOOLEAN
  OBVIOUS
<1> HIDE DEF strays
<1>3. ReportsPast' /\ past'.strayed = (past.strayed \/ strays)
  BY <1>1, <1>2 DEF ReportsInv, ReportsPast
<1> QED
  BY <1>2, <1>3 DEF strays, ReportsInv, ReportsPast

LEMMA ReportsSelect ==
  ASSUME ReportsInv, NEW s, Reports!SelectsTo(s)
  PROVE  ReportsInv'
<1>1. selected' = s /\ ctl' = ctl /\ job' = job /\ overlays = "ready" /\ overlays' = overlays
  BY DEF Reports!SelectsTo, Reports!Acts
<1>2. /\ ReportsPast' /\ (past.strayed => past'.strayed)
      /\ ~past'.strayed => s \subseteq selected \cup Reports!InScope(ctl)
  BY ReportsStray DEF Reports!SelectsTo
<1>3. Reports!InScope(ctl') = Reports!InScope(ctl) /\ Reports!InScope(job'.ctl) = Reports!InScope(job.ctl)
  BY <1>1
<1>4. ~past'.strayed => /\ selected' \subseteq Reports!InScope(ctl')
                        /\ job' # Reports!NoJob => job'.ids \subseteq Reports!InScope(job'.ctl)
  BY <1>1, <1>2, <1>3 DEF ReportsInv, Reports!SelectionInScope
<1>5. Reports!SelectionInScope'
  BY <1>4 DEF Reports!SelectionInScope, Reports!InScope, Reports!Passes, Reports!NoJob
<1> QED
  BY <1>1, <1>2, <1>5 DEF ReportsInv, ControlsInv, AreControls, DeletionInv, Reports!NoJob

LEMMA ReportsAsk ==
  ASSUME ReportsInv, NEW s, Reports!Ask(s)
  PROVE  ReportsInv'
<1>1. /\ selected' = selected /\ ctl' = ctl /\ overlays' = overlays
      /\ job' = [stage |-> "asking", ids |-> s, todo |-> s, sent |-> {}, ctl |-> ctl]
  BY DEF Reports!Ask, Reports!Acts, Reports!controls
<1>2. /\ ReportsPast' /\ (past.strayed => past'.strayed)
      /\ ~past'.strayed => s \subseteq selected \cup Reports!InScope(ctl)
  BY ReportsStray DEF Reports!Ask
<1>3. Reports!InScope(ctl') = Reports!InScope(ctl) /\ Reports!InScope(job'.ctl) = Reports!InScope(ctl)
  BY <1>1
<1>4. ~past'.strayed => /\ selected' \subseteq Reports!InScope(ctl')
                        /\ job' # Reports!NoJob => job'.ids \subseteq Reports!InScope(job'.ctl)
  BY <1>1, <1>2, <1>3 DEF ReportsInv, Reports!SelectionInScope
<1>5. Reports!SelectionInScope'
  BY <1>4 DEF Reports!SelectionInScope, Reports!InScope, Reports!Passes, Reports!NoJob
<1> QED
  BY <1>1, <1>2, <1>5 DEF ReportsInv, ControlsInv, AreControls, DeletionInv, Reports!NoJob

LEMMA ReportsAct ==
  ASSUME ReportsInv, Reports!Operator
  PROVE  ReportsInv'
<1>0. ReportsPast /\ ControlsInv
  BY DEF ReportsInv
<1>1. CASE Reports!ChooseBoard \/ Reports!ChooseMode \/ Reports!ChooseDay \/ Reports!ToggleSort
  <2>1. \E c : Reports!Choose(c) /\ AreControls(c)
    <3>1. CASE Reports!ChooseBoard
      <4>1. PICK b : Reports!Choose([ctl EXCEPT !.oid = b, !.day = None, !.mode = None, !.page = 0])
        BY <3>1 DEF Reports!ChooseBoard
      <4> QED
        BY <1>0, <4>1, ControlsStay
    <3>2. CASE Reports!ChooseMode
      <4>1. PICK m : Reports!Choose([ctl EXCEPT !.mode = m, !.day = None, !.page = 0])
        BY <3>2 DEF Reports!ChooseMode
      <4> QED
        BY <1>0, <4>1, ControlsStay
    <3>3. CASE Reports!ChooseDay
      <4>1. PICK d : Reports!Choose([ctl EXCEPT !.day = d, !.page = 0])
        BY <3>3 DEF Reports!ChooseDay
      <4> QED
        BY <1>0, <4>1, ControlsStay
    <3>4. CASE Reports!ToggleSort
      <4>1. \E k, r : Reports!Choose([ctl EXCEPT !.page = 0, !.key = k, !.dir = r])
        BY <3>4 DEF Reports!ToggleSort
      <4> QED
        BY <1>0, <4>1, ControlsStay
    <3> QED
      BY <1>1, <3>1, <3>2, <3>3, <3>4
  <2> QED
    BY <2>1, ReportsChoose
<1>2. CASE Reports!TurnPage
  <2>1. PICK p : Reports!Turn([ctl EXCEPT !.page = p])
    BY <1>2 DEF Reports!TurnPage
  <2>2. ReportsPast' /\ past'.strayed = past.strayed /\ ControlsInv'
        /\ ctl'.oid = ctl.oid /\ ctl'.mode = ctl.mode /\ ctl'.day = ctl.day
    BY <1>0, <2>1 DEF Reports!Turn, ReportsPast, ControlsInv, AreControls
  <2>3. selected' = selected /\ job' = job /\ overlays' = overlays
    BY <1>2 DEF Reports!TurnPage, Reports!Acts
  <2> QED
    BY <2>2, <2>3, DeletionRests, ReportsGoOn
<1>3. CASE Reports!Toggle \/ Reports!TogglePage
  BY <1>3, ReportsSelect DEF Reports!Toggle, Reports!TogglePage
<1>4. CASE Reports!AskSelected \/ Reports!AskOne
  BY <1>4, ReportsAsk DEF Reports!AskSelected, Reports!AskOne
<1>5. CASE Reports!Confirm
  <2>1. PICK c : job' = [job EXCEPT !.stage = "sent", !.sent = c, !.todo = @ \ c]
    BY <1>5 DEF Reports!Confirm
  <2>2. job.stage = "asking" /\ job' = [job EXCEPT !.stage = "sent", !.sent = c, !.todo = job.todo \ c]
    BY <1>5, <2>1 DEF Reports!Confirm
  <2>3. DeletionGoesOn
    BY <2>2, DeletionMoves
  <2> QED
    BY <1>0, <1>5, <2>3, ReportsGoOn DEF Reports!Confirm, Reports!controls, ReportsPast, ControlsInv, AreControls
<1>6. CASE Reports!Cancel
  BY <1>0, <1>6, ReportsGoOn DEF Reports!Cancel, Reports!controls, ReportsPast, ControlsInv, AreControls, DeletionGoesOn, DeletionInv
<1> QED
  BY <1>1, <1>2, <1>3, <1>4, <1>5, <1>6 DEF Reports!Operator

LEMMA ReportsKeep == ASSUME ReportsInv, Reports!Next PROVE ReportsInv'
BY ReportsArrive, ReportsAct DEF Reports!Next

-----------------------------------------------------------------------------
(* The operator's overlays: what is renamed is the description as it is listed, for  *)
(* no list comes beneath an open card unless two reloads are out at a time.           *)

OverlaysPast ==
  /\ past = [begun |-> past.begun, newest |-> past.newest, overtaken |-> past.overtaken,
             overlapped |-> past.overlapped, lost |-> past.lost]
  /\ past.overlapped \in BOOLEAN

OverlaysControls ==
  page = [loading |-> page.loading, error |-> page.error, createOpen |-> page.createOpen,
          creating |-> page.creating, query |-> page.query, favoritesOnly |-> page.favoritesOnly, fresh |-> page.fresh]

AreCards(c) ==
  /\ DOMAIN c = Streams
  /\ \A o \in Streams : c[o] = [open |-> c[o].open, renaming |-> c[o].renaming, text |-> c[o].text]

\* While the list is read nothing is renamed; otherwise from the description listed.
EditsAsListed ==
  /\ \A k, m \in loads : k = m
  /\ loads # {} => page.loading /\ \A o \in Streams : ~cards[o].renaming
  /\ \A o \in Streams, r \in Overlays!Range(list) :
       r.oid = o /\ Overlays!ListedOnce(o) /\ cards[o].renaming => cards[o].text = r.description

OverlaysInv ==
  /\ OverlaysPast /\ OverlaysControls /\ AreCards(cards)
  /\ ~past.overlapped => EditsAsListed

LEMMA OverlaysHold == ASSUME OverlaysInv PROVE Overlays!RenameStartsFromTheList
BY DEF OverlaysInv, EditsAsListed, Overlays!RenameStartsFromTheList, Overlays!Visible

LEMMA NoCardsAreOpen == AreCards(Overlays!NoCards) /\ \A o \in Streams : ~Overlays!NoCards[o].renaming
BY DEF Overlays!NoCards, AreCards

LEMMA OverlaysBegins == ASSUME Overlays!Init PROVE OverlaysInv
<1>1. OverlaysPast /\ OverlaysControls /\ cards = Overlays!NoCards /\ page.loading
  BY DEF Overlays!Init, OverlaysPast, OverlaysControls
<1>2. \A k, m \in loads : k = m
  BY DEF Overlays!Init
<1> QED
  BY <1>1, <1>2, NoCardsAreOpen DEF OverlaysInv, EditsAsListed

LEMMA CardsClose ==
  ASSUME OverlaysPast', OverlaysControls', cards' = Overlays!NoCards,
         ~past'.overlapped => (\A k, m \in loads' : k = m) /\ (loads' # {} => page'.loading)
  PROVE  OverlaysInv'
BY NoCardsAreOpen DEF OverlaysInv, EditsAsListed

LEMMA OverlaysRest ==
  ASSUME OverlaysInv, OverlaysControls', UNCHANGED <<list, past>>, AreCards(cards'),
         \A o \in Streams : cards'[o].renaming => cards[o].renaming /\ cards'[o].text = cards[o].text,
         \/ loads' = loads /\ page'.loading = page.loading
         \/ loads' = {}
         \/ \E k \in loads : \E m : loads' = (loads \ {k}) \cup {m} /\ page'.loading = page.loading
  PROVE  OverlaysInv'
<1>1. OverlaysPast'
  BY DEF OverlaysInv, OverlaysPast
<1>2. ASSUME ~past.overlapped PROVE EditsAsListed'
  <2>1. EditsAsListed
    BY <1>2 DEF OverlaysInv
  <2>2. \A k, m \in loads' : k = m
    BY <2>1 DEF EditsAsListed
  <2>3. loads' # {} => page'.loading /\ \A o \in Streams : ~cards'[o].renaming
    BY <2>1 DEF EditsAsListed
  <2>4. \A o \in Streams : Overlays!ListedOnce(o)' = Overlays!ListedOnce(o)
    BY DEF Overlays!ListedOnce
  <2>5. \A o \in Streams, r \in Overlays!Range(list') :
          r.oid = o /\ Overlays!ListedOnce(o)' /\ cards'[o].renaming => cards'[o].text = r.description
    BY <2>1, <2>4 DEF EditsAsListed
  <2> QED
    BY <2>2, <2>3, <2>5 DEF EditsAsListed, Overlays!ListedOnce
<1> QED
  BY <1>1, <1>2 DEF OverlaysInv

LEMMA ControlsKept ==
  ASSUME OverlaysControls, page' = page
  PROVE  OverlaysControls'
BY DEF OverlaysControls

LEMMA OverlaysShown ==
  ASSUME NEW p, NEW rows_, NEW f,
         p = [loading |-> p.loading, error |-> p.error, createOpen |-> p.createOpen,
              creating |-> p.creating, query |-> p.query, favoritesOnly |-> p.favoritesOnly, fresh |-> p.fresh],
         page' = Overlays!Shown(p, rows_, f)
  PROVE  OverlaysControls' /\ page'.loading = p.loading
BY DEF Overlays!Shown, OverlaysControls

LEMMA OverlaysLoad ==
  ASSUME OverlaysInv, NEW l \in loads, Overlays!ReadPage(l) \/ Overlays!Land(l) \/ Overlays!LoadFails(l)
  PROVE  OverlaysInv'
<1>0. OverlaysPast /\ OverlaysControls /\ AreCards(cards)
  BY DEF OverlaysInv
<1>1. CASE Overlays!ReadPage(l)
  <2>1. PICK m : loads' = (loads \ {l}) \cup {m}
    BY <1>1 DEF Overlays!ReadPage
  <2>2. UNCHANGED <<list, past, page, cards>>
    BY <1>1 DEF Overlays!ReadPage
  <2> QED
    BY <1>0, <2>1, <2>2, ControlsKept, OverlaysRest
<1>2. CASE Overlays!Land(l)
  <2>1. PICK p : p = [page EXCEPT !.loading = FALSE, !.error = FALSE]
    OBVIOUS
  <2>a. p = [loading |-> p.loading, error |-> p.error, createOpen |-> p.createOpen,
             creating |-> p.creating, query |-> p.query, favoritesOnly |-> p.favoritesOnly, fresh |-> p.fresh]
    BY <1>0, <2>1 DEF OverlaysControls
  <2>b. \E rs, f : page' = Overlays!Shown(p, rs, f)
    BY <1>2, <2>1 DEF Overlays!Land
  <2>2. OverlaysControls'
    BY <2>a, <2>b, OverlaysShown
  <2>3. loads' = loads \ {l} /\ cards' = cards
    BY <1>2 DEF Overlays!Land
  <2>4. OverlaysPast' /\ past'.overlapped = past.overlapped
    BY <1>0, <1>2 DEF Overlays!Land, OverlaysPast
  <2>5. ~past.overlapped => EditsAsListed'
    BY <2>3 DEF OverlaysInv, EditsAsListed
  <2> QED
    BY <1>0, <2>2, <2>3, <2>4, <2>5 DEF OverlaysInv
<1>3. CASE Overlays!LoadFails(l)
  <2>1. PICK p : p = [page EXCEPT !.loading = FALSE, !.error = TRUE]
    OBVIOUS
  <2>a. p = [loading |-> p.loading, error |-> p.error, createOpen |-> p.createOpen,
             creating |-> p.creating, query |-> p.query, favoritesOnly |-> p.favoritesOnly, fresh |-> p.fresh]
    BY <1>0, <2>1 DEF OverlaysControls
  <2>b. \E rs, f : page' = Overlays!Shown(p, rs, f)
    BY <1>3, <2>1 DEF Overlays!LoadFails
  <2>2. OverlaysControls'
    BY <2>a, <2>b, OverlaysShown
  <2>3. loads' = loads \ {l} /\ cards' = cards
    BY <1>3 DEF Overlays!LoadFails
  <2>4. OverlaysPast' /\ past'.overlapped = past.overlapped
    BY <1>0, <1>3 DEF Overlays!LoadFails, OverlaysPast
  <2>5. ~past.overlapped => EditsAsListed'
    BY <2>3 DEF OverlaysInv, EditsAsListed
  <2> QED
    BY <1>0, <2>2, <2>3, <2>4, <2>5 DEF OverlaysInv
<1> QED
  BY <1>1, <1>2, <1>3

LEMMA OverlaysReload ==
  ASSUME OverlaysInv, NEW f, Overlays!Reload(f), OverlaysControls', page'.loading
  PROVE  OverlaysInv'
<1>1. OverlaysPast' /\ past'.overlapped = (past.overlapped \/ loads # {})
  BY DEF Overlays!Reload, OverlaysInv, OverlaysPast
<1>2. cards' = Overlays!NoCards /\ \E m : loads' = loads \cup {m}
  BY DEF Overlays!Reload
<1> QED
  BY <1>1, <1>2, CardsClose

LEMMA OverlaysChange ==
  ASSUME OverlaysInv, NEW j \in jobs,
         Overlays!Serve(j) \/ Overlays!Done(j) \/ Overlays!Refuse(j) \/ Overlays!JobFails(j)
  PROVE  OverlaysInv'
<1>0. OverlaysPast /\ OverlaysControls /\ AreCards(cards)
  BY DEF OverlaysInv
<1>1. CASE Overlays!Serve(j)
  BY <1>0, <1>1, ControlsKept, OverlaysRest DEF Overlays!Serve
<1>2. CASE Overlays!Done(j)
  <2>1. OverlaysControls' /\ page'.loading
    BY <1>0, <1>2 DEF Overlays!Done, OverlaysControls
  <2> QED
    BY <1>2, <2>1, OverlaysReload DEF Overlays!Done
<1>3. CASE Overlays!Refuse(j) \/ Overlays!JobFails(j)
  <2>1. /\ page' = [page EXCEPT !.creating = @ /\ j.kind # "create"]
        /\ past' = [past EXCEPT !.lost = @ \/ j.stage = "done"]
        /\ UNCHANGED <<list, cards, loads>>
    BY <1>3 DEF Overlays!Refuse, Overlays!JobFails, Overlays!Refused
  <2>2. OverlaysControls' /\ page'.loading = page.loading
    BY <1>0, <2>1 DEF OverlaysControls
  <2>3. OverlaysPast' /\ past'.overlapped = past.overlapped
    BY <1>0, <2>1 DEF OverlaysPast
  <2>4. EditsAsListed => EditsAsListed'
    BY <2>1, <2>2 DEF EditsAsListed, Overlays!ListedOnce
  <2> QED
    BY <1>0, <2>1, <2>2, <2>3, <2>4 DEF OverlaysInv
<1> QED
  BY <1>1, <1>2, <1>3

\* A step that is not of a card leaves the cards, or closes some.
LEMMA OverlaysStart ==
  ASSUME OverlaysInv, UNCHANGED <<list, past, loads, cards>>, OverlaysControls', page'.loading = page.loading
  PROVE  OverlaysInv'
BY OverlaysRest DEF OverlaysInv

LEMMA OverlaysOfCard ==
  ASSUME OverlaysInv, NEW w \in Overlays!Visible, w.oid \in Streams, Overlays!Expand(w.oid) \/ Overlays!Edit(w.oid)
  PROVE  OverlaysInv'
<1>0. OverlaysPast /\ OverlaysControls /\ AreCards(cards)
  BY DEF OverlaysInv
<1>1. UNCHANGED <<list, past, page, loads>> /\ OverlaysControls'
  BY <1>0, ControlsKept DEF Overlays!Expand, Overlays!Edit, Overlays!Acts
<1>2. CASE Overlays!Expand(w.oid)
  <2>1. cards' = [cards EXCEPT ![w.oid] = [Overlays!NoCards[w.oid] EXCEPT !.open = ~cards[w.oid].open]]
    BY <1>2 DEF Overlays!Expand
  <2>2. PICK c : c = [Overlays!NoCards[w.oid] EXCEPT !.open = ~cards[w.oid].open]
    OBVIOUS
  <2>3. c = [open |-> c.open, renaming |-> c.renaming, text |-> c.text] /\ ~c.renaming
    BY <2>2 DEF Overlays!NoCards
  <2>4. DOMAIN cards' = Streams /\ \A o \in Streams : cards'[o] = IF o = w.oid THEN c ELSE cards[o]
    BY <1>0, <2>1, <2>2 DEF AreCards
  <2>5. AreCards(cards') /\ \A o \in Streams : cards'[o].renaming => cards[o].renaming /\ cards'[o].text = cards[o].text
    BY <1>0, <2>3, <2>4 DEF AreCards
  <2> QED
    BY <1>1, <2>5, OverlaysRest
<1>3. CASE Overlays!Edit(w.oid)
  <2> DEFINE opened == IF cards[w.oid].renaming THEN None ELSE Overlays!Row(w.oid).description
  <2>1. cards' = [cards EXCEPT ![w.oid] = [open |-> TRUE, renaming |-> ~@.renaming, text |-> opened]]
    BY <1>3 DEF Overlays!Edit
  <2>2. DOMAIN cards' = Streams /\ \A o \in Streams : cards'[o] =
          IF o = w.oid THEN [open |-> TRUE, renaming |-> ~cards[o].renaming, text |-> opened] ELSE cards[o]
    BY <1>0, <2>1 DEF AreCards
  <2>3. w \in Overlays!Range(list) /\ ~page.loading
    BY DEF Overlays!Visible, Overlays!ListShown
  <2>4. Overlays!ListedOnce(w.oid) => Overlays!Row(w.oid) = w
    BY <2>3 DEF Overlays!ListedOnce, Overlays!Row
  <2>5. AreCards(cards')
    BY <1>0, <2>2 DEF AreCards
  <2>6. ASSUME EditsAsListed PROVE EditsAsListed'
    <3>1. loads' = {}
      BY <1>1, <2>3, <2>6 DEF EditsAsListed
    <3>2. \A o \in Streams : Overlays!ListedOnce(o)' = Overlays!ListedOnce(o)
      BY <1>1 DEF Overlays!ListedOnce
    <3>3. ASSUME NEW o \in Streams, NEW r \in Overlays!Range(list),
                 r.oid = o, Overlays!ListedOnce(o), cards'[o].renaming
          PROVE  cards'[o].text = r.description
      <4>1. CASE o = w.oid
        <5>1. r = w /\ Overlays!Row(o) = w
          BY <2>3, <2>4, <3>3, <4>1 DEF Overlays!ListedOnce
        <5>a. cards'[o].renaming = ~cards[o].renaming
          BY <2>2, <4>1
        <5>2. ~cards[o].renaming
          BY <3>3, <5>a
        <5> QED
          BY <2>2, <4>1, <5>1, <5>2
      <4>2. CASE o # w.oid
        BY <2>2, <2>6, <3>3, <4>2 DEF EditsAsListed
      <4> QED
        BY <4>1, <4>2
    <3> QED
      BY <1>1, <3>1, <3>2, <3>3 DEF EditsAsListed, Overlays!ListedOnce
  <2>7. OverlaysPast'
    BY <1>0, <1>1 DEF OverlaysPast
  <2> QED
    BY <1>1, <2>5, <2>6, <2>7 DEF OverlaysInv
<1> QED
  BY <1>2, <1>3

LEMMA OverlaysFilter ==
  ASSUME OverlaysInv, Overlays!Filter
  PROVE  OverlaysInv'
<1>0. OverlaysPast /\ OverlaysControls /\ AreCards(cards)
  BY DEF OverlaysInv
<1>1. UNCHANGED <<list, past, loads>>
  BY DEF Overlays!Filter, Overlays!Acts
<1>2. \E q, f : page' = [page EXCEPT !.query = q, !.favoritesOnly = f]
  <2>1. CASE \E o \in Streams : page' = [page EXCEPT !.query = o]
    <3>1. PICK o : page' = [page EXCEPT !.query = o]
      BY <2>1
    <3>2. page' = [page EXCEPT !.query = o, !.favoritesOnly = page.favoritesOnly]
      BY <1>0, <3>1 DEF OverlaysControls
    <3> QED
      BY <3>2
  <2>2. CASE page' = [page EXCEPT !.favoritesOnly = ~@]
    <3>1. page' = [page EXCEPT !.query = page.query, !.favoritesOnly = ~page.favoritesOnly]
      BY <1>0, <2>2 DEF OverlaysControls
    <3> QED
      BY <3>1
  <2>3. CASE page' = [page EXCEPT !.query = None, !.favoritesOnly = FALSE]
    BY <2>3
  <2> QED
    BY <2>1, <2>2, <2>3 DEF Overlays!Filter
<1>3. OverlaysControls' /\ page'.loading = page.loading
  BY <1>0, <1>2 DEF OverlaysControls
<1>4. DOMAIN cards' = Streams /\ \A o \in Streams : cards'[o] \in {cards[o], Overlays!NoCards[o]}
  BY DEF Overlays!Filter
<1>5. AreCards(cards') /\ \A o \in Streams : cards'[o].renaming => cards[o].renaming /\ cards'[o].text = cards[o].text
  BY <1>0, <1>4, NoCardsAreOpen DEF AreCards
<1> QED
  BY <1>1, <1>3, <1>5, OverlaysRest

LEMMA OverlaysAct ==
  ASSUME OverlaysInv, Overlays!Operator
  PROVE  OverlaysInv'
<1>0. OverlaysPast /\ OverlaysControls /\ AreCards(cards)
  BY DEF OverlaysInv
<1>1. CASE Overlays!ToggleForm
  <2>1. UNCHANGED <<list, past, loads, cards>> /\ OverlaysControls' /\ page'.loading = page.loading
    BY <1>0, <1>1 DEF Overlays!ToggleForm, Overlays!Acts, OverlaysControls
  <2> QED
    BY <2>1, OverlaysStart
<1>2. CASE Overlays!Filter
  BY <1>2, OverlaysFilter
<1>3. CASE Overlays!Fade
  <2>1. UNCHANGED <<list, past, loads, cards>> /\ OverlaysControls' /\ page'.loading = page.loading
    BY <1>0, <1>3 DEF Overlays!Fade, OverlaysControls
  <2> QED
    BY <2>1, OverlaysStart
<1>4. ASSUME NEW o, NEW text, Overlays!Create(o, text) PROVE OverlaysInv'
  <2>1. UNCHANGED <<list, past, loads, cards>> /\ OverlaysControls' /\ page'.loading = page.loading
    BY <1>0, <1>4 DEF Overlays!Create, Overlays!Acts, OverlaysControls
  <2> QED
    BY <2>1, OverlaysStart
<1>5. ASSUME NEW w \in Overlays!Visible, Overlays!Expand(w.oid) \/ Overlays!Edit(w.oid) PROVE OverlaysInv'
  <2>1. CASE w.oid \in Streams
    BY <1>5, <2>1, OverlaysOfCard
  <2>2. CASE w.oid \notin Streams
    <3>1. DOMAIN cards' = Streams /\ \A o \in Streams : cards'[o] = cards[o]
      BY <1>0, <1>5, <2>2 DEF Overlays!Expand, Overlays!Edit, AreCards
    <3>2. UNCHANGED <<list, past, page, loads>>
      BY <1>5 DEF Overlays!Expand, Overlays!Edit, Overlays!Acts
    <3>3. AreCards(cards')
      BY <1>0, <3>1 DEF AreCards
    <3> QED
      BY <1>0, <3>1, <3>2, <3>3, ControlsKept, OverlaysRest
  <2> QED
    BY <2>1, <2>2
<1>6. ASSUME NEW w \in Overlays!Visible,
             \/ Overlays!ToggleFavorite(w.oid) \/ Overlays!Delete(w.oid) \/ Overlays!Rename(w.oid)
             \/ Overlays!Regenerate(w.oid) \/ Overlays!Bookmark(w.oid)
      PROVE  UNCHANGED <<list, past, loads, cards, page>>
  BY <1>6 DEF Overlays!ToggleFavorite, Overlays!Delete, Overlays!Rename, Overlays!Regenerate, Overlays!Bookmark,
     Overlays!Start, Overlays!Question, Overlays!Acts
<1>7. ASSUME NEW yes, Overlays!Answer(yes) PROVE UNCHANGED <<list, past, loads, cards, page>>
  BY <1>7 DEF Overlays!Answer
<1>8. ASSUME UNCHANGED <<list, past, loads, cards, page>> PROVE OverlaysInv'
  BY <1>0, <1>8, ControlsKept, OverlaysStart
<1> QED
  BY <1>1, <1>2, <1>3, <1>4, <1>5, <1>6, <1>7, <1>8 DEF Overlays!Operator

LEMMA OverlaysKeep == ASSUME OverlaysInv, Overlays!Next PROVE OverlaysInv'
BY OverlaysLoad, OverlaysChange, OverlaysAct DEF Overlays!Next, Overlays!Network

-----------------------------------------------------------------------------
(* The groups of teams: a card that can be used shows its group as it is.  What was   *)
(* listed of a group is so still, unless the group's own card waits for a change that *)
(* has been made, or for a list that is read since.                                    *)

Carded == Leagues \cup Circles

TeamsPast ==
  /\ past = [begun |-> past.begun, newest |-> past.newest, overtaken |-> past.overtaken,
             missed |-> past.missed, cut |-> past.cut]
  /\ past.overtaken \in BOOLEAN /\ past.missed \in BOOLEAN /\ past.cut \in BOOLEAN
  /\ past.begun \in Nat /\ past.newest \in Nat /\ past.newest <= past.begun /\ events \in Nat

IsCard(c) == c = [open |-> c.open, renaming |-> c.renaming, adding |-> c.adding,
                  chosen |-> c.chosen, query |-> c.query, busy |-> c.busy]
IsJob(j) == j = [kind |-> j.kind, what |-> j.what, value |-> j.value, id |-> j.id, stage |-> j.stage]
IsRead(l) == l = [number |-> l.number, kind |-> l.kind, for |-> l.for, groups |-> l.groups, all |-> l.all]

AreGroupCards(c) == DOMAIN c = Carded /\ \A g \in Carded : IsCard(c[g])
Within(v) == v = None \/ DOMAIN v \subseteq Carded

TeamsShape ==
  /\ AreGroupCards(cards) /\ DOMAIN members \subseteq Carded /\ DOMAIN named = Carded
  /\ Within(groups) /\ \A l \in loads : IsRead(l) /\ Within(l.groups)
  /\ \A j \in jobs : IsJob(j)
  /\ asked = None \/ (IsJob(asked) /\ asked.kind \in {"delete", "drop"} /\ asked.stage = "sent")

\* Every change has its own number, which the list read after it carries on, and every
\* list has one.
TeamsNumbers ==
  /\ \A j \in jobs : j.id \in Nat /\ j.id < events
  /\ \A j, k \in jobs : j.id = k.id => j = k
  /\ \A l \in loads : l.for = None \/ (l.for \in Nat /\ l.for < events)
  /\ \A l, m \in loads : l.for = m.for /\ l.for # None => l = m
  /\ \A j \in jobs, l \in loads : l.for # j.id
  /\ asked # None => /\ asked.id \in Nat /\ asked.id < events
                     /\ \A j \in jobs : j.id # asked.id
                     /\ \A l \in loads : l.for # asked.id
  /\ \A l \in loads : l.number \in Nat /\ l.number <= past.begun
  /\ \A l, m \in loads : l.number = m.number => l = m

GroupRow(g) == [name |-> named[g], added |-> members[g]]
Fresh(v, g) == g \in DOMAIN members /\ v[g] = GroupRow(g)

\* What is to come of the group, or of every group.
Due(g, n) ==
  \/ /\ cards[g].busy # None
     /\ \/ \E j \in jobs : j.id = cards[g].busy /\ j.stage = "done"
        \/ \E m \in loads : m.for = cards[g].busy /\ m.number > n
  \/ \E j \in jobs : j.kind = "drop" /\ j.stage = "done"
  \/ \E m \in loads : m.kind = "drop" /\ m.number > n

Vouched(v, n) == \A g \in DOMAIN v : Fresh(v, g) \/ Due(g, n)

TeamsTrusted ==
  /\ \A j \in jobs : j.kind \in TeamPage!OfCard => j.what \in Carded /\ cards[j.what].busy = j.id
  /\ asked # None /\ asked.kind = "delete" =>
       groups # None /\ asked.what \in DOMAIN groups /\ cards[asked.what].busy = None
  /\ groups # None => Vouched(groups, past.newest)
  /\ \A l \in loads : l.groups # None /\ l.number >= past.newest => Vouched(l.groups, l.number)

Trusting == ~past.overtaken /\ ~past.missed /\ ~past.cut

TeamsInv ==
  /\ TeamsPast /\ TeamsShape /\ TeamsNumbers
  /\ Trusting => TeamsTrusted

LEMMA NoneIsNoNumber == None \notin Nat /\ None \notin Carded
BY ListsAssumption DEF TeamPage!TeamsAssumption, Carded

LEMMA TeamsHold == ASSUME TeamsInv PROVE TeamPage!FreeCardsAreFresh
<1> SUFFICES ASSUME TeamPage!Good, ~past.cut, ~TeamPage!Dropping, groups # None,
                    NEW g \in DOMAIN groups, cards[g].busy = None, g \in DOMAIN members
             PROVE  groups[g] = TeamPage!Rows[g]
  BY DEF TeamPage!FreeCardsAreFresh
<1>1. Vouched(groups, past.newest)
  BY DEF TeamsInv, Trusting, TeamsTrusted, TeamPage!Good
<1>2. ~Due(g, past.newest)
  BY DEF Due, TeamPage!Dropping
<1>3. groups[g] = GroupRow(g)
  BY <1>1, <1>2 DEF Vouched, Fresh
<1> QED
  BY <1>3 DEF TeamPage!Rows, GroupRow

LEMMA TeamsBegins == ASSUME TeamPage!Init PROVE TeamsInv
<1>1. TeamsPast
  BY DEF TeamPage!Init, TeamsPast
<1>2. DOMAIN cards = Carded /\ \A g \in Carded : cards[g] = TeamPage!Closed
  BY DEF TeamPage!Init, Carded
<1>3. AreGroupCards(cards)
  BY <1>2 DEF AreGroupCards, IsCard, TeamPage!Closed
<1>4. DOMAIN members \subseteq Carded /\ DOMAIN named = Carded
  BY ListsAssumption DEF TeamPage!Init, TeamPage!TeamsAssumption, Carded
<1>5. \A l \in loads : l = [number |-> 1, kind |-> None, for |-> None, groups |-> None, all |-> None]
  BY DEF TeamPage!Init, TeamPage!Read
<1>6. groups = None /\ jobs = {} /\ asked = None /\ past.begun = 1
  BY DEF TeamPage!Init
<1>7. TeamsShape
  BY <1>3, <1>4, <1>5, <1>6 DEF TeamsShape, Within, IsRead
<1>8. TeamsNumbers
  BY <1>5, <1>6 DEF TeamsNumbers
<1>9. TeamsTrusted
  BY <1>5, <1>6 DEF TeamsTrusted
<1> QED
  BY <1>1, <1>7, <1>8, <1>9 DEF TeamsInv

-----------------------------------------------------------------------------
(* What only touches the cards *)

SameBusy(c) == \A g \in Carded : c[g].busy = cards[g].busy

LEMMA TeamsRest ==
  ASSUME TeamsInv, UNCHANGED <<members, named, groups, jobs, loads, past>>, events' \in Nat, events <= events',
         AreGroupCards(cards'), SameBusy(cards'), asked' = asked \/ asked' = None
  PROVE  TeamsInv'
<1>1. TeamsPast' /\ TeamsShape'
  BY DEF TeamsInv, TeamsPast, TeamsShape
<1>2. TeamsNumbers'
  <2>1. \A x : x \in Nat /\ x < events => x < events'
    BY DEF TeamsInv, TeamsPast
  <2> QED
    BY <2>1 DEF TeamsInv, TeamsNumbers
<1>3. ASSUME Trusting PROVE TeamsTrusted'
  <2>1. TeamsTrusted
    BY <1>3 DEF TeamsInv
  <2>2. \A v, n : Within(v) /\ v # None /\ Vouched(v, n) => Vouched(v, n)'
    <3> SUFFICES ASSUME NEW v, NEW n, Within(v), v # None, Vouched(v, n), NEW g \in DOMAIN v
                 PROVE  Fresh(v, g)' \/ Due(g, n)'
      BY DEF Vouched
    <3>1. cards'[g].busy = cards[g].busy
      BY DEF SameBusy, Within
    <3>2. Fresh(v, g) => Fresh(v, g)'
      BY DEF Fresh, GroupRow
    <3>3. Due(g, n) => Due(g, n)'
      BY <3>1 DEF Due
    <3> QED
      BY <3>2, <3>3 DEF Vouched
  <2>3. Within(groups) /\ \A l \in loads : Within(l.groups)
    BY DEF TeamsInv, TeamsShape
  <2>4. groups' # None => Vouched(groups, past.newest)'
    <3>1. Vouched(groups, past.newest)' <=> \A g \in DOMAIN groups' : Fresh(groups, g)' \/ Due(g, past.newest)'
      BY DEF Vouched
    <3> QED
      BY <2>1, <2>2, <2>3, <3>1 DEF TeamsTrusted, Vouched, Fresh, Due, GroupRow
  <2>5. \A l \in loads' : l.groups # None /\ l.number >= past'.newest => Vouched(l.groups, l.number)'
    BY <2>1, <2>2, <2>3 DEF TeamsTrusted
  <2>6. \A j \in jobs' : j.kind \in TeamPage!OfCard => j.what \in Carded /\ cards'[j.what].busy = j.id
    BY <2>1 DEF TeamsTrusted, SameBusy
  <2>7. asked' # None /\ asked'.kind = "delete" =>
          groups' # None /\ asked'.what \in DOMAIN groups' /\ cards'[asked'.what].busy = None
    BY <2>1, <2>3 DEF TeamsTrusted, SameBusy, Within
  <2> QED
    BY <2>4, <2>5, <2>6, <2>7 DEF TeamsTrusted, TeamPage!OfCard
<1> QED
  BY <1>1, <1>2, <1>3 DEF TeamsInv, Trusting

-----------------------------------------------------------------------------
(* A change is asked about, or begins *)

LEMMA TeamsAsk ==
  ASSUME TeamsInv, UNCHANGED <<members, named, groups, jobs, loads, past, cards>>, asked = None, events' = events + 1,
         IsJob(asked'), asked'.kind \in {"delete", "drop"}, asked'.stage = "sent", asked'.id = events,
         asked'.kind = "delete" => groups # None /\ asked'.what \in DOMAIN groups /\ cards[asked'.what].busy = None
  PROVE  TeamsInv'
<1>1. TeamsPast' /\ TeamsShape'
  BY DEF TeamsInv, TeamsPast, TeamsShape
<1>2. events \in Nat
  BY DEF TeamsInv, TeamsPast
<1>3. TeamsNumbers'
  <2>1. /\ \A j \in jobs' : j.id \in Nat /\ j.id < events'
        /\ \A l \in loads' : l.for = None \/ (l.for \in Nat /\ l.for < events')
    BY <1>2 DEF TeamsInv, TeamsNumbers
  <2>2. asked'.id \in Nat /\ asked'.id < events'
    BY <1>2
  <2>3. (\A j \in jobs' : j.id # asked'.id) /\ \A l \in loads' : l.for # asked'.id
    BY <1>2, NoneIsNoNumber DEF TeamsInv, TeamsNumbers
  <2> QED
    BY <2>1, <2>2, <2>3 DEF TeamsInv, TeamsNumbers
<1>4. TeamsTrusted => TeamsTrusted'
  BY DEF TeamsTrusted, Vouched, Fresh, Due, GroupRow
<1> QED
  BY <1>1, <1>3, <1>4 DEF TeamsInv, Trusting

LEMMA TeamsSend ==
  ASSUME TeamsInv, UNCHANGED <<members, named, groups, loads, past>>, asked' = None, AreGroupCards(cards'),
         NEW j, jobs' = jobs \cup {j}, IsJob(j), j.stage = "sent",
         \/ asked = None /\ j.id = events /\ events' = events + 1
         \/ asked # None /\ j = asked /\ events' = events,
         TeamsTrusted => /\ j.kind \in TeamPage!OfCard => j.what \in Carded /\ cards'[j.what].busy = j.id
                         /\ \A g \in Carded : \/ cards'[g].busy = cards[g].busy
                                              \/ cards[g].busy = None
  PROVE  TeamsInv'
<1>1. events \in Nat /\ events' \in Nat /\ events <= events'
  BY DEF TeamsInv, TeamsPast
<1>2. TeamsPast' /\ TeamsShape'
  BY <1>1 DEF TeamsInv, TeamsPast, TeamsShape
<1>3. /\ j.id \in Nat /\ j.id < events'
      /\ \A k \in jobs : k.id # j.id
      /\ \A l \in loads : l.for # j.id
  BY <1>1, NoneIsNoNumber DEF TeamsInv, TeamsNumbers
<1>4. TeamsNumbers'
  <2>1. \A x : x \in Nat /\ x < events => x < events'
    BY <1>1
  <2> QED
    BY <1>3, <2>1 DEF TeamsInv, TeamsNumbers
<1>5. ASSUME TeamsTrusted PROVE TeamsTrusted'
  <2>0. \A k \in jobs : k.kind \in TeamPage!OfCard => k.what \in Carded /\ cards[k.what].busy = k.id
    BY <1>5 DEF TeamsTrusted
  <2>1. \A k \in jobs' : k.kind \in TeamPage!OfCard => k.what \in Carded /\ cards'[k.what].busy = k.id
    <3>1. \A k \in jobs : k.id # None
      BY NoneIsNoNumber DEF TeamsInv, TeamsNumbers
    <3> QED
      BY <1>5, <2>0, <3>1
  <2>2. Within(groups) /\ \A l \in loads : Within(l.groups)
    BY DEF TeamsInv, TeamsShape
  <2>3. \A g \in Carded : \A n : Due(g, n) => Due(g, n)'
    BY <1>5 DEF Due
  <2>4. \A v, g : Fresh(v, g) => Fresh(v, g)'
    BY DEF Fresh, GroupRow
  <2>5. groups' # None => Vouched(groups, past.newest)'
    <3>1. groups # None => \A g \in DOMAIN groups : g \in Carded /\ (Fresh(groups, g) \/ Due(g, past.newest))
      BY <1>5, <2>2 DEF TeamsTrusted, Vouched, Within
    <3>2. \A g \in Carded : Fresh(groups, g) => Fresh(groups, g)'
      BY DEF Fresh, GroupRow
    <3>3. \A g \in Carded : Due(g, past.newest) => Due(g, past.newest)'
      BY <1>5 DEF Due
    <3> QED
      BY <3>1, <3>2, <3>3 DEF Vouched
  <2>6. \A l \in loads' : l.groups # None /\ l.number >= past'.newest => Vouched(l.groups, l.number)'
    BY <1>5, <2>2, <2>3, <2>4 DEF TeamsTrusted, Vouched, Within
  <2> QED
    BY <2>1, <2>5, <2>6 DEF TeamsTrusted, TeamPage!OfCard
<1> QED
  BY <1>2, <1>4, <1>5 DEF TeamsInv, Trusting

LEMMA TeamsCards ==
  ASSUME TeamsInv, groups # None, NEW g \in DOMAIN groups,
         \/ TeamPage!Toggle(g) \/ TeamPage!StartRename(g) \/ TeamPage!ToggleAdding(g) \/ TeamPage!Choose(g) \/ TeamPage!Filter(g)
  PROVE  TeamsInv'
<1>1. g \in Carded /\ AreGroupCards(cards) /\ IsCard(cards[g])
  BY DEF TeamsInv, TeamsShape, Within, AreGroupCards
<1> DEFINE c == cards[g]
<1>2. \E d : TeamPage!Sets(g, d) /\ IsCard(d) /\ d.busy = c.busy
  <2> HIDE DEF c
  <2>0. IsCard(c)
    BY <1>1 DEF c
  <2>1. ASSUME NEW o, NEW d, d = [c EXCEPT !.open = o] PROVE IsCard(d) /\ d.busy = c.busy
    BY <2>0, <2>1 DEF IsCard
  <2>2. ASSUME NEW o, NEW k, NEW q, NEW d, d = [c EXCEPT !.open = o, !.chosen = k, !.query = q] PROVE IsCard(d) /\ d.busy = c.busy
    BY <2>0, <2>2 DEF IsCard
  <2>3. ASSUME NEW o, NEW d, d = [c EXCEPT !.renaming = o] PROVE IsCard(d) /\ d.busy = c.busy
    BY <2>0, <2>3 DEF IsCard
  <2>4. ASSUME NEW d, d = [c EXCEPT !.adding = ~@, !.chosen = {}, !.query = None] PROVE IsCard(d) /\ d.busy = c.busy
    BY <2>0, <2>4 DEF IsCard
  <2>5. ASSUME NEW k, NEW d, d = [c EXCEPT !.chosen = k] PROVE IsCard(d) /\ d.busy = c.busy
    BY <2>0, <2>5 DEF IsCard
  <2>6. ASSUME NEW q, NEW d, d = [c EXCEPT !.query = q] PROVE IsCard(d) /\ d.busy = c.busy
    BY <2>0, <2>6 DEF IsCard
  <2>7. CASE TeamPage!Toggle(g)
    <3>1. PICK d : TeamPage!Sets(g, d) /\ d = IF c.open THEN [c EXCEPT !.open = FALSE, !.chosen = {}, !.query = None]
                                                    ELSE [c EXCEPT !.open = TRUE]
      BY <2>7 DEF TeamPage!Toggle, c
    <3>2. IsCard(d) /\ d.busy = c.busy
      BY <2>1, <2>2, <3>1
    <3> QED
      BY <3>1, <3>2
  <2>8. CASE TeamPage!StartRename(g)
    <3>1. PICK d : TeamPage!Sets(g, d) /\ d = [c EXCEPT !.renaming = TRUE]
      BY <2>8 DEF TeamPage!StartRename, c
    <3>2. IsCard(d) /\ d.busy = c.busy
      BY <2>3, <3>1
    <3> QED
      BY <3>1, <3>2
  <2>9. CASE TeamPage!ToggleAdding(g)
    <3>1. PICK d : TeamPage!Sets(g, d) /\ d = [c EXCEPT !.adding = ~@, !.chosen = {}, !.query = None]
      BY <2>9 DEF TeamPage!ToggleAdding, c
    <3>2. IsCard(d) /\ d.busy = c.busy
      BY <2>4, <3>1
    <3> QED
      BY <3>1, <3>2
  <2>10. CASE TeamPage!Choose(g)
    <3>1. PICK k, d : TeamPage!Sets(g, d) /\ d = [c EXCEPT !.chosen = k]
      BY <2>10 DEF TeamPage!Choose, c
    <3>2. IsCard(d) /\ d.busy = c.busy
      BY <2>5, <3>1
    <3> QED
      BY <3>1, <3>2
  <2>11. CASE TeamPage!Filter(g)
    <3>1. PICK q, d : TeamPage!Sets(g, d) /\ d = [c EXCEPT !.query = q]
      BY <2>11 DEF TeamPage!Filter, c
    <3>2. IsCard(d) /\ d.busy = c.busy
      BY <2>6, <3>1
    <3> QED
      BY <3>1, <3>2
  <2> QED
    BY <2>7, <2>8, <2>9, <2>10, <2>11
<1>3. PICK d : TeamPage!Sets(g, d) /\ IsCard(d) /\ d.busy = c.busy
  BY <1>2
<1>4. DOMAIN cards' = Carded /\ \A h \in Carded : cards'[h] = IF h = g THEN d ELSE cards[h]
  BY <1>1, <1>3 DEF TeamPage!Sets, AreGroupCards
<1>5. AreGroupCards(cards') /\ SameBusy(cards')
  BY <1>1, <1>3, <1>4 DEF AreGroupCards, SameBusy
<1>6. UNCHANGED <<members, named, groups, jobs, loads, past, asked>> /\ events' = events + 1
  BY <1>3 DEF TeamPage!Sets, TeamPage!Acts, TeamPage!server
<1>7. events \in Nat
  BY DEF TeamsInv, TeamsPast
<1> QED
  BY <1>5, <1>6, <1>7, TeamsRest

LEMMA TeamsRun ==
  ASSUME TeamsInv, groups # None, NEW g \in DOMAIN groups,
         TeamPage!SaveName(g) \/ TeamPage!AddTeams(g) \/ TeamPage!RemoveTeam(g)
  PROVE  TeamsInv'
<1>1. g \in Carded /\ AreGroupCards(cards) /\ IsCard(cards[g])
  BY DEF TeamsInv, TeamsShape, Within, AreGroupCards
<1>2. PICK k, x : TeamPage!Run(g, TeamPage!Job(k, g, x)) /\ k \in TeamPage!OfCard
  BY DEF TeamPage!SaveName, TeamPage!AddTeams, TeamPage!RemoveTeam, TeamPage!OfCard
<1>3. PICK j : j = TeamPage!Job(k, g, x)
  OBVIOUS
<1>4. IsJob(j) /\ j.stage = "sent" /\ j.id = events /\ j.what = g
  BY <1>3 DEF IsJob, TeamPage!Job
<1>5. /\ UNCHANGED <<members, named, groups, loads, past, asked>> /\ events' = events + 1 /\ asked = None
      /\ jobs' = jobs \cup {j} /\ cards' = [cards EXCEPT ![g].busy = j.id] /\ cards[g].busy = None
  BY <1>2, <1>3 DEF TeamPage!Run, TeamPage!Acts, TeamPage!server, TeamPage!Send, TeamPage!Holds
<1>6. PICK d : d = [cards[g] EXCEPT !.busy = j.id]
  OBVIOUS
<1>7. IsCard(d) /\ d.busy = j.id
  BY <1>1, <1>6 DEF IsCard
<1>8. DOMAIN cards' = Carded /\ \A h \in Carded : cards'[h] = IF h = g THEN d ELSE cards[h]
  BY <1>1, <1>5, <1>6 DEF AreGroupCards
<1>9. AreGroupCards(cards')
  BY <1>1, <1>7, <1>8 DEF AreGroupCards
<1> QED
  BY <1>1, <1>4, <1>5, <1>7, <1>8, <1>9, TeamsSend

LEMMA TeamsAsked ==
  ASSUME TeamsInv, groups # None, NEW g \in DOMAIN groups, TeamPage!DeleteGroup(g)
  PROVE  TeamsInv'
<1>1. /\ UNCHANGED <<members, named, groups, jobs, loads, past, cards>> /\ asked = None /\ events' = events + 1
      /\ asked' = TeamPage!Job("delete", g, None) /\ cards[g].busy = None
  BY DEF TeamPage!DeleteGroup, TeamPage!Acts, TeamPage!server
<1>2. IsJob(asked') /\ asked'.kind = "delete" /\ asked'.what = g /\ asked'.stage = "sent" /\ asked'.id = events
  BY <1>1 DEF TeamPage!Job, IsJob
<1> QED
  BY <1>1, <1>2, TeamsAsk

LEMMA TeamsOfCustoms ==
  ASSUME TeamsInv, TeamPage!OnCustoms
  PROVE  TeamsInv'
<1>0. events \in Nat /\ AreGroupCards(cards)
  BY DEF TeamsInv, TeamsPast, TeamsShape
<1>1. PICK t : TeamPage!ToggleEdit(t) \/ TeamPage!SaveTeam(t) \/ TeamPage!DeleteTeam(t)
  BY DEF TeamPage!OnCustoms
<1>2. UNCHANGED <<members, named, groups, loads, past, cards>> /\ asked = None /\ events' = events + 1
  BY <1>1 DEF TeamPage!ToggleEdit, TeamPage!SaveTeam, TeamPage!DeleteTeam, TeamPage!Acts, TeamPage!server
<1>3. CASE TeamPage!ToggleEdit(t)
  <2>1. UNCHANGED <<jobs, asked>>
    BY <1>3 DEF TeamPage!ToggleEdit
  <2> QED
    BY <1>0, <1>2, <2>1, TeamsRest DEF SameBusy
<1>4. CASE TeamPage!SaveTeam(t)
  <2>1. PICK j : j = TeamPage!Job("save", t, None)
    OBVIOUS
  <2>2. jobs' = jobs \cup {j} /\ asked' = asked
    BY <1>4, <2>1 DEF TeamPage!SaveTeam, TeamPage!Send
  <2>3. IsJob(j) /\ j.stage = "sent" /\ j.id = events /\ j.kind \notin TeamPage!OfCard
    BY <2>1 DEF IsJob, TeamPage!Job, TeamPage!OfCard
  <2> QED
    BY <1>0, <1>2, <2>2, <2>3, TeamsSend
<1>5. CASE TeamPage!DeleteTeam(t)
  <2>1. UNCHANGED jobs /\ asked' = TeamPage!Job("drop", t, None)
    BY <1>5 DEF TeamPage!DeleteTeam
  <2>2. IsJob(asked') /\ asked'.kind = "drop" /\ asked'.stage = "sent" /\ asked'.id = events
    BY <2>1 DEF TeamPage!Job, IsJob
  <2> QED
    BY <1>2, <2>1, <2>2, TeamsAsk
<1> QED
  BY <1>1, <1>3, <1>4, <1>5

LEMMA TeamsSubmit ==
  ASSUME TeamsInv, NEW kind \in TeamPage!OfForm, TeamPage!Submit(kind)
  PROVE  TeamsInv'
<1>0. AreGroupCards(cards)
  BY DEF TeamsInv, TeamsShape
<1>1. PICK j : j = TeamPage!Job(kind, None, None)
  OBVIOUS
<1>2. /\ UNCHANGED <<members, named, groups, loads, past, cards, asked>> /\ asked = None /\ events' = events + 1
      /\ jobs' = jobs \cup {j}
  BY <1>1 DEF TeamPage!Submit, TeamPage!Acts, TeamPage!server, TeamPage!Send
<1>3. IsJob(j) /\ j.stage = "sent" /\ j.id = events /\ j.kind \notin TeamPage!OfCard
  BY <1>1 DEF IsJob, TeamPage!Job, TeamPage!OfCard, TeamPage!OfForm
<1> QED
  BY <1>0, <1>2, <1>3, TeamsSend

LEMMA TeamsAnswered ==
  ASSUME TeamsInv, NEW yes \in BOOLEAN, TeamPage!Answer(yes)
  PROVE  TeamsInv'
<1>0. events \in Nat /\ AreGroupCards(cards) /\ Within(groups)
  BY DEF TeamsInv, TeamsPast, TeamsShape
<1>1. asked # None /\ asked' = None /\ UNCHANGED <<members, named, groups, loads, past, events>>
  BY DEF TeamPage!Answer, TeamPage!server
<1>2. CASE ~yes
  <2>1. UNCHANGED <<jobs, cards>>
    BY <1>2 DEF TeamPage!Answer
  <2> QED
    BY <1>0, <1>1, <2>1, TeamsRest DEF SameBusy
<1>3. CASE yes /\ asked.kind = "delete" /\ asked.what \in DOMAIN groups
  <2>1. jobs' = jobs \cup {asked} /\ cards' = [cards EXCEPT ![asked.what].busy = asked.id]
    BY <1>3 DEF TeamPage!Answer, TeamPage!Send, TeamPage!Holds
  <2>2. IsJob(asked) /\ asked.stage = "sent" /\ asked.kind \in TeamPage!OfCard
    BY <1>1, <1>3 DEF TeamsInv, TeamsShape, TeamPage!OfCard
  <2>3. AreGroupCards(cards') /\ \A g \in Carded : g # asked.what => cards'[g].busy = cards[g].busy
    <3>1. CASE asked.what \in Carded
      <4>1. PICK d : d = [cards[asked.what] EXCEPT !.busy = asked.id]
        OBVIOUS
      <4>2. IsCard(cards[asked.what])
        BY <1>0, <3>1 DEF AreGroupCards
      <4>3. IsCard(d)
        BY <4>1, <4>2 DEF IsCard
      <4>4. DOMAIN cards' = Carded /\ \A g \in Carded : cards'[g] = IF g = asked.what THEN d ELSE cards[g]
        BY <1>0, <2>1, <3>1, <4>1 DEF AreGroupCards
      <4> QED
        BY <1>0, <4>3, <4>4 DEF AreGroupCards
    <3>2. CASE asked.what \notin Carded
      <4>1. DOMAIN cards' = Carded /\ \A g \in Carded : cards'[g] = cards[g]
        BY <1>0, <2>1, <3>2 DEF AreGroupCards
      <4> QED
        BY <1>0, <4>1 DEF AreGroupCards
    <3> QED
      BY <3>1, <3>2
  <2>4. ASSUME TeamsTrusted PROVE asked.what \in Carded /\ cards'[asked.what].busy = asked.id /\ cards[asked.what].busy = None
    <3>1. asked.what \in Carded /\ cards[asked.what].busy = None
      BY <1>0, <1>1, <1>3, <2>4 DEF TeamsTrusted, Within
    <3>2. cards'[asked.what] = [cards[asked.what] EXCEPT !.busy = asked.id] /\ IsCard(cards[asked.what])
      BY <1>0, <2>1, <3>1 DEF AreGroupCards
    <3> QED
      BY <3>1, <3>2 DEF IsCard
  <2>5. TeamsTrusted => /\ asked.kind \in TeamPage!OfCard => asked.what \in Carded /\ cards'[asked.what].busy = asked.id
                        /\ \A g \in Carded : cards'[g].busy = cards[g].busy \/ cards[g].busy = None
    BY <2>3, <2>4
  <2> QED
    BY <1>1, <2>1, <2>2, <2>3, <2>5, TeamsSend
<1>4. CASE yes /\ ~(asked.kind = "delete" /\ asked.what \in DOMAIN groups)
  <2>1. jobs' = jobs \cup {asked} /\ cards' = cards
    BY <1>4 DEF TeamPage!Answer, TeamPage!Send
  <2>2. IsJob(asked) /\ asked.stage = "sent"
    BY <1>1 DEF TeamsInv, TeamsShape
  <2>3. TeamsTrusted => asked.kind \notin TeamPage!OfCard
    BY <1>1, <1>4 DEF TeamsInv, TeamsShape, TeamsTrusted, TeamPage!OfCard
  <2> QED
    BY <1>0, <1>1, <2>1, <2>2, <2>3, TeamsSend
<1> QED
  BY <1>2, <1>3, <1>4

LEMMA TeamsAct ==
  ASSUME TeamsInv, TeamPage!Operator
  PROVE  TeamsInv'
<1>1. ASSUME TeamPage!OnCards PROVE TeamsInv'
  BY <1>1, TeamsCards, TeamsRun, TeamsAsked DEF TeamPage!OnCards
<1> QED
  BY <1>1, TeamsOfCustoms, TeamsSubmit, TeamsAnswered DEF TeamPage!Operator

-----------------------------------------------------------------------------
(* The lists *)

LEMMA CardReleased ==
  ASSUME NEW c, NEW f, IsCard(c)
  PROVE  IsCard(TeamPage!Release(c, f)) /\ TeamPage!Release(c, f).busy = IF c.busy = f THEN None ELSE c.busy
<1>1. ASSUME NEW d, d = [c EXCEPT !.busy = None] PROVE IsCard(d) /\ d.busy = None
  BY <1>1 DEF IsCard
<1> QED
  BY <1>1 DEF TeamPage!Release

\* A list that is answered has the same number, and is read for the same change.
LEMMA TeamsReads ==
  ASSUME TeamsInv, UNCHANGED <<members, named, groups, cards, asked, jobs, events, past>>,
         NEW l \in loads, NEW m, loads' = (loads \ {l}) \cup {m}, IsRead(m),
         m.number = l.number, m.kind = l.kind, m.for = l.for, Within(m.groups),
         m.groups = l.groups \/ (m.groups # None /\ \A g \in DOMAIN m.groups : Fresh(m.groups, g))
  PROVE  TeamsInv'
<1>1. TeamsPast' /\ TeamsShape'
  BY DEF TeamsInv, TeamsPast, TeamsShape
<1>2. TeamsNumbers'
  BY DEF TeamsInv, TeamsNumbers
<1>3. ASSUME TeamsTrusted PROVE TeamsTrusted'
  <2>1. \A g, n : Due(g, n) => Due(g, n)'
    BY DEF Due
  <2>2. \A v, g : Fresh(v, g) => Fresh(v, g)'
    BY DEF Fresh, GroupRow
  <2>3. \A v, n : Vouched(v, n) => Vouched(v, n)'
    BY <2>1, <2>2 DEF Vouched
  <2>4. groups' # None => Vouched(groups, past.newest)'
    <3>1. groups # None => \A g \in DOMAIN groups : Fresh(groups, g) \/ Due(g, past.newest)
      BY <1>3 DEF TeamsTrusted, Vouched
    <3>2. \A g : Fresh(groups, g) => Fresh(groups, g)'
      BY DEF Fresh, GroupRow
    <3>3. \A g : Due(g, past.newest) => Due(g, past.newest)'
      BY DEF Due
    <3> QED
      BY <3>1, <3>2, <3>3 DEF Vouched
  <2>5. \A k \in loads' : k.groups # None /\ k.number >= past'.newest => Vouched(k.groups, k.number)'
    <3>1. CASE m.groups = l.groups
      BY <1>3, <2>3, <3>1 DEF TeamsTrusted
    <3>2. CASE m.groups # None /\ \A g \in DOMAIN m.groups : Fresh(m.groups, g)
      <4>1. Vouched(m.groups, m.number)
        BY <3>2 DEF Vouched
      <4> QED
        BY <1>3, <2>3, <4>1 DEF TeamsTrusted
    <3> QED
      BY <3>1, <3>2
  <2> QED
    BY <1>3, <2>4, <2>5 DEF TeamsTrusted
<1> QED
  BY <1>1, <1>2, <1>3 DEF TeamsInv, Trusting

LEMMA TeamsAnswer ==
  ASSUME TeamsInv, NEW l \in loads, TeamPage!AnswerGroups(l) \/ TeamPage!AnswerAll(l)
  PROVE  TeamsInv'
<1>0. IsRead(l) /\ Within(l.groups) /\ DOMAIN members \subseteq Carded
  BY DEF TeamsInv, TeamsShape
<1>1. UNCHANGED <<members, named, groups, cards, asked, jobs, events, past>>
  BY DEF TeamPage!AnswerGroups, TeamPage!AnswerAll, TeamPage!server
<1>2. CASE TeamPage!AnswerGroups(l)
  <2>1. PICK m : m = [l EXCEPT !.groups = TeamPage!Rows]
    OBVIOUS
  <2>2. IsRead(m) /\ m.number = l.number /\ m.kind = l.kind /\ m.for = l.for /\ m.groups = TeamPage!Rows
    BY <1>0, <2>1 DEF IsRead
  <2>3. DOMAIN m.groups = DOMAIN members /\ \A g \in DOMAIN members : m.groups[g] = GroupRow(g)
    BY <2>2 DEF TeamPage!Rows, GroupRow
  <2>4. Within(m.groups) /\ \A g \in DOMAIN m.groups : Fresh(m.groups, g)
    BY <1>0, <2>3 DEF Within, Fresh
  <2>5. m.groups # None \/ m.groups = l.groups
    BY <1>2 DEF TeamPage!AnswerGroups
  <2>6. loads' = (loads \ {l}) \cup {m}
    BY <1>2, <2>1 DEF TeamPage!AnswerGroups
  <2> QED
    BY <1>1, <2>2, <2>4, <2>5, <2>6, TeamsReads
<1>3. CASE TeamPage!AnswerAll(l)
  <2>1. PICK m : m = [l EXCEPT !.all = [ids |-> TeamPage!Teams, made |-> teams]]
    OBVIOUS
  <2>2. IsRead(m) /\ m.number = l.number /\ m.kind = l.kind /\ m.for = l.for /\ m.groups = l.groups
    BY <1>0, <2>1 DEF IsRead
  <2>3. loads' = (loads \ {l}) \cup {m}
    BY <1>3, <2>1 DEF TeamPage!AnswerAll
  <2> QED
    BY <1>0, <1>1, <2>2, <2>3, TeamsReads
<1> QED
  BY <1>2, <1>3

LEMMA TeamsMissed ==
  ASSUME TeamsInv, NEW l \in loads, TeamPage!LoadFails(l)
  PROVE  TeamsInv'
<1>0. AreGroupCards(cards) /\ TeamsPast
  BY DEF TeamsInv, TeamsShape
<1>1. /\ loads' = loads \ {l} /\ past' = [past EXCEPT !.missed = TRUE]
      /\ cards' = [g \in DOMAIN cards |-> TeamPage!Release(cards[g], l.for)]
      /\ UNCHANGED <<members, named, groups, asked, jobs, events>>
  BY DEF TeamPage!LoadFails, TeamPage!server
<1>2. TeamsPast' /\ past'.missed /\ past'.begun = past.begun
  BY <1>0, <1>1 DEF TeamsPast
<1>3. DOMAIN cards' = Carded /\ \A g \in Carded : cards'[g] = TeamPage!Release(cards[g], l.for)
  BY <1>0, <1>1 DEF AreGroupCards
<1>4. AreGroupCards(cards')
  BY <1>0, <1>3, CardReleased DEF AreGroupCards
<1>5. TeamsShape'
  BY <1>1, <1>4 DEF TeamsInv, TeamsShape
<1>6. TeamsNumbers'
  BY <1>1, <1>2 DEF TeamsInv, TeamsNumbers
<1> QED
  BY <1>2, <1>5, <1>6 DEF TeamsInv, Trusting

LEMMA TeamsLand ==
  ASSUME TeamsInv, NEW l \in loads, TeamPage!Land(l)
  PROVE  TeamsInv'
<1>0. AreGroupCards(cards) /\ TeamsPast /\ Within(l.groups)
  BY DEF TeamsInv, TeamsShape
<1> DEFINE newest == IF past.newest < l.number THEN l.number ELSE past.newest
           cuts == \E g \in DOMAIN cards \ DOMAIN l.groups :
                     cards[g].busy \notin {None, l.for} \/ (asked # None /\ asked.what = g)
           late == l.number < past.newest
<1>1. /\ loads' = loads \ {l} /\ groups' = l.groups /\ l.groups # None
      /\ past' = [past EXCEPT !.newest = newest, !.overtaken = @ \/ late, !.cut = @ \/ cuts]
      /\ cards' = [g \in DOMAIN cards |-> IF g \in DOMAIN l.groups THEN TeamPage!Release(cards[g], l.for) ELSE TeamPage!Closed]
      /\ UNCHANGED <<members, named, asked, jobs, events>>
  BY DEF TeamPage!Land, TeamPage!server
<1>2. l.number \in Nat /\ l.number <= past.begun
  BY DEF TeamsInv, TeamsNumbers
<1>3. newest \in Nat /\ newest <= past.begun /\ late \in BOOLEAN /\ cuts \in BOOLEAN
  BY <1>0, <1>2 DEF TeamsPast
<1>a. cuts <=> \E g \in Carded \ DOMAIN l.groups :
                 cards[g].busy \notin {None, l.for} \/ (asked # None /\ asked.what = g)
  BY <1>0 DEF AreGroupCards
<1>b. ~late => newest = l.number
  BY <1>0, <1>2 DEF TeamsPast
<1> HIDE DEF newest, cuts, late
<1>4. /\ TeamsPast' /\ past'.begun = past.begun /\ past'.newest = newest
      /\ past'.overtaken = (past.overtaken \/ late) /\ past'.missed = past.missed /\ past'.cut = (past.cut \/ cuts)
  BY <1>0, <1>1, <1>3 DEF TeamsPast
<1>5. DOMAIN cards' = Carded /\ \A g \in Carded :
        cards'[g] = IF g \in DOMAIN l.groups THEN TeamPage!Release(cards[g], l.for) ELSE TeamPage!Closed
  BY <1>0, <1>1 DEF AreGroupCards
<1>6. AreGroupCards(cards')
  <2>1. IsCard(TeamPage!Closed)
    BY DEF IsCard, TeamPage!Closed
  <2> QED
    BY <1>0, <1>5, <2>1, CardReleased DEF AreGroupCards
<1>7. TeamsShape'
  BY <1>0, <1>1, <1>6 DEF TeamsInv, TeamsShape
<1>8. TeamsNumbers'
  BY <1>1, <1>4 DEF TeamsInv, TeamsNumbers
<1>9. ASSUME TeamsTrusted, ~late, ~cuts PROVE TeamsTrusted'
  <2>0. TeamsNumbers
    BY DEF TeamsInv
  <2>1. newest = l.number /\ past'.newest = l.number
    BY <1>4, <1>b, <1>9
  <2>2. \A g \in Carded : cards[g].busy \notin {None, l.for} => cards'[g].busy = cards[g].busy
    BY <1>0, <1>5, <1>9, <1>a, CardReleased DEF AreGroupCards
  <2>3. \A g \in Carded : cards[g].busy = None => cards'[g].busy = None
    BY <1>0, <1>5, CardReleased DEF AreGroupCards, TeamPage!Closed
  \* What is due after the list that arrives is due still.
  <2>4. \A g \in Carded : \A n : n \in Nat /\ n >= l.number /\ Due(g, n) => Due(g, n)'
    <3> SUFFICES ASSUME NEW g \in Carded, NEW n \in Nat, n >= l.number, Due(g, n)
                 PROVE  Due(g, n)'
      OBVIOUS
    <3>1. \A m \in loads : m.number > n => m \in loads'
      BY <1>1, <1>2
    <3>2. ASSUME NEW j \in jobs, j.id = cards[g].busy, cards[g].busy # None PROVE cards'[g].busy = cards[g].busy
      BY <2>0, <2>2, <3>2 DEF TeamsNumbers
    <3>3. ASSUME NEW m \in loads, m.for = cards[g].busy, m.number > n, cards[g].busy # None
          PROVE  cards'[g].busy = cards[g].busy
      <4>1. m # l
        BY <1>2, <3>3
      <4>2. l.for # m.for
        BY <2>0, <3>3, <4>1 DEF TeamsNumbers
      <4> QED
        BY <2>2, <3>3, <4>2
    <3> QED
      BY <1>1, <3>1, <3>2, <3>3 DEF Due
  <2>5. \A v, g : Fresh(v, g) => Fresh(v, g)'
    BY <1>1 DEF Fresh, GroupRow
  <2>6. Vouched(l.groups, l.number)
    <3>1. l.number >= past.newest
      BY <1>0, <1>2, <1>9 DEF late, TeamsPast
    <3> QED
      BY <1>1, <1>9, <3>1 DEF TeamsTrusted
  <2>7. Vouched(groups, past.newest)'
    <3>1. \A g \in DOMAIN l.groups : g \in Carded /\ (Fresh(l.groups, g) \/ Due(g, l.number))
      BY <1>0, <1>1, <2>6 DEF Vouched, Within
    <3>2. \A g \in Carded : Fresh(l.groups, g) => Fresh(groups, g)'
      BY <1>1 DEF Fresh, GroupRow
    <3>3. \A g \in Carded : Due(g, l.number) => Due(g, l.number)'
      BY <1>2, <2>4
    <3>4. \A g \in Carded : Due(g, l.number)' => Due(g, past.newest)'
      BY <2>1 DEF Due
    <3> QED
      BY <1>1, <3>1, <3>2, <3>3, <3>4 DEF Vouched
  <2>8. \A k \in loads' : k.groups # None /\ k.number >= past'.newest => Vouched(k.groups, k.number)'
    <3> SUFFICES ASSUME NEW k \in loads', k.groups # None, k.number >= past'.newest
                 PROVE  Vouched(k.groups, k.number)'
      OBVIOUS
    <3>1. k \in loads /\ k.number \in Nat /\ k.number >= l.number /\ Within(k.groups)
      BY <1>1, <2>0, <2>1 DEF TeamsNumbers, TeamsInv, TeamsShape
    <3>2. Vouched(k.groups, k.number)
      BY <1>0, <1>2, <1>9, <2>1, <3>1 DEF TeamsTrusted, late, TeamsPast
    <3> QED
      BY <2>4, <2>5, <3>1, <3>2 DEF Vouched, Within
  <2>9. \A j \in jobs' : j.kind \in TeamPage!OfCard => j.what \in Carded /\ cards'[j.what].busy = j.id
    BY <1>1, <1>9, <2>0, <2>2, NoneIsNoNumber DEF TeamsTrusted, TeamsNumbers
  <2>10. asked' # None /\ asked'.kind = "delete" =>
           groups' # None /\ asked'.what \in DOMAIN groups' /\ cards'[asked'.what].busy = None
    <3>1. Within(groups)
      BY DEF TeamsInv, TeamsShape
    <3> QED
      BY <1>1, <1>9, <1>a, <2>3, <3>1 DEF TeamsTrusted, Within
  <2> QED
    BY <2>7, <2>8, <2>9, <2>10 DEF TeamsTrusted, TeamPage!OfCard
<1> QED
  BY <1>4, <1>7, <1>8, <1>9 DEF TeamsInv, Trusting

-----------------------------------------------------------------------------
(* The changes *)

\* A group that a change is of is due from then on, and no other group changes.
LEMMA TeamsChange ==
  ASSUME TeamsInv, UNCHANGED <<groups, cards, asked, loads, events, past>>,
         NEW j \in jobs, NEW k, jobs' = (jobs \ {j}) \cup {k}, IsJob(k), k.id = j.id, k.kind = j.kind, k.what = j.what,
         j.stage = "sent", k.stage = "done",
         DOMAIN members' \subseteq Carded, DOMAIN named' = Carded,
         TeamsTrusted => \A g \in DOMAIN members :
           \/ g \in DOMAIN members' /\ members'[g] = members[g] /\ named'[g] = named[g]
           \/ k.kind = "drop" \/ (k.kind \in TeamPage!OfCard /\ k.what = g)
  PROVE  TeamsInv'
<1>1. TeamsPast' /\ TeamsShape'
  BY DEF TeamsInv, TeamsPast, TeamsShape
<1>2. TeamsNumbers'
  BY DEF TeamsInv, TeamsNumbers
<1>3. ASSUME TeamsTrusted PROVE TeamsTrusted'
  <2>1. \A g, n : Due(g, n) => Due(g, n)'
    BY DEF Due
  <2>2. Within(groups) /\ \A l \in loads : Within(l.groups)
    BY DEF TeamsInv, TeamsShape
  <2>3. k.id # None
    BY NoneIsNoNumber DEF TeamsInv, TeamsNumbers
  <2>4. k.kind = "drop" => \A g, n : Due(g, n)'
    BY DEF Due
  <2>5. ASSUME k.kind \in TeamPage!OfCard PROVE \A n : Due(k.what, n)'
    <3>1. cards'[k.what].busy = k.id
      BY <1>3, <2>5 DEF TeamsTrusted
    <3> QED
      BY <2>3, <3>1 DEF Due
  <2>6. \A v, g : g \in DOMAIN members /\ g \in DOMAIN members' /\ members'[g] = members[g] /\ named'[g] = named[g]
                  /\ Fresh(v, g) => Fresh(v, g)'
    BY DEF Fresh, GroupRow
  <2>7. \A v, n : v # None /\ Vouched(v, n) => Vouched(v, n)'
    <3> SUFFICES ASSUME NEW v, NEW n, v # None, Vouched(v, n), NEW g \in DOMAIN v
                 PROVE  Fresh(v, g)' \/ Due(g, n)'
      BY DEF Vouched
    <3>1. CASE Due(g, n)
      BY <2>1, <3>1
    <3>2. CASE Fresh(v, g)
      <4>1. g \in DOMAIN members
        BY <3>2 DEF Fresh
      <4> QED
        BY <1>3, <2>4, <2>5, <2>6, <3>2, <4>1
    <3> QED
      BY <3>1, <3>2 DEF Vouched
  <2>8. groups' # None => Vouched(groups, past.newest)'
    <3>1. PICK v, n : v = groups /\ n = past.newest
      OBVIOUS
    <3>2. v # None => Vouched(v, n)'
      BY <1>3, <2>7, <3>1 DEF TeamsTrusted, Vouched, Fresh, Due, GroupRow
    <3>3. \A g : (Fresh(v, g)' => Fresh(groups, g)') /\ (Due(g, n)' => Due(g, past.newest)')
      BY <3>1 DEF Fresh, Due, GroupRow
    <3> QED
      BY <3>1, <3>2, <3>3 DEF Vouched
  <2>9. \A l \in loads' : l.groups # None /\ l.number >= past'.newest => Vouched(l.groups, l.number)'
    BY <1>3, <2>7 DEF TeamsTrusted
  <2> QED
    BY <1>3, <2>8, <2>9 DEF TeamsTrusted
<1> QED
  BY <1>1, <1>2, <1>3 DEF TeamsInv, Trusting

LEMMA TeamsServe ==
  ASSUME TeamsInv, NEW j \in jobs, TeamPage!Serve(j)
  PROVE  TeamsInv'
<1>0. IsJob(j) /\ DOMAIN members \subseteq Carded /\ DOMAIN named = Carded
  BY DEF TeamsInv, TeamsShape
<1>1. PICK k : k = [j EXCEPT !.stage = "done"]
  OBVIOUS
<1>2. IsJob(k) /\ k.id = j.id /\ k.kind = j.kind /\ k.what = j.what /\ k.stage = "done"
  BY <1>0, <1>1 DEF IsJob
<1>3. j.stage = "sent" /\ TeamPage!Effect(j) /\ jobs' = (jobs \ {j}) \cup {k} /\ UNCHANGED <<groups, cards, asked, loads, events, past>>
  BY <1>1 DEF TeamPage!Serve
<1> DEFINE Same(g) == g \in DOMAIN members' /\ members'[g] = members[g] /\ named'[g] = named[g]
           Held == /\ DOMAIN members' \subseteq Carded /\ DOMAIN named' = Carded
                   /\ \A g \in DOMAIN members : \/ Same(g) \/ k.kind = "drop"
                                                \/ k.kind \in TeamPage!OfCard /\ k.what = g
<1>4. ASSUME j.kind = "group", NEW h \in TeamPage!Unmade(Circles, DOMAIN members),
             members' = TeamPage!With(members, h, {}), named' = [named EXCEPT ![h] = j.id]
      PROVE  Held
  <2>1. h \in Carded /\ h \notin DOMAIN members
    BY <1>4 DEF TeamPage!Unmade, Carded
  <2>2. DOMAIN members' = DOMAIN members \cup {h} /\ \A g \in DOMAIN members : members'[g] = members[g]
    BY <1>4, <2>1 DEF TeamPage!With
  <2>3. DOMAIN named' = Carded /\ \A g \in Carded : g # h => named'[g] = named[g]
    BY <1>0, <1>4
  <2> QED
    BY <1>0, <2>1, <2>2, <2>3
<1>5. ASSUME UNCHANGED <<members, named>> PROVE Held
  BY <1>0, <1>5
<1>6. ASSUME j.kind = "rename", named' = [named EXCEPT ![j.what] = j.id], members' = members PROVE Held
  <2>1. k.kind \in TeamPage!OfCard
    BY <1>2, <1>6 DEF TeamPage!OfCard
  <2>2. DOMAIN named' = Carded /\ \A g \in Carded : g # j.what => named'[g] = named[g]
    BY <1>0, <1>6
  <2> QED
    BY <1>0, <1>2, <1>6, <2>1, <2>2
<1>7. ASSUME j.kind \in {"add", "remove"}, NEW t, members' = [members EXCEPT ![j.what] = t], named' = named PROVE Held
  <2>1. k.kind \in TeamPage!OfCard
    BY <1>2, <1>7 DEF TeamPage!OfCard
  <2>2. DOMAIN members' = DOMAIN members /\ \A g \in DOMAIN members : g # j.what => members'[g] = members[g]
    BY <1>7
  <2> QED
    BY <1>0, <1>2, <1>7, <2>1, <2>2
<1>8. ASSUME j.kind = "delete", members' = TeamPage!Without(members, j.what), named' = named PROVE Held
  <2>1. k.kind \in TeamPage!OfCard
    BY <1>2, <1>8 DEF TeamPage!OfCard
  <2>2. DOMAIN members' = DOMAIN members \ {j.what} /\ \A g \in DOMAIN members : g # j.what => members'[g] = members[g]
    BY <1>8 DEF TeamPage!Without
  <2> QED
    BY <1>0, <1>2, <1>8, <2>1, <2>2
<1>9. ASSUME j.kind = "drop", DOMAIN members' = DOMAIN members, named' = named PROVE Held
  BY <1>0, <1>2, <1>9
<1>10. Held
  <2> HIDE DEF Held
  <2> QED
    BY <1>3, <1>4, <1>5, <1>6, <1>7, <1>8, <1>9 DEF TeamPage!Effect
<1> QED
  BY <1>2, <1>3, <1>10, TeamsChange

LEMMA TeamsDone ==
  ASSUME TeamsInv, NEW j \in jobs, TeamPage!Done(j)
  PROVE  TeamsInv'
<1>0. AreGroupCards(cards) /\ TeamsPast /\ TeamsNumbers /\ DOMAIN cards = Carded
  BY DEF TeamsInv, TeamsShape, AreGroupCards
<1>1. PICK m : m = TeamPage!Read(past.begun + 1, j.kind, j.id)
  OBVIOUS
<1>2. IsRead(m) /\ m.number = past.begun + 1 /\ m.kind = j.kind /\ m.for = j.id /\ m.groups = None
  BY <1>1 DEF IsRead, TeamPage!Read
<1>3. /\ j.stage = "done" /\ jobs' = jobs \ {j} /\ loads' = loads \cup {m}
      /\ past' = [past EXCEPT !.begun = past.begun + 1]
      /\ cards' = IF j.kind \in TeamPage!OfCard /\ cards[j.what].busy = j.id
                  THEN [cards EXCEPT ![j.what] = TeamPage!Onward(j)] ELSE cards
      /\ UNCHANGED <<members, named, groups, asked, events>>
  BY <1>1 DEF TeamPage!Done, TeamPage!Load, TeamPage!server
<1>4. /\ TeamsPast' /\ past'.begun = past.begun + 1 /\ past'.newest = past.newest
      /\ past'.overtaken = past.overtaken /\ past'.missed = past.missed /\ past'.cut = past.cut
  BY <1>0, <1>3 DEF TeamsPast
<1>5. AreGroupCards(cards') /\ SameBusy(cards')
  <2>1. CASE j.what \notin Carded \/ cards' = cards
    <3>1. DOMAIN cards' = Carded /\ \A g \in Carded : cards'[g] = cards[g]
      BY <1>0, <1>3, <2>1 DEF AreGroupCards
    <3> QED
      BY <1>0, <3>1 DEF AreGroupCards, SameBusy
  <2>2. CASE j.what \in Carded /\ cards' = [cards EXCEPT ![j.what] = TeamPage!Onward(j)]
    <3> DEFINE c == cards[j.what]
    <3>1. IsCard(c)
      BY <1>0, <2>2 DEF AreGroupCards
    <3> HIDE DEF c
    <3>2. ASSUME NEW d, d = [c EXCEPT !.renaming = FALSE] PROVE IsCard(d) /\ d.busy = c.busy
      BY <3>1, <3>2 DEF IsCard
    <3>3. ASSUME NEW d, d = [c EXCEPT !.adding = FALSE, !.chosen = {}, !.query = None] PROVE IsCard(d) /\ d.busy = c.busy
      BY <3>1, <3>3 DEF IsCard
    <3>4. IsCard(TeamPage!Onward(j)) /\ TeamPage!Onward(j).busy = cards[j.what].busy
      BY <3>1, <3>2, <3>3 DEF TeamPage!Onward, c
    <3>5. DOMAIN cards' = Carded /\ \A g \in Carded : cards'[g] = IF g = j.what THEN TeamPage!Onward(j) ELSE cards[g]
      BY <1>0, <2>2
    <3> QED
      BY <1>0, <3>4, <3>5 DEF AreGroupCards, SameBusy
  <2> QED
    BY <1>3, <2>1, <2>2
<1>6. TeamsShape'
  BY <1>2, <1>3, <1>5 DEF TeamsInv, TeamsShape, Within
<1>7. TeamsNumbers'
  <2>1. m.number \in Nat /\ m.number <= past'.begun /\ \A l \in loads : l.number <= past'.begun /\ l.number # m.number
    BY <1>0, <1>2, <1>4 DEF TeamsPast, TeamsNumbers
  <2>2. m.for \in Nat /\ m.for < events /\ \A l \in loads : l.for # m.for
    BY <1>0, <1>2 DEF TeamsNumbers
  <2>3. \A k \in jobs' : k \in jobs /\ k.id # m.for
    BY <1>0, <1>2, <1>3 DEF TeamsNumbers
  <2>4. asked # None => asked.id # m.for
    BY <1>0, <1>2 DEF TeamsNumbers
  <2> QED
    BY <1>0, <1>3, <2>1, <2>2, <2>3, <2>4 DEF TeamsNumbers
<1>8. ASSUME TeamsTrusted PROVE TeamsTrusted'
  <2>1. Within(groups) /\ \A l \in loads : Within(l.groups)
    BY DEF TeamsInv, TeamsShape
  <2>2. \A g \in Carded : \A n \in Nat : n <= past.begun /\ Due(g, n) => Due(g, n)'
    <3> SUFFICES ASSUME NEW g \in Carded, NEW n \in Nat, n <= past.begun, Due(g, n)
                 PROVE  Due(g, n)'
      OBVIOUS
    <3>1. m \in loads' /\ m.number > n
      BY <1>0, <1>2, <1>3 DEF TeamsPast
    <3>2. cards'[g].busy = cards[g].busy
      BY <1>5 DEF SameBusy
    <3>3. \A k \in jobs : k \in jobs' \/ (k.id = m.for /\ k.kind = m.kind)
      BY <1>2, <1>3
    <3>4. loads \subseteq loads'
      BY <1>3
    <3> QED
      BY <3>1, <3>2, <3>3, <3>4 DEF Due
  <2>3. \A v, g : Fresh(v, g) => Fresh(v, g)'
    BY <1>3 DEF Fresh, GroupRow
  <2>4. groups' # None => Vouched(groups, past.newest)'
    <3>1. groups # None => \A g \in DOMAIN groups : g \in Carded /\ (Fresh(groups, g) \/ Due(g, past.newest))
      BY <1>8, <2>1 DEF TeamsTrusted, Vouched, Within
    <3>2. \A g \in Carded : Fresh(groups, g) => Fresh(groups, g)'
      BY <1>3 DEF Fresh, GroupRow
    <3>3. \A g \in Carded : Due(g, past.newest) => Due(g, past.newest)'
      <4>1. \A g \in Carded : \A n : Due(g, n)' /\ n = past'.newest => Due(g, past.newest)'
        BY DEF Due
      <4> QED
        BY <1>0, <1>4, <2>2, <4>1 DEF TeamsPast
    <3> QED
      BY <1>3, <3>1, <3>2, <3>3 DEF Vouched
  <2>5. \A l \in loads' : l.groups # None /\ l.number >= past'.newest => Vouched(l.groups, l.number)'
    <3> SUFFICES ASSUME NEW l \in loads', l.groups # None, l.number >= past'.newest
                 PROVE  Vouched(l.groups, l.number)'
      OBVIOUS
    <3>1. l \in loads /\ l.number \in Nat /\ l.number <= past.begun /\ Vouched(l.groups, l.number) /\ Within(l.groups)
      BY <1>0, <1>2, <1>3, <1>4, <1>8, <2>1 DEF TeamsTrusted, TeamsNumbers
    <3> QED
      BY <2>2, <2>3, <3>1 DEF Vouched, Within
  <2>6. \A k \in jobs' : k.kind \in TeamPage!OfCard => k.what \in Carded /\ cards'[k.what].busy = k.id
    BY <1>3, <1>5, <1>8 DEF TeamsTrusted, SameBusy
  <2>7. asked' # None /\ asked'.kind = "delete" =>
          groups' # None /\ asked'.what \in DOMAIN groups' /\ cards'[asked'.what].busy = None
    BY <1>3, <1>5, <1>8, <2>1 DEF TeamsTrusted, SameBusy, Within
  <2> QED
    BY <2>4, <2>5, <2>6, <2>7 DEF TeamsTrusted, TeamPage!OfCard
<1> QED
  BY <1>4, <1>6, <1>7, <1>8 DEF TeamsInv, Trusting

LEMMA TeamsFailed ==
  ASSUME TeamsInv, NEW j \in jobs, TeamPage!Refuse(j) \/ TeamPage!JobFails(j)
  PROVE  TeamsInv'
<1>0. AreGroupCards(cards) /\ TeamsPast /\ TeamsNumbers /\ DOMAIN cards = Carded
  BY DEF TeamsInv, TeamsShape, AreGroupCards
<1> DEFINE made == j.stage = "done"
<1>1. /\ jobs' = jobs \ {j} /\ past' = [past EXCEPT !.missed = @ \/ made]
      /\ cards' = [g \in DOMAIN cards |-> TeamPage!Release(cards[g], j.id)]
      /\ UNCHANGED <<members, named, groups, asked, loads, events>>
  BY DEF TeamPage!Refuse, TeamPage!JobFails, TeamPage!Failed, TeamPage!server
<1>2. made \in BOOLEAN
  OBVIOUS
<1>a. made => j.stage = "done"
  OBVIOUS
<1>b. j.stage = "done" => made
  OBVIOUS
<1> HIDE DEF made
<1>3. /\ TeamsPast' /\ past'.begun = past.begun /\ past'.newest = past.newest
      /\ past'.overtaken = past.overtaken /\ past'.missed = (past.missed \/ made) /\ past'.cut = past.cut
  BY <1>0, <1>1, <1>2 DEF TeamsPast
<1>4. DOMAIN cards' = Carded /\ \A g \in Carded : cards'[g] = TeamPage!Release(cards[g], j.id)
  BY <1>0, <1>1
<1>5. AreGroupCards(cards') /\ \A g \in Carded : cards'[g].busy = IF cards[g].busy = j.id THEN None ELSE cards[g].busy
  BY <1>0, <1>4, CardReleased DEF AreGroupCards
<1>6. TeamsShape'
  BY <1>1, <1>5 DEF TeamsInv, TeamsShape
<1>7. TeamsNumbers'
  BY <1>0, <1>1, <1>3 DEF TeamsNumbers
<1>8. ASSUME TeamsTrusted, ~made PROVE TeamsTrusted'
  <2>1. Within(groups) /\ \A l \in loads : Within(l.groups)
    BY DEF TeamsInv, TeamsShape
  <2>2. \A g \in Carded : \A n : Due(g, n) => Due(g, n)'
    <3> SUFFICES ASSUME NEW g \in Carded, NEW n, Due(g, n)
                 PROVE  Due(g, n)'
      OBVIOUS
    <3>1. \A k \in jobs : k.stage = "done" => k \in jobs' /\ k.id # j.id
      BY <1>0, <1>1, <1>b, <1>8 DEF TeamsNumbers
    <3>2. \A m \in loads : m \in loads' /\ m.for # j.id
      BY <1>0, <1>1 DEF TeamsNumbers
    <3>3. cards[g].busy # j.id => cards'[g].busy = cards[g].busy
      BY <1>5
    <3> QED
      BY <3>1, <3>2, <3>3 DEF Due
  <2>3. \A v, g : Fresh(v, g) => Fresh(v, g)'
    BY <1>1 DEF Fresh, GroupRow
  <2>4. groups' # None => Vouched(groups, past.newest)'
    <3>1. groups # None => \A g \in DOMAIN groups : g \in Carded /\ (Fresh(groups, g) \/ Due(g, past.newest))
      BY <1>8, <2>1 DEF TeamsTrusted, Vouched, Within
    <3>2. \A g \in Carded : Fresh(groups, g) => Fresh(groups, g)'
      BY <1>1 DEF Fresh, GroupRow
    <3>3. \A g \in Carded : Due(g, past.newest) => Due(g, past.newest)'
      <4>1. \A g \in Carded : \A n : Due(g, n)' /\ n = past'.newest => Due(g, past.newest)'
        BY DEF Due
      <4> QED
        BY <1>3, <2>2, <4>1
    <3> QED
      BY <1>1, <3>1, <3>2, <3>3 DEF Vouched
  <2>5. \A l \in loads' : l.groups # None /\ l.number >= past'.newest => Vouched(l.groups, l.number)'
    BY <1>1, <1>3, <1>8, <2>1, <2>2, <2>3 DEF Vouched, Within, TeamsTrusted
  <2>6. \A k \in jobs' : k.kind \in TeamPage!OfCard => k.what \in Carded /\ cards'[k.what].busy = k.id
    BY <1>0, <1>1, <1>5, <1>8 DEF TeamsTrusted, TeamsNumbers
  <2>7. asked' # None /\ asked'.kind = "delete" =>
          groups' # None /\ asked'.what \in DOMAIN groups' /\ cards'[asked'.what].busy = None
    BY <1>1, <1>5, <1>8, <2>1 DEF TeamsTrusted, Within
  <2> QED
    BY <2>4, <2>5, <2>6, <2>7 DEF TeamsTrusted, TeamPage!OfCard
<1> QED
  BY <1>3, <1>6, <1>7, <1>8 DEF TeamsInv, Trusting

LEMMA TeamsKeep == ASSUME TeamsInv, TeamPage!Next PROVE TeamsInv'
BY TeamsAct, TeamsAnswer, TeamsLand, TeamsMissed, TeamsServe, TeamsDone, TeamsFailed DEF TeamPage!Next, TeamPage!Network

-----------------------------------------------------------------------------
LEMMA CatalogCounts == \A s : Catalog!Cardinality(s) = Cardinality(s)
BY DEF Catalog!Cardinality, Cardinality

LEMMA NamesAreFew == IsFiniteSet(TeamNames) /\ TeamNames \subseteq Nat \ {0} /\ Registered \subseteq TeamNames
BY ListsAssumption DEF Catalog!AdminTeamsAssumption, Catalog!IsFiniteSet, IsFiniteSet

\* A bounded set of numbers has a greatest.
LEMMA HighestNumber ==
  ASSUME NEW S, S # {}, NEW n \in Nat, \A x \in S : x \in Nat /\ x <= n
  PROVE  Catalog!MaxOf(S) \in S /\ \A x \in S : x <= Catalog!MaxOf(S)
<1> DEFINE D == {d \in Nat : d <= n /\ n - d \in S}
           R == OpToRel(<, Nat)
<1>1. D \subseteq Nat /\ D # {}
  <2>1. PICK x \in S : TRUE
    OBVIOUS
  <2>2. n - x \in Nat /\ n - x <= n /\ n - (n - x) = x
    BY <2>1
  <2> QED
    BY <2>1, <2>2
<1>2. PICK d \in D : \A e \in D : ~(<<e, d>> \in R)
  BY <1>1, WFMin, NatLessThanWellFounded
<1>3. \A e \in D : ~(e < d)
  BY <1>1, <1>2 DEF OpToRel
<1>4. n - d \in S /\ d \in Nat
  BY <1>2
<1>5. ASSUME NEW x \in S PROVE x <= n - d
  <2>1. n - x \in Nat /\ n - x <= n /\ n - (n - x) = x
    BY <1>5
  <2>2. n - x \in D
    BY <2>1
  <2> QED
    BY <1>3, <1>4, <1>5, <2>1, <2>2
<1>6. \E y \in S : \A x \in S : x <= y
  BY <1>4, <1>5
<1> QED
  BY <1>6 DEF Catalog!MaxOf

\* A finite set of numbers is bounded.
LEMMA FewAreBounded ==
  ASSUME NEW S, IsFiniteSet(S), S \subseteq Nat
  PROVE  \E n \in Nat : \A x \in S : x <= n
<1>1. PICK q \in Seq(S) : \A x \in S : \E k \in 1..Len(q) : q[k] = x
  BY DEF IsFiniteSet
<1> DEFINE Bad == {d \in 0..Len(q) : ~\E n \in Nat : \A k \in 1..d : q[k] <= n}
           R == OpToRel(<, Nat)
<1>2. Len(q) \in Nat /\ \A k \in 1..Len(q) : q[k] \in Nat
  <2>1. Len(q) \in Nat /\ q \in [1..Len(q) -> S]
    OBVIOUS
  <2> QED
    BY <2>1
<1>3. Bad = {}
  <2> SUFFICES ASSUME Bad # {} PROVE FALSE
    OBVIOUS
  <2>1. Bad \subseteq Nat
    BY <1>2
  <2>2. PICK d \in Bad : \A e \in Bad : ~(<<e, d>> \in R)
    BY <2>1, WFMin, NatLessThanWellFounded
  <2>3. d \in Nat /\ d <= Len(q) /\ \A e \in Bad : ~(e < d)
    <3>1. d \in Nat /\ d <= Len(q)
      <4>1. d \in 0..Len(q)
        BY <2>2
      <4> QED
        BY <1>2, <4>1
    <3>2. \A e \in Bad : e \in Nat
      BY <2>1
    <3> HIDE DEF Bad
    <3>3. \A e \in Bad : ~(e < d)
      BY <2>2, <3>1, <3>2 DEF OpToRel
    <3> QED
      BY <3>1, <3>3
  <2>4. d # 0
    <3>1. \A k \in 1..0 : q[k] <= 0
      OBVIOUS
    <3> QED
      BY <2>2, <3>1
  <2>5. d - 1 \in 0..Len(q) /\ d - 1 < d /\ d \in 1..Len(q)
    BY <1>2, <2>3, <2>4
  <2>6. PICK n \in Nat : \A k \in 1..(d - 1) : q[k] <= n
    BY <2>3, <2>5
  <2>7. PICK m \in Nat : m >= n /\ m >= q[d]
    <3>1. q[d] \in Nat
      BY <1>2, <2>5
    <3>2. PICK x \in Nat : x = q[d]
      BY <3>1
    <3>3. n + x \in Nat /\ n + x >= n /\ n + x >= x
      OBVIOUS
    <3> QED
      BY <3>2, <3>3
  <2>8. \A k \in 1..d : q[k] <= m
    <3> SUFFICES ASSUME NEW k \in 1..d PROVE q[k] <= m
      OBVIOUS
    <3>1. k = d \/ k \in 1..(d - 1)
      BY <2>3
    <3>2. q[k] \in Nat
      BY <1>2, <2>3
    <3>3. CASE k = d
      BY <2>7, <3>3
    <3>4. CASE k \in 1..(d - 1)
      <4>1. q[k] <= n
        BY <2>6, <3>4
      <4>2. PICK x \in Nat : x = q[k]
        BY <3>2
      <4>3. x <= n /\ n <= m
        BY <2>7, <4>1, <4>2
      <4>4. x <= m
        BY <4>3
      <4> QED
        BY <4>2, <4>4
    <3> QED
      BY <3>1, <3>3, <3>4
  <2> QED
    BY <2>2, <2>8
<1>4. PICK n \in Nat : \A k \in 1..Len(q) : q[k] <= n
  <2>1. Len(q) \in 0..Len(q)
    BY <1>2
  <2> QED
    BY <1>3, <2>1
<1> QED
  BY <1>1, <1>4

(* The catalog: what is ticked, and what is being edited, is the team that it was     *)
(* ticked or opened as, for a list is either current or to be read again, and what is *)
(* marked on a current list stays marked of a team that is there.                      *)

CatalogPast ==
  /\ past = [begun |-> past.begun, newest |-> past.newest, missed |-> past.missed,
             replaced |-> past.replaced, early |-> past.early, moved |-> past.moved]
  /\ past.missed \in BOOLEAN /\ past.replaced \in BOOLEAN /\ past.early \in BOOLEAN
  /\ DOMAIN past.newest = {"catalog", "section"}
  /\ past.begun \in Nat /\ past.newest["catalog"] \in Nat /\ past.newest["catalog"] <= past.begun

IsTask(j) ==
  /\ j = [kind |-> j.kind, what |-> j.what, value |-> j.value, id |-> j.id, stage |-> j.stage,
          left |-> j.left, failed |-> j.failed]
  /\ j.kind = "import" \/ (j.kind = "export" /\ j.stage = "done") => j.what \subseteq TeamNames
  /\ j.kind = "create" => j.what \in TeamNames
  /\ j.kind = "save" => j.value \in TeamNames
IsListing(l) == l = [list |-> l.list, number |-> l.number, for |-> l.for, groups |-> l.groups, catalog |-> l.catalog]
IsTeam(t) == t = [name |-> t.name, born |-> t.born, stamp |-> t.stamp] /\ t.name \in TeamNames

CatalogTasks == (\A j \in jobs : IsTask(j)) /\ (asked = None \/ IsTask(asked))
CatalogView ==
  /\ view = [query |-> view.query, creating |-> view.creating]
  /\ editor = [team |-> editor.team, busy |-> editor.busy]
  /\ json = [text |-> json.text, busy |-> json.busy] /\ (json.text = None \/ json.text \subseteq TeamNames)

CatalogNumbers ==
  /\ used \in Nat /\ \A i \in DOMAIN teams : i \in Nat /\ i <= used /\ IsTeam(teams[i])
  /\ DOMAIN catalog \subseteq Nat

CatalogListings ==
  /\ \A l \in loads : IsListing(l) /\ (l.catalog # None => DOMAIN l.catalog \subseteq Nat)
  /\ \A l \in loads : l.number \in Nat /\ l.number <= past.begun
  /\ \A l, m \in loads : l.number = m.number => l = m
  /\ \A l \in loads : l.list \in {"catalog", "section"}

\* A change of the teams that the page has yet to hear of, or a list of them to come.
Changing ==
  \E j \in jobs : j.kind = "bulk" \/ (j.kind \in {"create", "save", "delete", "import"} /\ j.stage = "done")
Coming(n) == \E m \in loads : m.list = "catalog" /\ m.number > n

CatalogCurrent ==
  /\ catalog = teams \/ Changing \/ Coming(past.newest["catalog"])
  /\ \A l \in loads : l.list = "catalog" /\ l.catalog # None /\ l.number >= past.newest["catalog"] =>
       l.catalog = teams \/ Changing \/ Coming(l.number)

Marked == ticked \cup {editor.team}
MarkedOn(f) == \A r \in Marked : r.id \in DOMAIN f => f[r.id].born = r.born
MarkedTeams == \A r \in Marked : r.id = None \/ (r.id \in DOMAIN teams /\ teams[r.id].born = r.born)

CatalogMarked ==
  /\ MarkedOn(catalog) /\ MarkedTeams
  /\ \A l \in loads : l.catalog # None => MarkedOn(l.catalog)

Marking == ~past.replaced /\ ~past.early /\ ~past.missed /\ ~Catalog!Deleting

CatalogShape == CatalogPast /\ CatalogTasks /\ CatalogView /\ CatalogNumbers /\ CatalogListings

CatalogInv ==
  /\ CatalogShape
  /\ ~past.missed => CatalogCurrent
  /\ Marking => CatalogMarked

LEMMA NoNumberIsNone == None \notin Nat
BY ListsAssumption DEF Catalog!AdminTeamsAssumption

LEMMA CatalogHolds == ASSUME CatalogInv PROVE Catalog!TicksStayOnTheirTeam
BY DEF CatalogInv, Marking, CatalogMarked, MarkedOn, Marked, Catalog!TicksStayOnTheirTeam

LEMMA CatalogBegins == ASSUME Catalog!Init PROVE CatalogInv
<1>1. /\ teams = [i \in Registered |-> [name |-> i, born |-> 0, stamp |-> 0]] /\ catalog = teams
      /\ jobs = {} /\ asked = None /\ loads = {} /\ ticked = {} /\ editor = Catalog!NoEditor
      /\ used = Catalog!MaxOf(Registered \cup {0})
  BY DEF Catalog!Init
<1>2. CatalogPast /\ CatalogView
  BY DEF Catalog!Init, CatalogPast, CatalogView, Catalog!NoEditor
<1>3. CatalogTasks /\ CatalogListings
  BY <1>1 DEF CatalogTasks, CatalogListings
<1>4. CatalogNumbers
  <2>1. IsFiniteSet(Registered) /\ Registered \subseteq Nat
    BY NamesAreFew, FS_Subset
  <2>2. PICK n \in Nat : \A x \in Registered : x <= n
    BY <2>1, FewAreBounded
  <2>3. used \in Registered \cup {0} /\ \A x \in Registered \cup {0} : x <= used
    <3>1. \A x \in Registered \cup {0} : x \in Nat /\ x <= n
      BY <2>1, <2>2
    <3> QED
      BY <1>1, <2>2, <3>1, HighestNumber
  <2> QED
    BY <1>1, <2>1, <2>3, NamesAreFew DEF CatalogNumbers, IsTeam
<1>5. CatalogCurrent
  BY <1>1 DEF CatalogCurrent
<1>6. CatalogMarked
  <2>1. editor.team.id = None
    BY <1>1 DEF Catalog!NoEditor, Catalog!NoTeam
  <2>2. None \notin DOMAIN catalog
    BY <1>4, NoNumberIsNone DEF CatalogNumbers
  <2> QED
    BY <1>1, <2>1, <2>2 DEF CatalogMarked, MarkedOn, MarkedTeams, Marked
<1> QED
  BY <1>2, <1>3, <1>4, <1>5, <1>6 DEF CatalogInv, CatalogShape

-----------------------------------------------------------------------------
(* What touches neither the catalog nor the lists *)

LEMMA CatalogStays ==
  ASSUME CatalogInv, UNCHANGED <<teams, used, catalog, loads, past>>, CatalogTasks', CatalogView',
         ticked' \subseteq ticked, editor'.team \in {editor.team, Catalog!NoTeam},
         Catalog!Deleting => Catalog!Deleting', Changing => Changing'
  PROVE  CatalogInv'
<1>1. CatalogShape'
  BY DEF CatalogInv, CatalogShape, CatalogPast, CatalogNumbers, CatalogListings
<1>2. ASSUME ~past.missed PROVE CatalogCurrent'
  BY <1>2 DEF CatalogInv, CatalogCurrent, Coming
<1>3. ASSUME Marking' PROVE CatalogMarked'
  <2>1. CatalogMarked
    BY <1>3 DEF CatalogInv, Marking
  <2>2. \A r \in Marked' : r \in Marked \/ r.id = None
    BY DEF Marked, Catalog!NoTeam
  <2>3. MarkedOn(catalog)' /\ \A l \in loads' : l.catalog # None => MarkedOn(l.catalog)'
    BY <2>1, <2>2, NoNumberIsNone DEF CatalogMarked, MarkedOn, CatalogInv, CatalogShape, CatalogNumbers, CatalogListings
  <2>4. MarkedTeams'
    BY <2>1, <2>2 DEF CatalogMarked, MarkedTeams
  <2> QED
    BY <2>3, <2>4 DEF CatalogMarked
<1> QED
  BY <1>1, <1>2, <1>3 DEF CatalogInv

\* A request that is sent, a question, or nothing of the kind.
LEMMA CatalogActs ==
  ASSUME CatalogInv, UNCHANGED <<teams, used, catalog, loads, past>>, CatalogView',
         ticked' \subseteq ticked, editor'.team \in {editor.team, Catalog!NoTeam},
         jobs' = jobs \/ \E j : IsTask(j) /\ jobs' = jobs \cup {j},
         asked' \in {asked, None} \/ IsTask(asked')
  PROVE  CatalogInv'
<1>1. CatalogTasks'
  BY DEF CatalogTasks, CatalogInv, CatalogShape
<1>2. (Catalog!Deleting => Catalog!Deleting') /\ (Changing => Changing')
  BY DEF Catalog!Deleting, Changing
<1> QED
  BY <1>1, <1>2, CatalogStays

LEMMA CatalogViewKept ==
  ASSUME CatalogView, view' = view \/ (\E q : view' = [view EXCEPT !.query = q]) \/ \E c : view' = [view EXCEPT !.creating = c],
         editor' = editor \/ (\E b : editor' = [editor EXCEPT !.busy = b]),
         \/ json' = json \/ (\E b : json' = [json EXCEPT !.busy = b])
         \/ \E ns : (ns = None \/ ns \subseteq TeamNames) /\ json' = [json EXCEPT !.text = ns]
  PROVE  CatalogView' /\ editor'.team = editor.team
BY DEF CatalogView

LEMMA TasksAreTasks ==
  /\ \A k, w, v : k \notin {"create", "save", "import"} => IsTask(Catalog!Job(k, w, v))
  /\ \A n \in TeamNames : IsTask(Catalog!Job("create", n, None)) /\ \A i : IsTask(Catalog!Job("save", i, n))
  /\ \A ns, v : ns \subseteq TeamNames => IsTask(Catalog!Job("import", ns, v))
BY DEF IsTask, Catalog!Job

LEMMA CatalogOfPage ==
  ASSUME CatalogInv,
         \/ \E i : Catalog!Save(i) \/ Catalog!DeleteOne(i)
         \/ \E q : Catalog!Filter(q)
         \/ \E n \in TeamNames : Catalog!Create(n)
         \/ Catalog!ClearTicks \/ Catalog!DeleteSelected \/ Catalog!CloseCreate
         \/ Catalog!FillText \/ Catalog!Export \/ \E replace \in BOOLEAN : Catalog!Import(replace)
  PROVE  CatalogInv'
<1>0. CatalogView
  BY DEF CatalogInv, CatalogShape
<1>1. ASSUME NEW i, Catalog!Save(i) PROVE CatalogInv'
  <2>1. PICK n \in TeamNames :
                 /\ jobs' = jobs \cup {Catalog!Job("save", i, n)}
                 /\ editor' = [editor EXCEPT !.busy = Catalog!Job("save", i, n).id]
    BY <1>1 DEF Catalog!Save, Catalog!Send
  <2>2. UNCHANGED <<teams, used, catalog, loads, past, view, ticked, asked, json>>
    BY <1>1 DEF Catalog!Save, Catalog!AtCatalog, Catalog!Acts, Catalog!server
  <2> QED
    BY <1>0, <2>1, <2>2, CatalogViewKept, TasksAreTasks, CatalogActs
<1>2. ASSUME NEW j, IsTask(j), Catalog!Question(j) PROVE CatalogInv'
  <2>1. UNCHANGED <<teams, used, catalog, loads, past, view, ticked, editor, jobs, json>> /\ asked' = j
    BY <1>2 DEF Catalog!Question, Catalog!Acts, Catalog!server
  <2> QED
    BY <1>0, <1>2, <2>1, CatalogViewKept, CatalogActs
<1>3. ASSUME NEW i, Catalog!DeleteOne(i) PROVE CatalogInv'
  BY <1>2, <1>3, TasksAreTasks DEF Catalog!DeleteOne
<1>4. ASSUME Catalog!DeleteSelected PROVE CatalogInv'
  <2>1. PICK c, s : Catalog!Question([Catalog!Job("bulk", c, None) EXCEPT !.left = s])
    BY <1>4 DEF Catalog!DeleteSelected
  <2>2. PICK k : k = Catalog!Job("bulk", c, None)
    OBVIOUS
  <2>3. PICK j : j = [k EXCEPT !.left = s]
    OBVIOUS
  <2>4. IsTask(j)
    BY <2>2, <2>3, TasksAreTasks DEF IsTask
  <2> QED
    BY <1>2, <2>1, <2>2, <2>3, <2>4
<1>5. ASSUME \/ \E q : Catalog!Filter(q)
             \/ Catalog!ClearTicks \/ Catalog!CloseCreate \/ Catalog!FillText
      PROVE  CatalogInv'
  <2>1. UNCHANGED <<teams, used, catalog, loads, past, editor, jobs, asked>> /\ ticked' \subseteq ticked
    BY <1>5 DEF Catalog!Filter, Catalog!ClearTicks, Catalog!CloseCreate, Catalog!FillText, Catalog!AtCatalog,
       Catalog!Acts, Catalog!server, Catalog!Quiet
  <2>2. view' = view \/ (\E q : view' = [view EXCEPT !.query = q]) \/ \E c : view' = [view EXCEPT !.creating = c]
    BY <1>5 DEF Catalog!Filter, Catalog!ClearTicks, Catalog!CloseCreate, Catalog!FillText
  <2>3. json' = json \/ \E ns : (ns = None \/ ns \subseteq TeamNames) /\ json' = [json EXCEPT !.text = ns]
    BY <1>5 DEF Catalog!Filter, Catalog!ClearTicks, Catalog!CloseCreate, Catalog!FillText
  <2> QED
    BY <1>0, <2>1, <2>2, <2>3, CatalogViewKept, CatalogActs
<1>6. ASSUME NEW n \in TeamNames, Catalog!Create(n) PROVE CatalogInv'
  <2>1. /\ UNCHANGED <<teams, used, catalog, loads, past, editor, asked, ticked, json>>
        /\ jobs' = jobs \cup {Catalog!Job("create", n, None)} /\ view' = [view EXCEPT !.creating = TRUE]
    BY <1>6 DEF Catalog!Create, Catalog!AtCatalog, Catalog!Acts, Catalog!server, Catalog!Send
  <2> QED
    BY <1>0, <2>1, CatalogViewKept, TasksAreTasks, CatalogActs
<1>7. ASSUME Catalog!Export PROVE CatalogInv'
  <2>1. /\ UNCHANGED <<teams, used, catalog, loads, past, editor, asked, ticked, view>>
        /\ jobs' = jobs \cup {Catalog!Job("export", None, None)} /\ json' = [json EXCEPT !.busy = TRUE]
    BY <1>7 DEF Catalog!Export, Catalog!AtCatalog, Catalog!Acts, Catalog!server, Catalog!Send
  <2> QED
    BY <1>0, <2>1, CatalogViewKept, TasksAreTasks, CatalogActs
<1>8. ASSUME NEW replace \in BOOLEAN, Catalog!Import(replace) PROVE CatalogInv'
  <2>0. json.text \subseteq TeamNames
    BY <1>0, <1>8 DEF Catalog!Import, CatalogView
  <2>1. CASE replace
    BY <2>0, <1>2, <1>8, <2>1, TasksAreTasks DEF Catalog!Import
  <2>2. CASE ~replace
    <3>1. /\ UNCHANGED <<teams, used, catalog, loads, past, editor, asked, ticked, view>>
          /\ jobs' = jobs \cup {Catalog!Job("import", json.text, replace)} /\ json' = [json EXCEPT !.busy = TRUE]
      BY <1>8, <2>2 DEF Catalog!Import, Catalog!AtCatalog, Catalog!Acts, Catalog!server, Catalog!Send
    <3> QED
      BY <1>0, <2>0, <3>1, CatalogViewKept, TasksAreTasks, CatalogActs
  <2> QED
    BY <2>1, <2>2
<1> QED
  BY <1>1, <1>3, <1>4, <1>5, <1>6, <1>7, <1>8

LEMMA CatalogOfGroups ==
  ASSUME CatalogInv, Catalog!InGroups \/ \E yes \in BOOLEAN : Catalog!Answer(yes)
  PROVE  CatalogInv'
<1>0. CatalogView /\ CatalogTasks
  BY DEF CatalogInv, CatalogShape
<1>1. ASSUME NEW g, NEW k \in Catalog!OfCard, NEW v, Catalog!Run(g, Catalog!Job(k, g, v)) PROVE CatalogInv'
  <2>1. /\ UNCHANGED <<teams, used, catalog, loads, past, editor, asked, ticked, view, json>>
        /\ jobs' = jobs \cup {Catalog!Job(k, g, v)}
    BY <1>1 DEF Catalog!Run, Catalog!AtGroups, Catalog!Acts, Catalog!server, Catalog!Send
  <2>2. IsTask(Catalog!Job(k, g, v))
    BY TasksAreTasks DEF Catalog!OfCard
  <2> QED
    BY <1>0, <2>1, <2>2, CatalogViewKept, CatalogActs
<1>2. ASSUME NEW g, Catalog!Publish(g) \/ Catalog!AddMember(g) \/ Catalog!RemoveMember(g) PROVE CatalogInv'
  BY <1>1, <1>2 DEF Catalog!Publish, Catalog!AddMember, Catalog!RemoveMember, Catalog!OfCard
<1>3. ASSUME NEW g, Catalog!ChooseTeam(g) PROVE CatalogInv'
  <2>1. UNCHANGED <<teams, used, catalog, loads, past, editor, asked, ticked, view, jobs, json>>
    BY <1>3 DEF Catalog!ChooseTeam, Catalog!AtGroups, Catalog!Acts, Catalog!server, Catalog!Quiet
  <2> QED
    BY <1>0, <2>1, CatalogViewKept, CatalogActs
<1>4. ASSUME NEW g, Catalog!DeleteGroup(g) PROVE CatalogInv'
  <2>1. UNCHANGED <<teams, used, catalog, loads, past, editor, ticked, view, jobs, json>>
        /\ asked' = Catalog!Job("disband", g, None)
    BY <1>4 DEF Catalog!DeleteGroup, Catalog!Question, Catalog!Acts, Catalog!server
  <2> QED
    BY <1>0, <2>1, CatalogViewKept, TasksAreTasks, CatalogActs
<1>5. ASSUME Catalog!CreateGroup PROVE CatalogInv'
  <2>1. /\ UNCHANGED <<teams, used, catalog, loads, past, editor, asked, ticked, view, json>>
        /\ jobs' = jobs \cup {Catalog!Job("group", None, None)}
    BY <1>5 DEF Catalog!CreateGroup, Catalog!AtGroups, Catalog!Acts, Catalog!server, Catalog!Send
  <2> QED
    BY <1>0, <2>1, CatalogViewKept, TasksAreTasks, CatalogActs
<1>6. ASSUME NEW yes \in BOOLEAN, Catalog!Answer(yes) PROVE CatalogInv'
  <2>1. /\ UNCHANGED <<teams, used, catalog, loads, past, editor, ticked, view>>
        /\ asked # None /\ asked' = None /\ (jobs' = jobs \/ jobs' = jobs \cup {asked})
        /\ json' = json \/ json' = [json EXCEPT !.busy = TRUE]
    BY <1>6 DEF Catalog!Answer, Catalog!server, Catalog!Send
  <2>2. IsTask(asked)
    BY <1>0, <2>1 DEF CatalogTasks
  <2> QED
    BY <1>0, <2>1, <2>2, CatalogViewKept, CatalogActs
<1> QED
  BY <1>2, <1>3, <1>4, <1>5, <1>6 DEF Catalog!InGroups

-----------------------------------------------------------------------------
(* What is ticked or opened *)

LEMMA CatalogMarks ==
  ASSUME CatalogInv, UNCHANGED <<teams, used, catalog, loads, jobs, asked, view, json>>, Catalog!Marks,
         editor' = [team |-> editor'.team, busy |-> editor'.busy],
         \A r \in Marked' : \/ r \in Marked \/ r.id = None
                            \/ r.id \in DOMAIN catalog /\ r.born = catalog[r.id].born
  PROVE  CatalogInv'
<1> DEFINE busy_ == loads # {} \/ jobs # {}
<1>0. past' = [past EXCEPT !.early = @ \/ busy_]
  BY DEF Catalog!Marks
<1>1. busy_ \in BOOLEAN
  OBVIOUS
<1>a. ~busy_ => loads = {} /\ jobs = {}
  OBVIOUS
<1> HIDE DEF busy_
<1>2. /\ CatalogPast' /\ past'.begun = past.begun /\ past'.newest = past.newest /\ past'.missed = past.missed
      /\ past'.replaced = past.replaced /\ past'.early = (past.early \/ busy_)
  BY <1>0, <1>1 DEF CatalogInv, CatalogShape, CatalogPast
<1>3. CatalogShape'
  BY <1>2 DEF CatalogInv, CatalogShape, CatalogTasks, CatalogView, CatalogNumbers, CatalogListings
<1>4. ASSUME ~past.missed PROVE CatalogCurrent'
  BY <1>2, <1>4 DEF CatalogInv, CatalogCurrent, Coming, Changing
<1>5. ASSUME Marking' PROVE CatalogMarked'
  <2>1. loads = {} /\ jobs = {} /\ CatalogMarked /\ CatalogCurrent
    BY <1>2, <1>5, <1>a DEF Marking, CatalogInv, Catalog!Deleting
  <2>2. catalog = teams
    BY <2>1 DEF CatalogCurrent, Changing, Coming
  <2>3. DOMAIN catalog \subseteq Nat
    BY DEF CatalogInv, CatalogShape, CatalogNumbers
  <2>4. \A r \in Marked' : \/ r.id = None
                           \/ r.id \in DOMAIN teams /\ teams[r.id].born = r.born
    BY <2>1, <2>2 DEF CatalogMarked, MarkedTeams
  <2> QED
    BY <2>1, <2>2, <2>3, <2>4, NoNumberIsNone DEF CatalogMarked, MarkedOn, MarkedTeams
<1> QED
  BY <1>2, <1>3, <1>4, <1>5 DEF CatalogInv

LEMMA CatalogTicks ==
  ASSUME CatalogInv, \/ \E i \in Catalog!Shown(view.query) : Catalog!Tick(i) \/ Catalog!ToggleEdit(i)
                     \/ Catalog!TickAll
  PROVE  CatalogInv'
<1>0. CatalogView
  BY DEF CatalogInv, CatalogShape
<1>1. Catalog!Shown(view.query) \subseteq DOMAIN catalog
  BY DEF Catalog!Shown, Catalog!Found, Catalog!Named
<1>2. \A i \in DOMAIN catalog : Catalog!Ref(i).id = i /\ Catalog!Ref(i).born = catalog[i].born
  BY DEF Catalog!Ref
<1>3. ASSUME NEW i \in Catalog!Shown(view.query), Catalog!Tick(i) PROVE CatalogInv'
  <2>1. UNCHANGED <<teams, used, catalog, loads, jobs, asked, view, editor, json>> /\ Catalog!Marks
    BY <1>3 DEF Catalog!Tick, Catalog!AtCatalog, Catalog!Acts, Catalog!server, Catalog!Quiet
  <2>2. ticked' \subseteq ticked \cup {Catalog!Ref(i)}
    BY <1>3 DEF Catalog!Tick
  <2> QED
    BY <1>0, <1>1, <1>2, <2>1, <2>2, CatalogMarks DEF Marked, CatalogView
<1>4. ASSUME Catalog!TickAll PROVE CatalogInv'
  <2>1. UNCHANGED <<teams, used, catalog, loads, jobs, asked, view, editor, json>> /\ Catalog!Marks
    BY <1>4 DEF Catalog!TickAll, Catalog!AtCatalog, Catalog!Acts, Catalog!server, Catalog!Quiet
  <2>2. ticked' \subseteq ticked \cup {Catalog!Ref(i) : i \in Catalog!Shown(view.query)}
    BY <1>4 DEF Catalog!TickAll
  <2> QED
    BY <1>0, <1>1, <1>2, <2>1, <2>2, CatalogMarks DEF Marked, CatalogView
<1>5. ASSUME NEW i \in Catalog!Shown(view.query), Catalog!ToggleEdit(i) PROVE CatalogInv'
  <2>1. UNCHANGED <<teams, used, catalog, loads, jobs, asked, view, ticked, json>> /\ Catalog!Marks
    BY <1>5 DEF Catalog!ToggleEdit, Catalog!AtCatalog, Catalog!Acts, Catalog!server, Catalog!Quiet
  <2>2. editor' = [team |-> Catalog!NoTeam, busy |-> None] \/ editor' = [team |-> Catalog!Ref(i), busy |-> None]
    BY <1>5 DEF Catalog!ToggleEdit, Catalog!NoEditor
  <2>3. Catalog!NoTeam.id = None
    BY DEF Catalog!NoTeam
  <2> QED
    BY <1>1, <1>2, <2>1, <2>2, <2>3, CatalogMarks DEF Marked
<1> QED
  BY <1>3, <1>4, <1>5

-----------------------------------------------------------------------------
(* The lists *)

LEMMA CatalogReads ==
  ASSUME CatalogInv, UNCHANGED <<teams, used, catalog, jobs, asked, past, view, ticked, editor, json>>,
         NEW l \in loads, NEW m, loads' = (loads \ {l}) \cup {m}, IsListing(m), m.number = l.number, m.list = l.list,
         m.catalog \in {l.catalog, teams}
  PROVE  CatalogInv'
<1>1. CatalogShape'
  BY DEF CatalogInv, CatalogShape, CatalogPast, CatalogTasks, CatalogView, CatalogNumbers, CatalogListings
<1>2. ASSUME CatalogCurrent PROVE CatalogCurrent'
  <2>1. \A n : Coming(n) => Coming(n)'
    BY DEF Coming
  <2>2. Changing => Changing'
    BY DEF Changing
  <2>3. catalog' = teams' \/ Changing' \/ Coming(past.newest["catalog"])'
    <3>1. PICK n : n = past.newest["catalog"]
      OBVIOUS
    <3>2. Coming(n)' => Coming(past.newest["catalog"])'
      BY <3>1 DEF Coming
    <3> QED
      BY <1>2, <2>1, <2>2, <3>1, <3>2 DEF CatalogCurrent
  <2>4. \A k \in loads' : k.list = "catalog" /\ k.catalog # None /\ k.number >= past'.newest["catalog"] =>
          k.catalog = teams' \/ Changing' \/ Coming(k.number)'
    BY <1>2, <2>1, <2>2 DEF CatalogCurrent
  <2> QED
    BY <2>3, <2>4 DEF CatalogCurrent
<1>3. ASSUME CatalogMarked PROVE CatalogMarked'
  <2>1. \A f : MarkedOn(f) => MarkedOn(f)'
    BY DEF MarkedOn, Marked
  <2>2. MarkedOn(catalog)' /\ MarkedTeams'
    BY <1>3 DEF CatalogMarked, MarkedOn, MarkedTeams, Marked
  <2>3. MarkedOn(teams)
    BY <1>3, NoNumberIsNone DEF CatalogMarked, MarkedTeams, MarkedOn, CatalogInv, CatalogShape, CatalogNumbers
  <2>4. PICK f : f = teams
    OBVIOUS
  <2>5. MarkedOn(f)
    BY <2>3, <2>4 DEF MarkedOn
  <2>6. \A k \in loads' : k.catalog # None => MarkedOn(k.catalog)'
    BY <1>3, <2>1, <2>4, <2>5 DEF CatalogMarked
  <2> QED
    BY <2>2, <2>6 DEF CatalogMarked
<1>4. Marking' => Marking
  BY DEF Marking, Catalog!Deleting
<1> QED
  BY <1>1, <1>2, <1>3, <1>4 DEF CatalogInv

LEMMA CatalogAnswers ==
  ASSUME CatalogInv, NEW l \in loads, Catalog!AnswerGroups(l) \/ Catalog!AnswerCatalog(l)
  PROVE  CatalogInv'
<1>0. IsListing(l)
  BY DEF CatalogInv, CatalogShape, CatalogListings
<1>1. UNCHANGED <<teams, used, catalog, jobs, asked, past, view, ticked, editor, json>>
  BY DEF Catalog!AnswerGroups, Catalog!AnswerCatalog, Catalog!server, Catalog!page
<1>2. CASE Catalog!AnswerGroups(l)
  <2>1. PICK m : m = [l EXCEPT !.groups = groups]
    OBVIOUS
  <2>2. loads' = (loads \ {l}) \cup {m}
    BY <1>2, <2>1 DEF Catalog!AnswerGroups
  <2>3. IsListing(m) /\ m.number = l.number /\ m.list = l.list /\ m.catalog = l.catalog
    BY <1>0, <2>1 DEF IsListing
  <2> QED
    BY <1>1, <2>2, <2>3, CatalogReads
<1>3. CASE Catalog!AnswerCatalog(l)
  <2>1. PICK m : m = [l EXCEPT !.catalog = teams]
    OBVIOUS
  <2>2. loads' = (loads \ {l}) \cup {m}
    BY <1>3, <2>1 DEF Catalog!AnswerCatalog
  <2>3. IsListing(m) /\ m.number = l.number /\ m.list = l.list /\ m.catalog = teams
    BY <1>0, <2>1 DEF IsListing
  <2> QED
    BY <1>1, <2>2, <2>3, CatalogReads
<1> QED
  BY <1>2, <1>3

LEMMA CatalogMisses ==
  ASSUME CatalogInv, UNCHANGED <<teams, used, catalog>>, CatalogPast', past'.missed, past'.begun = past.begun,
         CatalogTasks', CatalogView', loads' \subseteq loads
  PROVE  CatalogInv'
<1>1. CatalogShape'
  BY DEF CatalogInv, CatalogShape, CatalogNumbers, CatalogListings
<1> QED
  BY <1>1 DEF CatalogInv, Marking

LEMMA CatalogLoadFails ==
  ASSUME CatalogInv, NEW l \in loads, Catalog!LoadFails(l)
  PROVE  CatalogInv'
<1>1. /\ loads' = loads \ {l} /\ past' = [past EXCEPT !.missed = TRUE]
      /\ UNCHANGED <<teams, used, catalog, jobs, asked, view, editor, json>>
  BY DEF Catalog!LoadFails, Catalog!server
<1>2. CatalogPast' /\ past'.missed /\ past'.begun = past.begun
  BY <1>1 DEF CatalogInv, CatalogShape, CatalogPast
<1>3. CatalogTasks' /\ CatalogView'
  BY <1>1 DEF CatalogInv, CatalogShape, CatalogTasks, CatalogView
<1> QED
  BY <1>1, <1>2, <1>3, CatalogMisses

LEMMA CatalogLands ==
  ASSUME CatalogInv, NEW l \in loads, Catalog!Land(l)
  PROVE  CatalogInv'
<1>0. CatalogPast /\ CatalogTasks /\ CatalogView /\ CatalogNumbers /\ CatalogListings
  BY DEF CatalogInv, CatalogShape
<1> DEFINE newest == IF past.newest[l.list] < l.number THEN l.number ELSE past.newest[l.list]
           late == l.number < past.newest[l.list]
<1>1. /\ loads' = loads \ {l} /\ l.catalog # None
      /\ past' = [past EXCEPT !.newest = [past.newest EXCEPT ![l.list] = newest], !.missed = @ \/ late]
      /\ UNCHANGED <<teams, used, view, ticked, jobs, asked, json>>
  BY DEF Catalog!Land, Catalog!server
<1>2. late \in BOOLEAN
  OBVIOUS
<1>3. l.number \in Nat /\ l.number <= past.begun /\ l.list \in {"catalog", "section"}
  BY <1>0 DEF CatalogListings
<1>4. l.list = "catalog" => /\ newest \in Nat /\ newest <= past.begun
                            /\ ~late => newest = l.number /\ l.number >= past.newest["catalog"]
  BY <1>0, <1>3 DEF CatalogPast
<1> HIDE DEF newest, late
<1>5. /\ CatalogPast' /\ past'.begun = past.begun /\ past'.missed = (past.missed \/ late)
      /\ past'.replaced = past.replaced /\ past'.early = past.early
      /\ past'.newest["catalog"] = IF l.list = "catalog" THEN newest ELSE past.newest["catalog"]
  <2>1. PICK f : f = [past.newest EXCEPT ![l.list] = newest]
    OBVIOUS
  <2>2. DOMAIN f = {"catalog", "section"} /\ f["catalog"] = IF l.list = "catalog" THEN newest ELSE past.newest["catalog"]
    BY <1>0, <1>3, <2>1 DEF CatalogPast
  <2>3. past' = [past EXCEPT !.newest = f, !.missed = @ \/ late]
    BY <1>1, <2>1
  <2> QED
    BY <1>0, <1>2, <1>4, <2>2, <2>3 DEF CatalogPast
<1>6. IF l.list = "catalog" THEN catalog' = l.catalog ELSE catalog' = catalog
  BY DEF Catalog!Land
<1>7. CatalogView' /\ editor'.team = editor.team
  <2>1. editor' = editor \/ editor' = [editor EXCEPT !.busy = None]
    BY DEF Catalog!Land, Catalog!Mounted
  <2> QED
    BY <1>0, <1>1, <2>1, CatalogViewKept
<1>8. CatalogShape'
  BY <1>0, <1>1, <1>5, <1>6, <1>7 DEF CatalogShape, CatalogTasks, CatalogNumbers, CatalogListings
<1>9. Changing' = Changing /\ Catalog!Deleting' = Catalog!Deleting
  BY <1>1 DEF Changing, Catalog!Deleting
<1>10. ASSUME CatalogCurrent, ~late PROVE CatalogCurrent'
  <2>1. CASE l.list = "catalog"
    <3>1. past'.newest["catalog"] = l.number
      BY <1>4, <1>5, <1>10, <2>1
    <3>2. \A n \in Nat : n >= l.number /\ Coming(n) => Coming(n)'
      BY <1>0, <1>1, <1>3 DEF Coming, CatalogListings
    <3>3. l.catalog = teams \/ Changing \/ Coming(l.number)
      BY <1>1, <1>4, <1>10, <2>1 DEF CatalogCurrent
    <3>4. Coming(l.number) => Coming(past.newest["catalog"])'
      BY <1>3, <3>1, <3>2 DEF Coming
    <3>5. catalog' = teams' \/ Changing' \/ Coming(past.newest["catalog"])'
      BY <1>1, <1>6, <1>9, <2>1, <3>3, <3>4
    <3>6. \A k \in loads' : k.list = "catalog" /\ k.catalog # None /\ k.number >= past'.newest["catalog"] =>
            k.catalog = teams' \/ Changing' \/ Coming(k.number)'
      <4> SUFFICES ASSUME NEW k \in loads', k.list = "catalog", k.catalog # None, k.number >= l.number
                   PROVE  k.catalog = teams' \/ Changing' \/ Coming(k.number)'
        BY <3>1
      <4>1. k \in loads /\ k.number \in Nat /\ k.number >= past.newest["catalog"]
        BY <1>0, <1>1, <1>3, <1>4, <1>10, <2>1 DEF CatalogListings, CatalogPast
      <4> QED
        BY <1>1, <1>9, <1>10, <3>2, <4>1 DEF CatalogCurrent
    <3> QED
      BY <3>5, <3>6 DEF CatalogCurrent
  <2>2. CASE l.list # "catalog"
    <3>1. \A n : Coming(n) => Coming(n)'
      BY <1>1, <2>2 DEF Coming
    <3>2. Coming(past.newest["catalog"]) => Coming(past.newest["catalog"])'
      BY <1>1, <1>5, <2>2 DEF Coming
    <3>3. \A k \in loads' : k \in loads
      BY <1>1
    <3> QED
      BY <1>1, <1>5, <1>6, <1>9, <1>10, <2>2, <3>1, <3>2, <3>3 DEF CatalogCurrent
  <2> QED
    BY <2>1, <2>2
<1>11. ASSUME CatalogMarked PROVE CatalogMarked'
  <2>1. \A f : MarkedOn(f) => MarkedOn(f)'
    BY <1>1, <1>7 DEF MarkedOn, Marked
  <2>2. MarkedTeams'
    BY <1>1, <1>7, <1>11 DEF CatalogMarked, MarkedTeams, Marked
  <2>3. MarkedOn(catalog)'
    BY <1>1, <1>6, <1>7, <1>11 DEF CatalogMarked, MarkedOn, Marked
  <2>4. \A k \in loads' : k.catalog # None => MarkedOn(k.catalog)'
    BY <1>1, <1>11, <2>1 DEF CatalogMarked
  <2> QED
    BY <2>2, <2>3, <2>4 DEF CatalogMarked
<1>12. Marking' => Marking
  BY <1>5, <1>9 DEF Marking
<1> QED
  BY <1>5, <1>8, <1>10, <1>11, <1>12 DEF CatalogInv

-----------------------------------------------------------------------------
(* The changes of the teams *)

LEMMA CatalogChanges ==
  ASSUME CatalogInv, UNCHANGED <<catalog, view, ticked, editor, json, asked, loads>>,
         NEW j \in jobs, NEW k, jobs' = (jobs \ {j}) \cup {k}, IsTask(k), Changing', Catalog!Deleting => Catalog!Deleting',
         CatalogPast', UNCHANGED <<past.begun, past.newest, past.missed, past.early>>, past.replaced => past'.replaced,
         used' \in Nat, \A i \in DOMAIN teams' : i \in Nat /\ i <= used' /\ IsTeam(teams'[i]),
         \/ past'.replaced \/ Catalog!Deleting'
         \/ \A i \in DOMAIN teams : i \in DOMAIN teams' /\ teams'[i].born = teams[i].born
  PROVE  CatalogInv'
<1>1. CatalogShape'
  BY DEF CatalogInv, CatalogShape, CatalogTasks, CatalogView, CatalogNumbers, CatalogListings
<1>2. CatalogCurrent'
  BY DEF CatalogCurrent
<1>3. ASSUME Marking' PROVE CatalogMarked'
  <2>1. CatalogMarked
    BY <1>3 DEF Marking, CatalogInv
  <2>2. Marked' = Marked /\ MarkedTeams'
    BY <1>3, <2>1 DEF Marked, MarkedTeams, CatalogMarked, Marking
  <2> QED
    BY <2>1, <2>2 DEF CatalogMarked, MarkedOn
<1> QED
  BY <1>1, <1>2, <1>3 DEF CatalogInv

LEMMA CatalogMoves ==
  ASSUME CatalogPast, Catalog!Moves
  PROVE  CatalogPast' /\ UNCHANGED <<past.begun, past.newest, past.missed, past.early, past.replaced>>
BY DEF CatalogPast, Catalog!Moves

\* A task goes on.
LEMMA CatalogGoes ==
  ASSUME NEW j, IsTask(j), NEW s, NEW k, k = [j EXCEPT !.stage = s], j.kind # "export"
  PROVE  IsTask(k) /\ k.kind = j.kind /\ k.stage = s
BY DEF IsTask

LEMMA TeamsKept ==
  ASSUME NEW f, NEW S, Catalog!Keep(teams, S) = f
  PROVE  DOMAIN f = DOMAIN teams \cap S /\ \A i \in DOMAIN f : f[i] = teams[i]
BY DEF Catalog!Keep

LEMMA HighestOfTwo ==
  ASSUME NEW a \in Nat, NEW b \in Nat
  PROVE  Catalog!MaxOf({a, b}) \in Nat /\ a <= Catalog!MaxOf({a, b}) /\ b <= Catalog!MaxOf({a, b})
<1>1. PICK s : s = {a, b}
  OBVIOUS
<1>2. s # {} /\ a + b \in Nat /\ \A x \in s : x \in Nat /\ x <= a + b
  BY <1>1
<1>3. Catalog!MaxOf(s) \in s /\ \A x \in s : x <= Catalog!MaxOf(s)
  BY <1>2, HighestNumber
<1> QED
  BY <1>1, <1>3

LEMMA HighestTeam ==
  ASSUME CatalogNumbers
  PROVE  /\ Catalog!MaxOf(DOMAIN teams \cup {0}) \in Nat
         /\ \A i \in DOMAIN teams : i <= Catalog!MaxOf(DOMAIN teams \cup {0})
<1>1. \A x \in DOMAIN teams \cup {0} : x \in Nat /\ x <= used
  BY DEF CatalogNumbers
<1>2. used \in Nat /\ DOMAIN teams \cup {0} # {}
  BY DEF CatalogNumbers
<1> QED
  BY <1>1, <1>2, HighestNumber

LEMMA CatalogUpserts ==
  ASSUME CatalogNumbers, NEW n \in TeamNames, NEW j, Catalog!Upsert(n, j)
  PROVE  /\ used' \in Nat /\ \A i \in DOMAIN teams' : i \in Nat /\ i <= used' /\ IsTeam(teams'[i])
         /\ \A i \in DOMAIN teams : i \in DOMAIN teams' /\ teams'[i].born = teams[i].born
<1>1. CASE Catalog!Named(teams, n) # {}
  <2>1. PICK i \in Catalog!Named(teams, n) : teams' = [teams EXCEPT ![i].stamp = j.id] /\ used' = used
    BY <1>1 DEF Catalog!Upsert
  <2>2. i \in DOMAIN teams /\ IsTeam(teams[i])
    BY <2>1 DEF Catalog!Named, CatalogNumbers
  <2>3. PICK t : t = [teams[i] EXCEPT !.stamp = j.id]
    OBVIOUS
  <2>4. IsTeam(t) /\ t.born = teams[i].born
    BY <2>2, <2>3 DEF IsTeam
  <2>5. DOMAIN teams' = DOMAIN teams /\ \A k \in DOMAIN teams : teams'[k] = IF k = i THEN t ELSE teams[k]
    BY <2>1, <2>2, <2>3
  <2> QED
    BY <2>1, <2>4, <2>5 DEF CatalogNumbers
<1>2. CASE Catalog!Named(teams, n) = {}
  <2>1. PICK i \in Catalog!NextIds : /\ teams' = Catalog!With(teams, i, [name |-> n, born |-> j.id, stamp |-> j.id])
                                     /\ used' = Catalog!MaxOf({used, i})
    BY <1>2 DEF Catalog!Upsert
  <2>2. i \in Nat /\ \A k \in DOMAIN teams : k # i
    <3>1. PICK top : top = Catalog!MaxOf(DOMAIN teams \cup {0})
      OBVIOUS
    <3>2. top \in Nat /\ \A k \in DOMAIN teams : k \in Nat /\ k <= top
      BY <3>1, HighestTeam DEF CatalogNumbers
    <3>3. used \in Nat /\ \A k \in DOMAIN teams : k \in Nat /\ k <= used
      BY DEF CatalogNumbers
    <3>4. i = top + 1 \/ i = used + 1
      BY <2>1, <3>1 DEF Catalog!NextIds
    <3> QED
      BY <3>2, <3>3, <3>4
  <2>3. used' \in Nat /\ used <= used' /\ i <= used'
    BY <2>1, <2>2, HighestOfTwo DEF CatalogNumbers
  <2>4. PICK t : t = [name |-> n, born |-> j.id, stamp |-> j.id]
    OBVIOUS
  <2>5. IsTeam(t)
    BY <2>4 DEF IsTeam
  <2>6. DOMAIN teams' = DOMAIN teams \cup {i} /\ \A k \in DOMAIN teams' : teams'[k] = IF k = i THEN t ELSE teams[k]
    BY <2>1, <2>4 DEF Catalog!With
  <2> QED
    BY <2>2, <2>3, <2>5, <2>6 DEF CatalogNumbers
<1> QED
  BY <1>1, <1>2

LEMMA CatalogServesTeam ==
  ASSUME CatalogInv, NEW j \in jobs, Catalog!ServeTeam(j)
  PROVE  CatalogInv'
<1>0. CatalogPast /\ CatalogNumbers /\ IsTask(j)
  BY DEF CatalogInv, CatalogShape, CatalogTasks
<1>1. PICK k : k = [j EXCEPT !.stage = "done"]
  OBVIOUS
<1>2. IsTask(k) /\ k.kind = j.kind /\ k.stage = "done"
  BY <1>0, <1>1, CatalogGoes DEF Catalog!ServeTeam, Catalog!ServeImport
<1>3. j.stage = "sent" /\ jobs' = (jobs \ {j}) \cup {k} /\ UNCHANGED <<catalog, view, ticked, editor, json, asked, loads>>
  BY <1>1 DEF Catalog!ServeTeam, Catalog!Goes, Catalog!Alone, Catalog!page
<1>4. CatalogPast' /\ UNCHANGED <<past.begun, past.newest, past.missed, past.early, past.replaced>>
  BY <1>0, CatalogMoves DEF Catalog!ServeTeam
<1>5. j.kind \in {"create", "save", "delete"}
  BY DEF Catalog!ServeTeam
<1>6. Changing' /\ (Catalog!Deleting => Catalog!Deleting')
  BY <1>2, <1>3, <1>5 DEF Changing, Catalog!Deleting
<1>7. CASE j.kind = "create"
  <2>1. j.what \in TeamNames /\ Catalog!Upsert(j.what, j)
    BY <1>0, <1>7 DEF Catalog!ServeTeam, IsTask
  <2> QED
    BY <1>0, <1>2, <1>3, <1>4, <1>6, <2>1, CatalogUpserts, CatalogChanges
<1>8. CASE j.kind = "save"
  <2>1. /\ teams' = [teams EXCEPT ![j.what].name = j.value, ![j.what].stamp = j.id]
        /\ used' = used /\ j.what \in DOMAIN teams
    BY <1>8 DEF Catalog!ServeTeam
  <2>2. PICK t : t = [teams[j.what] EXCEPT !.name = j.value, !.stamp = j.id]
    OBVIOUS
  <2>3. IsTeam(t) /\ t.born = teams[j.what].born
    <3>1. IsTeam(teams[j.what]) /\ j.value \in TeamNames
      BY <1>0, <1>8, <2>1 DEF CatalogNumbers, IsTask
    <3> QED
      BY <2>2, <3>1 DEF IsTeam
  <2>4. DOMAIN teams' = DOMAIN teams /\ \A i \in DOMAIN teams : teams'[i] = IF i = j.what THEN t ELSE teams[i]
    BY <2>1, <2>2
  <2>5. used' \in Nat /\ \A i \in DOMAIN teams' : i \in Nat /\ i <= used' /\ IsTeam(teams'[i])
    BY <1>0, <2>1, <2>3, <2>4 DEF CatalogNumbers
  <2>6. \A i \in DOMAIN teams : i \in DOMAIN teams' /\ teams'[i].born = teams[i].born
    BY <2>3, <2>4
  <2> QED
    BY <1>2, <1>3, <1>4, <1>6, <2>5, <2>6, CatalogChanges
<1>9. CASE j.kind = "delete"
  <2>1. teams' = Catalog!Keep(teams, DOMAIN teams \ {j.what}) /\ used' = used
    BY <1>9 DEF Catalog!ServeTeam
  <2>2. used' \in Nat /\ \A i \in DOMAIN teams' : i \in Nat /\ i <= used' /\ IsTeam(teams'[i])
    BY <1>0, <2>1, TeamsKept DEF CatalogNumbers
  <2>3. Catalog!Deleting'
    BY <1>2, <1>3, <1>9 DEF Catalog!Deleting
  <2> QED
    BY <1>2, <1>3, <1>4, <1>6, <2>2, <2>3, CatalogChanges
<1> QED
  BY <1>5, <1>7, <1>8, <1>9

LEMMA CatalogServesOne ==
  ASSUME CatalogInv, NEW j \in jobs, NEW i, Catalog!ServeOne(j, i)
  PROVE  CatalogInv'
<1>0. CatalogPast /\ CatalogNumbers /\ IsTask(j)
  BY DEF CatalogInv, CatalogShape, CatalogTasks
<1> DEFINE gone == i \notin DOMAIN teams
<1>1. PICK k : k = [j EXCEPT !.left = @ \ {i}, !.failed = @ \/ gone]
  OBVIOUS
<1>2. IsTask(k) /\ k.kind = j.kind
  <2> HIDE DEF gone
  <2> QED
    BY <1>0, <1>1 DEF IsTask
<1>3. /\ j.kind = "bulk" /\ jobs' = (jobs \ {j}) \cup {k} /\ UNCHANGED <<catalog, view, ticked, editor, json, asked, loads>>
      /\ teams' = Catalog!Keep(teams, DOMAIN teams \ {i}) /\ used' = used
  BY <1>1 DEF Catalog!ServeOne, Catalog!Alone, Catalog!page
<1>4. CatalogPast' /\ UNCHANGED <<past.begun, past.newest, past.missed, past.early, past.replaced>>
  BY <1>0, CatalogMoves DEF Catalog!ServeOne
<1>5. Changing' /\ Catalog!Deleting'
  BY <1>2, <1>3 DEF Changing, Catalog!Deleting
<1>6. used' \in Nat /\ \A h \in DOMAIN teams' : h \in Nat /\ h <= used' /\ IsTeam(teams'[h])
  BY <1>0, <1>3, TeamsKept DEF CatalogNumbers
<1> QED
  BY <1>2, <1>3, <1>4, <1>5, <1>6, CatalogChanges

LEMMA CatalogServesImport ==
  ASSUME CatalogInv, NEW j \in jobs, Catalog!ServeImport(j)
  PROVE  CatalogInv'
<1>0. CatalogPast /\ CatalogNumbers /\ IsTask(j)
  BY DEF CatalogInv, CatalogShape, CatalogTasks
<1>1. PICK k : k = [j EXCEPT !.stage = "done"]
  OBVIOUS
<1>2. IsTask(k) /\ k.kind = j.kind /\ k.stage = "done"
  BY <1>0, <1>1, CatalogGoes DEF Catalog!ServeTeam, Catalog!ServeImport
<1>3. /\ j.stage = "sent" /\ j.kind = "import" /\ jobs' = (jobs \ {j}) \cup {k}
      /\ UNCHANGED <<catalog, view, ticked, editor, json, asked, loads>>
  BY <1>1 DEF Catalog!ServeImport, Catalog!Goes, Catalog!Alone, Catalog!page
<1>4. past' = [past EXCEPT !.moved = past.begun, !.replaced = @ \/ j.value] /\ used' = Catalog!MaxOf(DOMAIN teams' \cup {used})
  BY DEF Catalog!ServeImport
<1> DEFINE wipes == past.replaced \/ j.value
<1>5. wipes \in BOOLEAN /\ (past.replaced => wipes)
  BY <1>0 DEF CatalogPast
<1>a. ~wipes => ~j.value
  OBVIOUS
<1>b. past' = [past EXCEPT !.moved = past.begun, !.replaced = wipes]
  BY <1>4
<1> HIDE DEF wipes
<1>6. CatalogPast' /\ UNCHANGED <<past.begun, past.newest, past.missed, past.early>> /\ past'.replaced = wipes
  BY <1>0, <1>5, <1>b DEF CatalogPast
<1>7. Changing' /\ (Catalog!Deleting => Catalog!Deleting')
  BY <1>2, <1>3 DEF Changing, Catalog!Deleting
<1>8. PICK first \in {Catalog!MaxOf((IF j.value THEN {} ELSE DOMAIN teams) \cup {0}) + 1, used + 1} :
        teams' = Catalog!Merge(j, first)
  BY DEF Catalog!ServeImport
<1>9. first \in Nat
  <2>1. Catalog!MaxOf({} \cup {0}) \in Nat
    <3>1. PICK s : s = {} \cup {0}
      OBVIOUS
    <3>2. s # {} /\ \A x \in s : x \in Nat /\ x <= 0
      BY <3>1
    <3> QED
      BY <3>1, <3>2, HighestNumber
  <2>2. used \in Nat
    BY <1>0 DEF CatalogNumbers
  <2>3. CASE j.value
    BY <1>8, <2>1, <2>2, <2>3
  <2>4. CASE ~j.value
    <3>1. Catalog!MaxOf(DOMAIN teams \cup {0}) \in Nat
      BY <1>0, HighestTeam
    <3> QED
      BY <1>8, <2>2, <2>4, <3>1
  <2> QED
    BY <2>3, <2>4
<1> DEFINE kept == IF j.value THEN Catalog!Keep(teams, {}) ELSE [i \in DOMAIN teams |->
                     IF teams[i].name \in j.what THEN [teams[i] EXCEPT !.stamp = j.id] ELSE teams[i]]
           fresh == {n \in j.what : Catalog!Named(kept, n) = {}}
           Id(n) == first + Catalog!Cardinality({m \in fresh : m < n})
           Brand(i) == [name |-> CHOOSE n \in fresh : Id(n) = i, born |-> j.id, stamp |-> j.id]
<1>10. teams' = [i \in DOMAIN kept \cup {Id(n) : n \in fresh} |-> IF i \in DOMAIN kept THEN kept[i] ELSE Brand(i)]
  BY <1>8 DEF Catalog!Merge
<1>11. /\ \A i \in DOMAIN kept : i \in DOMAIN teams /\ IsTeam(kept[i]) /\ kept[i].born = teams[i].born
       /\ ~j.value => DOMAIN kept = DOMAIN teams
  <2>1. CASE j.value
    <3>1. DOMAIN kept = {}
      BY <2>1 DEF Catalog!Keep
    <3> QED
      BY <2>1, <3>1
  <2>2. CASE ~j.value
    <3>1. DOMAIN kept = DOMAIN teams /\ \A i \in DOMAIN teams :
            kept[i] = IF teams[i].name \in j.what THEN [teams[i] EXCEPT !.stamp = j.id] ELSE teams[i]
      BY <2>2
    <3>2. ASSUME NEW i \in DOMAIN teams, NEW t, t = [teams[i] EXCEPT !.stamp = j.id]
          PROVE  IsTeam(t) /\ t.born = teams[i].born
      BY <1>0, <3>2 DEF CatalogNumbers, IsTeam
    <3> HIDE DEF kept
    <3> QED
      BY <1>0, <3>1, <3>2 DEF CatalogNumbers
  <2> QED
    BY <2>1, <2>2
<1>12. PICK top \in Nat : \A n \in fresh : Id(n) \in Nat /\ Id(n) <= top
  <2>1. IsFiniteSet(fresh) /\ Cardinality(fresh) \in Nat /\ fresh \subseteq TeamNames
    <3>1. fresh \subseteq TeamNames
      BY <1>0, <1>3 DEF IsTask
    <3> HIDE DEF fresh
    <3> QED
      BY <3>1, NamesAreFew, FS_Subset, FS_CardinalityType
  <2> HIDE DEF fresh
  <2>2. first + Cardinality(fresh) \in Nat
    BY <1>9, <2>1
  <2>3. ASSUME NEW n \in fresh PROVE Id(n) \in Nat /\ Id(n) <= first + Cardinality(fresh)
    <3>1. PICK s : s = {m \in fresh : m < n}
      OBVIOUS
    <3>2. Cardinality(s) \in Nat /\ Cardinality(s) <= Cardinality(fresh)
      BY <2>1, <3>1, FS_Subset, FS_CardinalityType
    <3>3. Id(n) = first + Cardinality(s)
      BY <3>1, CatalogCounts
    <3> QED
      BY <1>9, <2>1, <3>2, <3>3
  <2> QED
    BY <2>2, <2>3
<1>13. \A i \in {Id(n) : n \in fresh} : IsTeam(Brand(i))
  <2>1. fresh \subseteq TeamNames
    BY <1>0, <1>3 DEF IsTask
  <2> HIDE DEF fresh, Id
  <2> QED
    BY <2>1 DEF IsTeam
<1> HIDE DEF kept, fresh, Id, Brand
<1>14. \A i \in DOMAIN teams' : i \in Nat /\ i <= used + top /\ IsTeam(teams'[i])
  <2> SUFFICES ASSUME NEW i \in DOMAIN teams' PROVE i \in Nat /\ i <= used + top /\ IsTeam(teams'[i])
    OBVIOUS
  <2>1. used \in Nat
    BY <1>0 DEF CatalogNumbers
  <2>2. CASE i \in DOMAIN kept
    BY <1>0, <1>10, <1>11, <1>12, <2>1, <2>2 DEF CatalogNumbers
  <2>3. CASE i \notin DOMAIN kept
    BY <1>10, <1>12, <1>13, <2>1, <2>3
  <2> QED
    BY <2>2, <2>3
<1>15. used' \in Nat /\ \A i \in DOMAIN teams' : i \in Nat /\ i <= used' /\ IsTeam(teams'[i])
  <2>1. used \in Nat /\ used + top \in Nat /\ used <= used + top
    BY <1>0, <1>12 DEF CatalogNumbers
  <2>2. PICK s : s = DOMAIN teams' \cup {used}
    OBVIOUS
  <2>3. s # {} /\ \A x \in s : x \in Nat /\ x <= used + top
    BY <1>14, <2>1, <2>2
  <2>4. used' \in s /\ \A x \in s : x <= used'
    BY <1>4, <2>1, <2>2, <2>3, HighestNumber
  <2> QED
    BY <1>14, <2>2, <2>3, <2>4
<1>16. \/ past'.replaced
       \/ \A i \in DOMAIN teams : i \in DOMAIN teams' /\ teams'[i].born = teams[i].born
  BY <1>6, <1>a, <1>10, <1>11
<1> QED
  BY <1>2, <1>3, <1>5, <1>6, <1>7, <1>15, <1>16, CatalogChanges

LEMMA CatalogServesExport ==
  ASSUME CatalogInv, NEW j \in jobs, Catalog!ServeExport(j)
  PROVE  CatalogInv'
<1>0. CatalogNumbers /\ CatalogTasks /\ CatalogView /\ IsTask(j)
  BY DEF CatalogInv, CatalogShape, CatalogTasks
<1> DEFINE names == {teams[i].name : i \in DOMAIN teams}
<1>1. names \subseteq TeamNames
  BY <1>0 DEF CatalogNumbers, IsTeam
<1>2. PICK k : k = [j EXCEPT !.stage = "done", !.what = names]
  OBVIOUS
<1>3. /\ j.kind = "export" /\ jobs' = (jobs \ {j}) \cup {k}
      /\ UNCHANGED <<teams, used, catalog, loads, past, view, ticked, editor, json, asked>>
  BY <1>2 DEF Catalog!ServeExport, Catalog!Alone, Catalog!page, Catalog!server
<1> HIDE DEF names
<1>4. IsTask(k) /\ k.kind = "export"
  BY <1>0, <1>1, <1>2, <1>3 DEF IsTask
<1>5. CatalogTasks' /\ CatalogView'
  BY <1>0, <1>3, <1>4 DEF CatalogTasks, CatalogView
<1>6. (Catalog!Deleting => Catalog!Deleting') /\ (Changing => Changing')
  BY <1>3 DEF Catalog!Deleting, Changing
<1> QED
  BY <1>3, <1>5, <1>6, CatalogStays

LEMMA CatalogServesGroup ==
  ASSUME CatalogInv, NEW j \in jobs, Catalog!ServeGroup(j)
  PROVE  CatalogInv'
<1>0. CatalogTasks /\ CatalogView /\ IsTask(j)
  BY DEF CatalogInv, CatalogShape, CatalogTasks
<1>1. PICK k : k = [j EXCEPT !.stage = "done"]
  OBVIOUS
<1>2. j.kind \in Catalog!OfCard \cup {"group"}
  BY DEF Catalog!ServeGroup, Catalog!OfCard
<1>3. IsTask(k) /\ k.kind = j.kind
  BY <1>0, <1>1, <1>2, CatalogGoes DEF Catalog!OfCard
<1>4. /\ jobs' = (jobs \ {j}) \cup {k}
      /\ UNCHANGED <<teams, used, catalog, loads, past, view, ticked, editor, json, asked>>
  BY <1>1 DEF Catalog!ServeGroup, Catalog!Goes, Catalog!Alone, Catalog!page
<1>5. CatalogTasks' /\ CatalogView'
  BY <1>0, <1>3, <1>4 DEF CatalogTasks, CatalogView
<1>6. (Catalog!Deleting => Catalog!Deleting') /\ (Changing => Changing')
  BY <1>2, <1>4 DEF Catalog!Deleting, Changing, Catalog!OfCard
<1> QED
  BY <1>4, <1>5, <1>6, CatalogStays

-----------------------------------------------------------------------------
(* The answers to the changes *)

LEMMA CatalogAsksAgain ==
  ASSUME CatalogInv, UNCHANGED <<teams, used, catalog, asked>>, CatalogView',
         NEW j \in jobs, jobs' = jobs \ {j}, NEW which \in {"catalog", "section"}, NEW for, Catalog!Load(which, for),
         which = "catalog" \/ (Changing => Changing'),
         \/ \A r \in Marked' : r.id = None
         \/ (\A r \in Marked' : r \in Marked) /\ (Catalog!Deleting => Catalog!Deleting')
  PROVE  CatalogInv'
<1>0. CatalogPast /\ CatalogTasks /\ CatalogNumbers /\ CatalogListings
  BY DEF CatalogInv, CatalogShape
<1>1. PICK m : m = Catalog!Read(which, past.begun + 1, for)
  OBVIOUS
<1>2. IsListing(m) /\ m.list = which /\ m.number = past.begun + 1 /\ m.catalog = None
  BY <1>1 DEF Catalog!Read, IsListing
<1>3. loads' = loads \cup {m} /\ past' = [past EXCEPT !.begun = @ + 1]
  BY <1>1 DEF Catalog!Load
<1>4. /\ CatalogPast' /\ past'.begun = past.begun + 1 /\ past'.newest = past.newest
      /\ UNCHANGED <<past.missed, past.replaced, past.early>>
  BY <1>0, <1>3 DEF CatalogPast
<1>5. past.begun \in Nat /\ \A l \in loads : l.number \in Nat /\ l.number <= past.begun
  BY <1>0 DEF CatalogPast, CatalogListings
<1>6. CatalogListings'
  <2>1. \A l \in loads' : l \in loads \/ l = m
    BY <1>3
  <2>2. \A l \in loads' : IsListing(l) /\ (l.catalog # None => DOMAIN l.catalog \subseteq Nat)
    BY <1>0, <1>2, <2>1 DEF CatalogListings
  <2>3. \A l \in loads' : l.number \in Nat /\ l.number <= past'.begun
    BY <1>2, <1>4, <1>5, <2>1
  <2>4. \A l, k \in loads' : l.number = k.number => l = k
    BY <1>0, <1>2, <1>5, <2>1 DEF CatalogListings
  <2>5. \A l \in loads' : l.list \in {"catalog", "section"}
    BY <1>0, <1>2, <2>1 DEF CatalogListings
  <2> QED
    BY <2>2, <2>3, <2>4, <2>5 DEF CatalogListings
<1>7. CatalogShape'
  BY <1>0, <1>4, <1>6 DEF CatalogShape, CatalogTasks, CatalogNumbers
<1>8. \A n : Coming(n) => Coming(n)'
  BY <1>3 DEF Coming
<1>9. ASSUME which = "catalog" PROVE \A n \in Nat : n <= past.begun => Coming(n)'
  BY <1>2, <1>3, <1>5, <1>9 DEF Coming
<1>10. ASSUME ~past.missed PROVE CatalogCurrent'
  <2>0. past.newest["catalog"] \in Nat /\ past.newest["catalog"] <= past.begun
    BY <1>0 DEF CatalogPast
  <2>1. PICK n : n = past.newest["catalog"]
    OBVIOUS
  <2>2. Coming(n)' => Coming(past.newest["catalog"])'
    BY <1>4, <2>1 DEF Coming
  <2>3. catalog = teams \/ Changing \/ Coming(n)
    BY <1>10, <2>1 DEF CatalogInv, CatalogCurrent
  <2>4. catalog' = teams' \/ Changing' \/ Coming(past.newest["catalog"])'
    BY <1>8, <1>9, <2>0, <2>1, <2>2, <2>3
  <2>5. \A l \in loads' : l.list = "catalog" /\ l.catalog # None /\ l.number >= past'.newest["catalog"] =>
          l.catalog = teams' \/ Changing' \/ Coming(l.number)'
    <3> SUFFICES ASSUME NEW l \in loads', l.list = "catalog", l.catalog # None, l.number >= past'.newest["catalog"]
                 PROVE  l.catalog = teams' \/ Changing' \/ Coming(l.number)'
      OBVIOUS
    <3>1. l \in loads /\ l.number >= past.newest["catalog"]
      BY <1>2, <1>3, <1>4
    <3>2. l.catalog = teams \/ Changing \/ Coming(l.number)
      BY <1>10, <3>1 DEF CatalogInv, CatalogCurrent
    <3> QED
      BY <1>5, <1>8, <1>9, <3>1, <3>2
  <2> QED
    BY <2>4, <2>5 DEF CatalogCurrent
<1>11. ASSUME Marking' PROVE CatalogMarked'
  <2>1. CASE \A r \in Marked' : r.id = None
    <3>1. None \notin DOMAIN catalog /\ \A l \in loads' : l.catalog # None => None \notin DOMAIN l.catalog
      BY <1>0, <1>6, NoNumberIsNone DEF CatalogNumbers, CatalogListings
    <3> QED
      BY <2>1, <3>1 DEF CatalogMarked, MarkedOn, MarkedTeams
  <2>2. CASE (\A r \in Marked' : r \in Marked) /\ (Catalog!Deleting => Catalog!Deleting')
    <3>1. CatalogMarked
      BY <1>4, <1>11, <2>2 DEF Marking, CatalogInv
    <3>2. \A f : MarkedOn(f) => MarkedOn(f)'
      BY <2>2 DEF MarkedOn
    <3>3. MarkedTeams' /\ MarkedOn(catalog)'
      BY <2>2, <3>1 DEF MarkedTeams, MarkedOn, CatalogMarked
    <3>4. \A l \in loads' : l.catalog # None => MarkedOn(l.catalog)'
      BY <1>2, <1>3, <3>1, <3>2 DEF CatalogMarked
    <3> QED
      BY <3>3, <3>4 DEF CatalogMarked
  <2> QED
    BY <2>1, <2>2
<1> QED
  BY <1>4, <1>7, <1>10, <1>11 DEF CatalogInv

LEMMA CatalogEditorAfter ==
  ASSUME NEW j, editor' = Catalog!EditorAfter(j)
  PROVE  editor' = editor \/ editor' = [editor EXCEPT !.busy = None]
BY DEF Catalog!EditorAfter

LEMMA CatalogDone ==
  ASSUME CatalogInv, NEW j \in jobs, Catalog!Done(j)
  PROVE  CatalogInv'
<1>0. CatalogView /\ CatalogTasks /\ IsTask(j)
  BY DEF CatalogInv, CatalogShape, CatalogTasks
<1>1. UNCHANGED <<teams, used, catalog, asked>> /\ jobs' = jobs \ {j}
  BY DEF Catalog!Done, Catalog!CreateDone, Catalog!DeleteDone, Catalog!BulkDone, Catalog!SaveDone, Catalog!ImportDone,
     Catalog!ExportDone, Catalog!GroupDone, Catalog!Still, Catalog!server
<1>2. CASE Catalog!CreateDone(j) \/ Catalog!DeleteDone(j) \/ Catalog!BulkDone(j)
  <2>1. /\ Catalog!Load("catalog", None) /\ ticked' = {} /\ editor' = [team |-> Catalog!NoTeam, busy |-> None]
        /\ json' = json /\ (view' = view \/ view' = [view EXCEPT !.creating = FALSE])
    BY <1>2 DEF Catalog!CreateDone, Catalog!DeleteDone, Catalog!BulkDone, Catalog!Reload, Catalog!NoEditor
  <2>2. CatalogView'
    BY <1>0, <2>1 DEF CatalogView
  <2>3. \A r \in Marked' : r.id = None
    BY <2>1 DEF Marked, Catalog!NoTeam
  <2> QED
    BY <1>1, <2>1, <2>2, <2>3, CatalogAsksAgain
<1>3. CASE Catalog!SaveDone(j) \/ Catalog!ImportDone(j)
  <2>1. /\ Catalog!Load("catalog", None) /\ ticked' = ticked /\ j.kind \in {"save", "import"} /\ view' = view
        /\ editor' = editor \/ editor' = [editor EXCEPT !.busy = None]
        /\ json' = json \/ json' = [json EXCEPT !.busy = FALSE]
    BY <1>3, CatalogEditorAfter DEF Catalog!SaveDone, Catalog!ImportDone
  <2>2. CatalogView' /\ editor'.team = editor.team
    BY <1>0, <2>1, CatalogViewKept
  <2>3. (\A r \in Marked' : r \in Marked) /\ (Catalog!Deleting => Catalog!Deleting')
    BY <1>1, <2>1, <2>2 DEF Marked, Catalog!Deleting
  <2> QED
    BY <1>1, <2>1, <2>2, <2>3, CatalogAsksAgain
<1>4. CASE Catalog!ExportDone(j)
  <2>1. /\ UNCHANGED <<view, ticked, editor, loads, past>> /\ j.kind = "export" /\ j.stage = "done"
        /\ json' = [json EXCEPT !.busy = FALSE, !.text = IF j.what = {} THEN None ELSE j.what]
    BY <1>4 DEF Catalog!ExportDone
  <2>2. CatalogTasks' /\ CatalogView'
    <3>1. j.what \subseteq TeamNames
      BY <1>0, <2>1 DEF IsTask
    <3>2. PICK text : text = IF j.what = {} THEN None ELSE j.what
      OBVIOUS
    <3>3. (text = None \/ text \subseteq TeamNames) /\ json' = [json EXCEPT !.busy = FALSE, !.text = text]
      BY <2>1, <3>1, <3>2
    <3> QED
      BY <1>0, <1>1, <2>1, <3>3 DEF CatalogTasks, CatalogView
  <2>3. (Catalog!Deleting => Catalog!Deleting') /\ (Changing => Changing')
    BY <1>1, <2>1 DEF Catalog!Deleting, Changing
  <2> QED
    BY <1>1, <2>1, <2>2, <2>3, CatalogStays
<1>5. CASE Catalog!GroupDone(j)
  <2>1. /\ Catalog!Load("section", j.id) /\ UNCHANGED <<view, ticked, editor, json>>
        /\ j.kind \in Catalog!OfCard \cup {"group"}
    BY <1>5 DEF Catalog!GroupDone
  <2>2. CatalogView' /\ (\A r \in Marked' : r \in Marked)
    BY <1>0, <2>1 DEF CatalogView, Marked
  <2>3. (Catalog!Deleting => Catalog!Deleting') /\ (Changing => Changing')
    BY <1>1, <2>1 DEF Catalog!Deleting, Changing, Catalog!OfCard
  <2> QED
    BY <1>1, <2>1, <2>2, <2>3, CatalogAsksAgain
<1> QED
  BY <1>2, <1>3, <1>4, <1>5 DEF Catalog!Done

LEMMA CatalogFails ==
  ASSUME CatalogInv, NEW j \in jobs, Catalog!Refuse(j) \/ Catalog!JobFails(j)
  PROVE  CatalogInv'
<1>0. CatalogPast /\ CatalogView /\ CatalogTasks
  BY DEF CatalogInv, CatalogShape
<1>1. Catalog!Failed(j) /\ j.kind # "bulk"
  BY DEF Catalog!Refuse, Catalog!JobFails, Catalog!OfCard
<1> DEFINE made == view.creating /\ j.kind # "create"
           held == json.busy /\ j.kind \notin {"import", "export"}
           lost == past.missed \/ j.stage = "done"
<1>2. /\ jobs' = jobs \ {j} /\ view' = [view EXCEPT !.creating = made] /\ editor' = Catalog!EditorAfter(j)
      /\ json' = [json EXCEPT !.busy = held] /\ past' = [past EXCEPT !.missed = lost]
      /\ UNCHANGED <<teams, used, catalog, asked, ticked, loads>>
  BY <1>1 DEF Catalog!Failed, Catalog!server
<1>3. lost \in BOOLEAN /\ (j.stage = "done" => lost) /\ (j.stage # "done" => lost = past.missed)
  BY <1>0 DEF CatalogPast
<1> HIDE DEF made, held, lost
<1>4. CatalogView' /\ editor'.team = editor.team /\ CatalogTasks'
  BY <1>0, <1>2, CatalogEditorAfter, CatalogViewKept DEF CatalogTasks
<1>5. CASE j.stage = "done"
  <2>1. CatalogPast' /\ past'.missed /\ past'.begun = past.begun
    BY <1>0, <1>2, <1>3, <1>5 DEF CatalogPast
  <2> QED
    BY <1>2, <1>4, <2>1, CatalogMisses
<1>6. CASE j.stage # "done"
  <2>1. past' = past
    BY <1>0, <1>2, <1>3, <1>6 DEF CatalogPast
  <2>2. (Catalog!Deleting => Catalog!Deleting') /\ (Changing => Changing')
    BY <1>1, <1>2, <1>6 DEF Catalog!Deleting, Changing
  <2> QED
    BY <1>2, <1>4, <2>1, <2>2, CatalogStays
<1> QED
  BY <1>5, <1>6

LEMMA CatalogOneFails ==
  ASSUME CatalogInv, NEW j \in jobs, NEW i, Catalog!OneFails(j, i)
  PROVE  CatalogInv'
<1>0. CatalogView /\ CatalogTasks /\ IsTask(j)
  BY DEF CatalogInv, CatalogShape, CatalogTasks
<1>1. PICK k : k = [j EXCEPT !.left = @ \ {i}, !.failed = TRUE]
  OBVIOUS
<1>2. /\ j.kind = "bulk" /\ jobs' = (jobs \ {j}) \cup {k}
      /\ UNCHANGED <<teams, used, catalog, loads, past, view, ticked, editor, json, asked>>
  BY <1>1 DEF Catalog!OneFails, Catalog!page, Catalog!server
<1>3. IsTask(k) /\ k.kind = "bulk"
  BY <1>0, <1>1, <1>2 DEF IsTask
<1>4. CatalogView' /\ CatalogTasks' /\ Catalog!Deleting' /\ Changing'
  BY <1>0, <1>2, <1>3 DEF CatalogView, CatalogTasks, Catalog!Deleting, Changing
<1> QED
  BY <1>2, <1>4, CatalogStays

\* CatalogInv is inductive.
LEMMA CatalogKeep ==
  ASSUME CatalogInv, Catalog!Next
  PROVE  CatalogInv'
<1>1. ASSUME Catalog!Network PROVE CatalogInv'
  <2>1. CASE \E l \in loads : Catalog!AnswerGroups(l) \/ Catalog!AnswerCatalog(l) \/ Catalog!Land(l) \/ Catalog!LoadFails(l)
    BY <2>1, CatalogAnswers, CatalogLands, CatalogLoadFails
  <2>2. CASE \E j \in jobs : \/ Catalog!ServeTeam(j) \/ Catalog!ServeImport(j) \/ Catalog!ServeExport(j) \/ Catalog!ServeGroup(j)
                             \/ Catalog!Done(j) \/ Catalog!Refuse(j) \/ Catalog!JobFails(j)
    BY <2>2, CatalogServesTeam, CatalogServesImport, CatalogServesExport, CatalogServesGroup, CatalogDone, CatalogFails
  <2>3. CASE \E j \in jobs : \E i \in j.left : Catalog!ServeOne(j, i) \/ Catalog!OneFails(j, i)
    BY <2>3, CatalogServesOne, CatalogOneFails
  <2> QED
    BY <1>1, <2>1, <2>2, <2>3 DEF Catalog!Network
<1>2. ASSUME Catalog!InCatalog PROVE CatalogInv'
  <2>1. CASE \E i \in Catalog!Shown(view.query) : Catalog!Tick(i) \/ Catalog!ToggleEdit(i) \/ Catalog!Save(i) \/ Catalog!DeleteOne(i)
    BY <2>1, CatalogTicks, CatalogOfPage
  <2>2. CASE ~\E i \in Catalog!Shown(view.query) : Catalog!Tick(i) \/ Catalog!ToggleEdit(i) \/ Catalog!Save(i) \/ Catalog!DeleteOne(i)
    BY <1>2, <2>2, CatalogTicks, CatalogOfPage DEF Catalog!InCatalog
  <2> QED
    BY <2>1, <2>2
<1> QED
  BY <1>1, <1>2, CatalogOfGroups DEF Catalog!Next

\* Who types into the filter does nothing else.
LEMMA FilterIsAlone ==
  ASSUME CatalogInv, Catalog!Next, view'.query # view.query
  PROVE  catalog' = catalog /\ editor' = editor
<1>0. view = [query |-> view.query, creating |-> view.creating]
  BY DEF CatalogInv, CatalogShape, CatalogView
<1>1. ASSUME NEW v, view' = [view EXCEPT !.creating = v] PROVE FALSE
  BY <1>0, <1>1
<1>2. ASSUME NEW l \in loads, Catalog!AnswerGroups(l) \/ Catalog!AnswerCatalog(l) \/ Catalog!Land(l) \/ Catalog!LoadFails(l)
      PROVE  FALSE
  BY <1>2 DEF Catalog!AnswerGroups, Catalog!AnswerCatalog, Catalog!Land, Catalog!LoadFails, Catalog!page
<1>3. ASSUME NEW j \in jobs, \/ Catalog!ServeTeam(j) \/ Catalog!ServeImport(j) \/ Catalog!ServeExport(j) \/ Catalog!ServeGroup(j)
                             \/ \E i : Catalog!ServeOne(j, i) \/ Catalog!OneFails(j, i)
      PROVE  FALSE
  <2>1. UNCHANGED Catalog!page
    BY <1>3 DEF Catalog!ServeTeam, Catalog!ServeImport, Catalog!ServeExport, Catalog!ServeGroup, Catalog!ServeOne, Catalog!OneFails, Catalog!Alone
  <2> QED
    BY <2>1 DEF Catalog!page
<1>4. ASSUME NEW j \in jobs, Catalog!Done(j) \/ Catalog!Refuse(j) \/ Catalog!JobFails(j)
      PROVE  FALSE
  <2>1. view' = view \/ \E v : view' = [view EXCEPT !.creating = v]
    BY <1>4 DEF Catalog!Done, Catalog!CreateDone, Catalog!DeleteDone, Catalog!BulkDone, Catalog!SaveDone, Catalog!ImportDone,
       Catalog!ExportDone, Catalog!GroupDone, Catalog!Refuse, Catalog!JobFails, Catalog!Failed
  <2> QED
    BY <1>1, <2>1
<1>5. ASSUME NEW i, Catalog!Tick(i) \/ Catalog!ToggleEdit(i) \/ Catalog!Save(i) \/ Catalog!DeleteOne(i) PROVE FALSE
  BY <1>5 DEF Catalog!Tick, Catalog!ToggleEdit, Catalog!Save, Catalog!DeleteOne, Catalog!Question
<1>6. ASSUME NEW n, Catalog!Create(n) PROVE FALSE
  BY <1>1, <1>6 DEF Catalog!Create
<1>7. ASSUME \/ Catalog!TickAll \/ Catalog!ClearTicks \/ Catalog!DeleteSelected \/ Catalog!CloseCreate
             \/ Catalog!FillText \/ Catalog!Export \/ \E replace \in BOOLEAN : Catalog!Import(replace)
      PROVE  FALSE
  BY <1>1, <1>7 DEF Catalog!TickAll, Catalog!ClearTicks, Catalog!DeleteSelected, Catalog!CloseCreate, Catalog!FillText,
     Catalog!Export, Catalog!Import, Catalog!Question
<1>8. ASSUME Catalog!InGroups PROVE FALSE
  BY <1>8 DEF Catalog!InGroups, Catalog!ChooseTeam, Catalog!Publish, Catalog!AddMember, Catalog!RemoveMember, Catalog!DeleteGroup,
     Catalog!CreateGroup, Catalog!Run, Catalog!Question, Catalog!AtGroups
<1>9. ASSUME NEW yes, Catalog!Answer(yes) PROVE FALSE
  BY <1>9 DEF Catalog!Answer
<1>10. ASSUME NEW q, Catalog!Filter(q) PROVE catalog' = catalog /\ editor' = editor
  BY <1>10 DEF Catalog!Filter, Catalog!AtCatalog, Catalog!Acts
<1>11. ASSUME Catalog!Network PROVE FALSE
  BY <1>2, <1>3, <1>4, <1>11 DEF Catalog!Network
<1>12. ASSUME Catalog!InCatalog PROVE catalog' = catalog /\ editor' = editor
  BY <1>5, <1>6, <1>7, <1>10, <1>12 DEF Catalog!InCatalog
<1> QED
  BY <1>8, <1>9, <1>11, <1>12 DEF Catalog!Next

LEMMA FilterKeeps ==
  ASSUME CatalogInv, Catalog!Next
  PROVE  Catalog!FilterKeepsTheEditor
<1> SUFFICES ASSUME Catalog!Edited, view'.query # view.query PROVE Catalog!Edited'
  BY DEF Catalog!FilterKeepsTheEditor
<1>1. editor.team.id \in DOMAIN catalog
  BY DEF Catalog!Edited, Catalog!Shown, Catalog!Found, Catalog!Named
<1>2. catalog' = catalog /\ editor' = editor
  BY FilterIsAlone
<1> QED
  BY <1>1, <1>2 DEF Catalog!Edited, Catalog!Shown

-----------------------------------------------------------------------------
(* The page that shows a board *)

\* Views of boards, as far as the proofs need to know them.
Views == [name : [Slot -> Team], sets : [Slot -> Nat], points : [Slot -> Nat],
          show : BOOLEAN, recap : BOOLEAN]

PageTypes ==
  /\ board \in Boards /\ (last # <<>> => last \in Boards)
  /\ name \in [Slot -> Team] /\ sets \in [Slot -> Nat] /\ points \in [Slot -> Nat]
  /\ roll \in [Slot -> [left : 0..RollTime, text : Nat]]
  /\ fade \in [show : 0..ShowTime, hide : 0..HideTime]
  /\ flip \in [half : {"no", "fold", "unfold"}, left : 0..FoldTime,
               view : {<<>>} \cup Views, target : {"full", "part"}]
  /\ cells \in Seq(0..ShrinkTime)
  /\ {visible, recapMode, panel, frame, overlapped} \subseteq BOOLEAN
  /\ scale \in {"full", "part"}

\* A flip is of a board that is shown, and once it unfolds the board is being shown:
\* what is begun under it to hide the board ends first.
FlipInv ==
  /\ flip.half = "no" => flip = NoFlip
  /\ flip.half # "no" => flip.left > 0 /\ flip.view \in Views /\ flip.view.show
  /\ flip.half = "unfold" => fade.show >= ShowTime - (FoldTime - flip.left)

\* A page that was told nothing has begun nothing.
FreshInv ==
  last = <<>> =>
    /\ roll = Still /\ fade = [show |-> 0, hide |-> 0] /\ flip = NoFlip
    /\ cells = <<>> /\ ~panel /\ ~frame /\ scale = "full" /\ ~overlapped

\* What the page will show when the animations that run have ended.
PointsToCome == [s \in Slot |-> IF roll[s].left > 0 THEN roll[s].text ELSE points[s]]
VisibleToCome ==
  ~(fade.hide > 0 /\ fade.hide >= fade.show) /\ (fade.show > 0 \/ visible)
InPlace(c, n) == Len(c) >= n /\ \A i \in 1..Len(c) : c[i] = 0 <=> i <= n
RecapToCome(on) ==
  /\ recapMode = on
  /\ on => panel \/ frame
  /\ ~on => ~panel /\ ~frame
ScaleToCome == IF flip.half = "unfold" THEN flip.target ELSE scale

Settling(v) ==
  /\ name = v.name /\ sets = v.sets /\ PointsToCome = v.points
  /\ (VisibleToCome <=> v.show)
  /\ InPlace(cells, CellsWanted(v))
  /\ RecapToCome(v.recap)
  /\ ScaleToCome = "full"

\* Behind a fold anything may stand: it will be rendered anew.
SettleInv == last # <<>> /\ ~overlapped /\ flip.half # "fold" => Settling(View(last))

PageInv == PageTypes /\ FlipInv /\ FreshInv /\ SettleInv

LEMMA Times ==
  /\ FoldTime \in 1..19 /\ RollTime \in 1..19 /\ ShrinkTime \in 1..19
  /\ ShowTime \in 1..19 /\ HideTime \in 1..19 /\ HideTime + FoldTime <= ShowTime
BY PageAssumption

-----------------------------------------------------------------------------
(* Boards and their views *)

LEMMA OtherTeam == Other("home") = "away" /\ Other("away") = "home"
BY DEF Other, Team

LEMMA TeamsOfSlots ==
  ASSUME NEW b \in Boards, NEW s \in Slot
  PROVE  TeamIn(b, s) \in Team
BY OtherTeam DEF TeamIn, Slot, Team, Boards

LEMMA ViewTypes ==
  ASSUME NEW b \in Boards
  PROVE  View(b) \in Views
<1>1. b.sets \in [Team -> Nat] /\ b.points \in [Team -> Nat] /\ b.show \in BOOLEAN /\ b.recap \in BOOLEAN
  BY PageAssumption DEF Boards
<1>2. \A s \in Slot : b.sets[TeamIn(b, s)] \in Nat /\ b.points[TeamIn(b, s)] \in Nat
  BY <1>1, TeamsOfSlots
<1> QED
  BY <1>1, <1>2, TeamsOfSlots DEF View, Views

LEMMA WantedTypes ==
  ASSUME NEW v \in Views
  PROVE  CellsWanted(v) \in Nat
<1>1. v.sets["home"] \in Nat /\ v.sets["away"] \in Nat
  BY DEF Views, Slot, Team
<1>2. Over(v) => v.sets["home"] > 0 \/ v.sets["away"] > 0
  BY <1>1, PageAssumption DEF Over, Slot, Team
<1> QED
  BY <1>1, <1>2 DEF CellsWanted, TotalSets

LEMMA BoardsAreNotEmpty ==
  ASSUME NEW b \in Boards
  PROVE  b # <<>>
<1>1. DOMAIN b = {"points", "sets", "swapped", "show", "recap"}
  BY DEF Boards
<1>2. DOMAIN <<>> = {}
  OBVIOUS
<1> QED
  BY <1>1, <1>2

-----------------------------------------------------------------------------
(* The cells of the history *)

\* The elements of a finite set of numbers are counted off in their order: every
\* rank is one element's.
LEMMA RanksAreTaken ==
  ASSUME NEW K \in SUBSET Nat, IsFiniteSet(K), NEW k \in 1..Cardinality(K)
  PROVE  \E i \in K : Cardinality({j \in K : j <= i}) = k
<1> DEFINE Low(i) == {j \in K : j <= i}
           rank == [i \in K |-> Cardinality(Low(i))]
           N == Cardinality(K)
<1>1. N \in Nat
  BY FS_CardinalityType
<1>2. \A i \in K : IsFiniteSet(Low(i)) /\ Cardinality(Low(i)) \in 1..N
  <2> TAKE i \in K
  <2>1. IsFiniteSet(Low(i)) /\ Cardinality(Low(i)) <= N
    BY FS_Subset
  <2>2. Cardinality(Low(i)) \in Nat
    BY <2>1, FS_CardinalityType
  <2>3. i \in Low(i)
    OBVIOUS
  <2>4. Cardinality(Low(i)) # 0
    BY <2>1, <2>3, FS_EmptySet
  <2> QED
    BY <1>1, <2>1, <2>2, <2>4
<1>3. \A i, j \in K : i < j => rank[i] # rank[j]
  <2> SUFFICES ASSUME NEW i \in K, NEW j \in K, i < j PROVE rank[i] # rank[j]
    OBVIOUS
  <2>0. \A l \in Nat : l <= i => l <= j
    BY i \in Nat, j \in Nat
  <2>1. Low(i) \in SUBSET Low(j)
    BY <2>0
  <2>2. j \in Low(j) /\ j \notin Low(i)
    BY i \in Nat, j \in Nat
  <2>3. Low(i) # Low(j)
    BY <2>2
  <2>4. Cardinality(Low(i)) # Cardinality(Low(j))
    BY <1>2, <2>1, <2>3, FS_Subset
  <2> QED
    BY <2>4
<1>4. rank \in [K -> 1..N]
  BY <1>2
<1>5. rank \in Injection(K, 1..N)
  <2>1. \A i, j \in K : rank[i] = rank[j] => i = j
    <3> SUFFICES ASSUME NEW i \in K, NEW j \in K, rank[i] = rank[j], i # j PROVE FALSE
      OBVIOUS
    <3>1. i \in Nat /\ j \in Nat
      OBVIOUS
    <3>2. i < j \/ j < i
      BY <3>1
    <3> QED
      BY <1>3, <3>2
  <2> HIDE DEF rank
  <2> QED
    BY <1>4, <2>1 DEF Injection, IsInjective
<1>6. IsFiniteSet(1..N) /\ Cardinality(1..N) = N
  BY <1>1, FS_Interval
<1>7. rank \in Surjection(K, 1..N)
  <2> HIDE DEF rank, N
  <2>1. Cardinality(K) = Cardinality(1..N)
    BY <1>6 DEF N
  <2> QED
    BY <1>5, <1>6, <2>1, FS_Injection
<1>8. PICK i \in K : rank[i] = k
  <2> HIDE DEF rank
  <2> QED
    BY <1>7 DEF Surjection
<1> QED
  BY <1>8

\* A tick takes out the cells that have left, lets the others close up in their order,
\* and leaves those that stay where they are.
LEMMA TickKeepsCells ==
  ASSUME cells \in Seq(0..ShrinkTime)
  PROVE  /\ CellsAfter \in Seq(0..ShrinkTime)
         /\ \A n \in Nat : InPlace(cells, n) => InPlace(CellsAfter, n)
<1> DEFINE L == Len(cells)
           K == Staying
           N == Cardinality(K)
           Nth(k) == CHOOSE i \in K : Rank(i) = k
<1>0. L \in Nat /\ DOMAIN cells = 1..L /\ \A i \in 1..L : cells[i] \in 0..ShrinkTime
  BY LenProperties, ElementOfSeq
<1>1. K = {i \in 1..L : cells[i] # 1}
  BY <1>0 DEF Staying
<1>2. K \in SUBSET Nat /\ K \subseteq 1..L /\ IsFiniteSet(K) /\ N \in Nat
  <2>1. K \in SUBSET (1..L) /\ IsFiniteSet(1..L)
    BY <1>0, <1>1, FS_Interval
  <2>2. IsFiniteSet(K)
    BY <2>1, FS_Subset
  <2> QED
    BY <1>0, <2>1, <2>2, FS_CardinalityType
<1>3. \A k \in 1..N : Nth(k) \in K /\ Rank(Nth(k)) = k
  <2> TAKE k \in 1..N
  <2>1. \E i \in K : Rank(i) = k
    BY <1>2, RanksAreTaken DEF Rank
  <2> QED
    BY <2>1
<1>4. CellsAfter = [k \in 1..N |-> Less(cells[Nth(k)])]
  BY DEF CellsAfter
<1> HIDE DEF K, N, Nth, L
<1>5. \A k \in 1..N : Less(cells[Nth(k)]) \in 0..ShrinkTime
  <2> TAKE k \in 1..N
  <2>1. cells[Nth(k)] \in 0..ShrinkTime
    BY <1>0, <1>2, <1>3
  <2> QED
    BY <2>1, Times DEF Less
<1>6. CellsAfter \in Seq(0..ShrinkTime) /\ Len(CellsAfter) = N
  BY <1>2, <1>4, <1>5
<1>7. ASSUME NEW n \in Nat, InPlace(cells, n)
      PROVE  InPlace(CellsAfter, n)
  <2>1. L >= n /\ \A i \in 1..L : cells[i] = 0 <=> i <= n
    BY <1>7 DEF InPlace, L
  <2>2. 1..n \subseteq K
    BY <1>0, <1>1, <2>1 DEF K
  <2>3. Cardinality(1..n) = n /\ IsFiniteSet(1..n)
    BY FS_Interval
  <2>4. N >= n
    BY <1>2, <2>2, <2>3, FS_Subset DEF N
  <2>5. \A i \in 1..n : Rank(i) = i
    <3> TAKE i \in 1..n
    <3>1. \A j \in Nat : j \in 1..i => j \in 1..n
      OBVIOUS
    <3>2. \A j \in K : j \in Nat /\ (j <= i <=> j \in 1..i)
      BY <1>2
    <3>3. {j \in K : j <= i} = 1..i
      BY <2>2, <3>1, <3>2
    <3>4. {j \in Staying : j <= i} = 1..i
      BY <3>3 DEF K
    <3>5. i \in Nat /\ i >= 1
      OBVIOUS
    <3>6. Cardinality(1..i) = i
      BY <3>5, FS_Interval
    <3> QED
      BY <3>4, <3>6 DEF Rank
  <2>6. \A i \in K : i > n => Rank(i) > n
    <3> SUFFICES ASSUME NEW i \in K, i > n PROVE Rank(i) > n
      OBVIOUS
    <3> DEFINE Low == {j \in K : j <= i}
    <3>1. (1..n) \cup {i} \in SUBSET Low
      BY <1>2, <2>2
    <3>2. IsFiniteSet(Low) /\ Cardinality(Low) \in Nat
      <4>1. Low \in SUBSET K
        OBVIOUS
      <4> QED
        BY <1>2, <4>1, FS_Subset, FS_CardinalityType
    <3>3. Cardinality((1..n) \cup {i}) = n + 1
      <4>1. i \notin 1..n
        BY <1>2
      <4> QED
        BY <2>3, <4>1, FS_AddElement
    <3>4. n + 1 <= Cardinality(Low)
      BY <3>1, <3>2, <3>3, FS_Subset
    <3>5. Rank(i) = Cardinality(Low)
      BY DEF Rank, K
    <3> QED
      BY <3>2, <3>4, <3>5
  <2>7. \A k \in 1..N : Nth(k) <= n <=> k <= n
    <3> TAKE k \in 1..N
    <3>1. Nth(k) \in K /\ Rank(Nth(k)) = k /\ Nth(k) \in 1..L
      BY <1>2, <1>3
    <3>2. CASE Nth(k) <= n
      BY <1>0, <2>5, <3>1, <3>2
    <3>3. CASE ~(Nth(k) <= n)
      BY <1>0, <2>6, <3>1, <3>3
    <3> QED
      BY <3>2, <3>3
  <2>8. \A k \in 1..N : Less(cells[Nth(k)]) = 0 <=> cells[Nth(k)] = 0
    <3> TAKE k \in 1..N
    <3>1. Nth(k) \in 1..L /\ cells[Nth(k)] # 1 /\ cells[Nth(k)] \in Nat
      BY <1>0, <1>1, <1>3, PageAssumption DEF K
    <3> QED
      BY <3>1 DEF Less
  <2>9. \A k \in 1..N : CellsAfter[k] = 0 <=> k <= n
    BY <1>2, <1>3, <1>4, <2>1, <2>7, <2>8
  <2> QED
    BY <1>6, <2>4, <2>9 DEF InPlace
<1> QED
  BY <1>6, <1>7

\* updateSetHistoryContainer leaves as many cells as are wanted, those that leave apart.
LEMMA RenderKeepsCells ==
  ASSUME cells \in Seq(0..ShrinkTime), NEW n \in Nat, NEW initial \in BOOLEAN
  PROVE  /\ Cells(n, initial) \in Seq(0..ShrinkTime)
         /\ ~CellsOvertaken(n) => InPlace(Cells(n, initial), n)
<1> DEFINE kept == IF Len(cells) > n /\ initial THEN SubSeq(cells, 1, n) ELSE cells
           M == IF Len(kept) > n THEN Len(kept) ELSE n
           at(i) == IF i > Len(kept) THEN 0
                    ELSE IF i > n /\ kept[i] = 0 THEN ShrinkTime ELSE kept[i]
<1>0. /\ Len(cells) \in Nat /\ DOMAIN cells = 1..Len(cells)
      /\ \A i \in 1..Len(cells) : cells[i] \in 0..ShrinkTime
  BY LenProperties, ElementOfSeq
<1>1. /\ kept \in Seq(0..ShrinkTime) /\ Len(kept) \in Nat /\ Len(kept) <= Len(cells)
      /\ \A i \in 1..Len(kept) : kept[i] = cells[i] /\ kept[i] \in 0..ShrinkTime
      /\ initial => Len(kept) <= n
  <2>1. CASE Len(cells) > n /\ initial
    <3>1. SubSeq(cells, 1, n) \in Seq(0..ShrinkTime) /\ Len(SubSeq(cells, 1, n)) = n
      BY <1>0, <2>1, SubSeqProperties
    <3>2. \A i \in 1..n : SubSeq(cells, 1, n)[i] = cells[i] /\ cells[i] \in 0..ShrinkTime
      BY <1>0, <2>1, SubSeqProperties
    <3>3. kept = SubSeq(cells, 1, n)
      BY <2>1
    <3> HIDE DEF kept
    <3> QED
      BY <1>0, <2>1, <3>1, <3>2, <3>3
  <2>2. CASE ~(Len(cells) > n /\ initial)
    <3>1. kept = cells
      BY <2>2
    <3> HIDE DEF kept
    <3> QED
      BY <1>0, <2>2, <3>1
  <2> QED
    BY <2>1, <2>2
<1>2. Cells(n, initial) = [i \in 1..M |-> at(i)]
  BY DEF Cells
<1> HIDE DEF kept
<1>3. M \in Nat /\ M >= n /\ M >= Len(kept) /\ (M = n \/ M = Len(kept))
  BY <1>1
<1> HIDE DEF M
<1>4. ASSUME NEW i \in 1..M
      PROVE  at(i) \in 0..ShrinkTime /\ (i > n => at(i) # 0)
  <2>1. CASE i > Len(kept)
    <3>1. at(i) = 0
      BY <2>1
    <3> QED
      BY <1>1, <1>3, <2>1, <3>1, Times
  <2>2. CASE i <= Len(kept)
    <3>1. kept[i] \in 0..ShrinkTime
      BY <1>1, <1>3, <2>2
    <3>2. at(i) = IF i > n /\ kept[i] = 0 THEN ShrinkTime ELSE kept[i]
      BY <1>1, <2>2
    <3> QED
      BY <3>1, <3>2, Times
  <2> QED
    BY <1>1, <1>3, <2>1, <2>2
<1>6. ASSUME ~CellsOvertaken(n), NEW i \in 1..M, i <= n
      PROVE  at(i) = 0
  <2>1. \A j \in 1..Len(cells) : j <= n => cells[j] = 0
    BY <1>0, <1>6 DEF CellsOvertaken
  <2> QED
    BY <1>0, <1>1, <1>3, <1>6, <2>1, i \in Nat
<1> HIDE DEF at
<1>7. Cells(n, initial) \in Seq(0..ShrinkTime) /\ Len(Cells(n, initial)) = M
  BY <1>2, <1>3, <1>4
<1> QED
  BY <1>2, <1>3, <1>4, <1>6, <1>7 DEF InPlace

-----------------------------------------------------------------------------
(* A push *)

LEMMA PageStarts == PageInit => PageInv
<1> SUFFICES ASSUME PageInit PROVE PageInv
  OBVIOUS
<1> USE DEF PageInit
<1>1. PageTypes
  <2>1. board \in Boards
    BY PageAssumption DEF Boards, Zero, Team
  <2>2. flip \in [half : {"no", "fold", "unfold"}, left : 0..FoldTime,
                  view : {<<>>} \cup Views, target : {"full", "part"}]
    BY Times DEF NoFlip
  <2>3. fade \in [show : 0..ShowTime, hide : 0..HideTime]
    BY Times
  <2>4. roll \in [Slot -> [left : 0..RollTime, text : Nat]]
    BY Times DEF Still
  <2>5. cells \in Seq(0..ShrinkTime)
    BY EmptySeq
  <2> QED
    BY <2>1, <2>2, <2>3, <2>4, <2>5 DEF PageTypes, Slot, Zero
<1>2. FlipInv
  BY DEF FlipInv, NoFlip
<1>3. FreshInv
  BY DEF FreshInv
<1>4. SettleInv
  BY DEF SettleInv
<1> QED
  BY <1>1, <1>2, <1>3, <1>4 DEF PageInv

LEMMA FadesAreTimes ==
  ASSUME fade \in [show : 0..ShowTime, hide : 0..HideTime], NEW on \in BOOLEAN, Fade(on)
  PROVE  /\ fade.show \in 0..ShowTime /\ fade.hide \in 0..HideTime
         /\ fade' \in [show : 0..ShowTime, hide : 0..HideTime]
         /\ on  => fade'.show = ShowTime /\ fade'.hide = fade.hide
         /\ ~on => fade'.show = fade.show /\ fade'.hide = HideTime
<1>1. CASE on
  BY <1>1, Times DEF Fade
<1>2. CASE ~on
  BY <1>2, Times DEF Fade
<1> QED
  BY <1>1, <1>2

LEMMA FadeSettles ==
  ASSUME fade \in [show : 0..ShowTime, hide : 0..HideTime], NEW on \in BOOLEAN, Fade(on),
         ~FadeOvertaken(on), visible' = visible
  PROVE  VisibleToCome' <=> on
<1>1. CASE on
  <2>1. fade.hide \in 0..HideTime /\ fade'.show = ShowTime /\ fade'.hide = fade.hide
    BY <1>1, FadesAreTimes
  <2>2. fade'.show > 0 /\ ~(fade'.hide >= fade'.show)
    BY <2>1, Times
  <2> QED
    BY <1>1, <2>2 DEF VisibleToCome
<1>2. CASE ~on
  BY <1>2, Times, FadesAreTimes DEF VisibleToCome, FadeOvertaken
<1> QED
  BY <1>1, <1>2

\* What a full render writes has the types, and puts the page on its way to the view
\* if it overtakes nothing.
LEMMA RenderFullTypes ==
  ASSUME PageTypes, NEW v \in Views, RenderFull(v)
  PROVE  /\ name' \in [Slot -> Team] /\ sets' \in [Slot -> Nat] /\ points' \in [Slot -> Nat]
         /\ fade' \in [show : 0..ShowTime, hide : 0..HideTime]
         /\ fade'.show >= fade.show
         /\ cells' \in Seq(0..ShrinkTime)
         /\ recapMode' \in BOOLEAN /\ panel' \in BOOLEAN /\ frame' \in BOOLEAN
<1>1. name' \in [Slot -> Team] /\ sets' \in [Slot -> Nat] /\ points' \in [Slot -> Nat]
  BY DEF RenderFull, Views
<1>2. fade' \in [show : 0..ShowTime, hide : 0..HideTime] /\ fade'.show >= fade.show
  <2>1. Fade(v.show) /\ v.show \in BOOLEAN
    BY DEF RenderFull, Views
  <2> QED
    BY <2>1, Times, FadesAreTimes DEF PageTypes
<1>3. cells' \in Seq(0..ShrinkTime)
  BY WantedTypes, RenderKeepsCells DEF RenderFull, PageTypes
<1>4. recapMode' \in BOOLEAN /\ panel' \in BOOLEAN /\ frame' \in BOOLEAN
  BY DEF RenderFull, Recap, PageTypes, Views
<1> QED
  BY <1>1, <1>2, <1>3, <1>4

LEMMA RenderFullSettles ==
  ASSUME PageTypes, NEW v \in Views, RenderFull(v), ~FullOvertaken(v),
         roll' = roll, visible' = visible, ScaleToCome' = "full"
  PROVE  Settling(v)'
<1>1. name' = v.name /\ sets' = v.sets
  BY DEF RenderFull
<1>2. PointsToCome' = v.points
  <2>1. \A s \in Slot : roll[s].left = 0
    BY DEF FullOvertaken, PageTypes
  <2>2. PointsToCome' = [s \in Slot |-> v.points[s]]
    BY <2>1 DEF PointsToCome, RenderFull
  <2> QED
    BY <2>2 DEF Views
<1>3. VisibleToCome' <=> v.show
  <2>1. Fade(v.show) /\ v.show \in BOOLEAN /\ ~FadeOvertaken(v.show)
    BY DEF RenderFull, Views, FullOvertaken
  <2> QED
    BY <2>1, FadeSettles DEF PageTypes
<1>4. InPlace(cells, CellsWanted(v))'
  BY WantedTypes, RenderKeepsCells DEF RenderFull, FullOvertaken, PageTypes
<1>5. RecapToCome(v.recap)'
  BY DEF RecapToCome, RenderFull, Recap, FullOvertaken, RecapOvertaken, PageTypes, Views
<1> QED
  BY <1>1, <1>2, <1>3, <1>4, <1>5 DEF Settling

\* The first push of a fresh page, and a swap of a hidden board, render in full.
LEMMA FirstPush ==
  ASSUME PageInv, NEW b \in Boards, last = <<>>, Receive(b), board' \in Boards
  PROVE  PageInv'
<1> DEFINE v == View(b)
<1>1. v \in Views /\ b # <<>>
  BY ViewTypes, BoardsAreNotEmpty
<1> HIDE DEF v
<1>2. /\ RenderFull(v) /\ overlapped' = FALSE /\ last' = b
      /\ UNCHANGED <<roll, visible, flip, scale, glow>>
  BY DEF Receive, v
<1>3. /\ roll = Still /\ fade = [show |-> 0, hide |-> 0] /\ flip = NoFlip /\ cells = <<>>
      /\ ~panel /\ ~frame /\ scale = "full"
  BY DEF PageInv, FreshInv
<1>4. PageTypes'
  BY <1>1, <1>2, RenderFullTypes DEF PageInv, PageTypes
<1>5. FlipInv'
  BY <1>2, <1>3 DEF FlipInv, NoFlip
<1>6. FreshInv'
  BY <1>1, <1>2 DEF FreshInv
<1>7. ~FullOvertaken(v)
  BY <1>3, Times DEF FullOvertaken, FadeOvertaken, RecapOvertaken, CellsOvertaken, Still
<1>8. Settling(v)'
  BY <1>1, <1>2, <1>3, <1>7, RenderFullSettles DEF ScaleToCome, NoFlip, PageInv
<1>9. SettleInv'
  BY <1>2, <1>8 DEF SettleInv, Settling, v
<1> QED
  BY <1>4, <1>5, <1>6, <1>9 DEF PageInv

LEMMA SwapPush ==
  ASSUME PageInv, NEW b \in Boards, last # <<>>, last' = b, SwapSides(View(b)), board' \in Boards
  PROVE  PageInv'
<1> DEFINE v == View(b)
<1>1. v \in Views /\ b # <<>>
  BY ViewTypes, BoardsAreNotEmpty
<1> HIDE DEF v
<1>0. SwapSides(v)
  BY DEF v
<1>2. CASE v.show
  <2>1. /\ flip' = [half |-> "fold", left |-> FoldTime, view |-> v, target |-> ScaleNow]
        /\ UNCHANGED <<texts, roll, fade, visible, scale, cells, recapMode, panel, frame, overlapped>>
    BY <1>0, <1>2 DEF SwapSides
  <2>2. ScaleNow \in {"full", "part"}
    BY DEF ScaleNow, PageInv, PageTypes
  <2>3. PageTypes'
    BY <1>1, <2>1, <2>2, Times DEF PageInv, PageTypes, texts
  <2>4. FlipInv'
    BY <1>1, <1>2, <2>1, Times DEF FlipInv
  <2>5. FreshInv' /\ SettleInv'
    BY <1>1, <2>1 DEF FreshInv, SettleInv
  <2> QED
    BY <2>3, <2>4, <2>5 DEF PageInv
<1>3. CASE ~v.show
  <2>1. /\ RenderFull(v) /\ scale' = "full" /\ overlapped' = FullOvertaken(v)
        /\ UNCHANGED <<roll, visible, flip>>
    BY <1>0, <1>3 DEF SwapSides
  <2>2. PageTypes'
    <3>1. overlapped' \in BOOLEAN
      BY <2>1, Zenon DEF FullOvertaken
    <3> QED
      BY <1>1, <2>1, <3>1, RenderFullTypes DEF PageInv, PageTypes
  <2>3. FlipInv'
    <3>1. fade'.show >= fade.show /\ fade'.show \in Nat /\ fade.show \in Nat
      BY <1>1, <2>1, Times, RenderFullTypes DEF PageInv, PageTypes
    <3>2. flip.left \in 0..FoldTime /\ flip' = flip
      BY <2>1 DEF PageInv, PageTypes
    <3> QED
      BY <3>1, <3>2, Times DEF FlipInv, PageInv
  <2>4. FreshInv'
    BY <1>1 DEF FreshInv
  <2>5. ASSUME ~overlapped', flip'.half # "fold"
        PROVE  Settling(v)'
    <3>1. ~FullOvertaken(v)
      BY <2>1, <2>5
    <3>2. flip.half # "unfold"
      <4>1. fade.show <= HideTime
        BY <1>3, <3>1, Times DEF FullOvertaken, FadeOvertaken, PageInv, PageTypes
      <4>2. fade.show \in Nat /\ flip.left \in 0..FoldTime
        BY DEF PageInv, PageTypes
      <4>3. flip.half = "unfold" => fade.show > HideTime
        BY <4>2, Times DEF PageInv, FlipInv
      <4> QED
        BY <4>1, <4>2, <4>3, Times
    <3>3. ScaleToCome' = "full"
      BY <2>1, <3>2 DEF ScaleToCome
    <3> QED
      BY <1>1, <2>1, <3>1, <3>3, RenderFullSettles DEF PageInv
  <2>6. SettleInv'
    BY <2>5 DEF SettleInv, Settling, v
  <2> QED
    BY <2>2, <2>3, <2>4, <2>6 DEF PageInv
<1> QED
  BY <1>2, <1>3

LEMMA RecapSettles ==
  ASSUME {recapMode, panel, frame} \subseteq BOOLEAN, NEW on \in BOOLEAN, Recap(on),
         RecapOvertaken(on) => FALSE
  PROVE  RecapToCome(on)'
BY DEF RecapToCome, Recap, RecapOvertaken

\* A difference is animated from what is on its way to the last state to what is on its
\* way to the new one.
LEMMA DiffTypes ==
  ASSUME PageInv, NEW a \in Boards, NEW b \in Boards, UpdateDiff(View(a), View(b))
  PROVE  /\ sets' \in [Slot -> Nat]
         /\ roll' \in [Slot -> [left : 0..RollTime, text : Nat]]
         /\ fade' \in [show : 0..ShowTime, hide : 0..HideTime]
         /\ fade'.show \in Nat /\ fade.show \in Nat /\ fade'.show >= fade.show
         /\ cells' \in Seq(0..ShrinkTime)
         /\ recapMode' \in BOOLEAN /\ panel' \in BOOLEAN /\ frame' \in BOOLEAN
         /\ overlapped' \in BOOLEAN
<1> DEFINE v == View(a)
           w == View(b)
<1>1. v \in Views /\ w \in Views
  BY ViewTypes
<1>2. UpdateDiff(v, w)
  OBVIOUS
<1> HIDE DEF v, w
<1>3. sets' \in [Slot -> Nat]
  BY <1>1, <1>2 DEF UpdateDiff, DiffSets, PageInv, PageTypes, Views
<1>4. roll' \in [Slot -> [left : 0..RollTime, text : Nat]]
  BY <1>1, <1>2, Times DEF UpdateDiff, DiffPoints, AnimatePoints, PageInv, PageTypes, Views
<1>5. /\ fade' \in [show : 0..ShowTime, hide : 0..HideTime]
      /\ fade'.show \in Nat /\ fade.show \in Nat /\ fade'.show >= fade.show
  <2>1. fade \in [show : 0..ShowTime, hide : 0..HideTime]
    BY DEF PageInv, PageTypes
  <2>2. w.show \in BOOLEAN /\ (Fade(w.show) \/ UNCHANGED fade)
    BY <1>1, <1>2 DEF UpdateDiff, DiffVisibility, Views
  <2>3. CASE Fade(w.show)
    BY <2>1, <2>2, <2>3, Times, FadesAreTimes
  <2> QED
    BY <2>1, <2>2, <2>3, Times
<1>6. cells' \in Seq(0..ShrinkTime)
  <2>1. cells' = cells \/ cells' = Cells(CellsWanted(w), FALSE)
    BY <1>2 DEF UpdateDiff, DiffSets
  <2>2. cells \in Seq(0..ShrinkTime) /\ CellsWanted(w) \in Nat
    BY <1>1, WantedTypes DEF PageInv, PageTypes
  <2>3. Cells(CellsWanted(w), FALSE) \in Seq(0..ShrinkTime)
    BY <2>2, RenderKeepsCells
  <2> QED
    BY <2>1, <2>2, <2>3
<1>7. recapMode' \in BOOLEAN /\ panel' \in BOOLEAN /\ frame' \in BOOLEAN
  <2>1. recapMode \in BOOLEAN /\ panel \in BOOLEAN /\ frame \in BOOLEAN /\ w.recap \in BOOLEAN
    BY <1>1 DEF PageInv, PageTypes, Views
  <2>2. Recap(w.recap) \/ UNCHANGED <<recapMode, panel, frame>>
    BY <1>2 DEF UpdateDiff, DiffRecap
  <2> QED
    BY <2>1, <2>2 DEF Recap
<1>8. overlapped' \in BOOLEAN
  BY <1>2, Zenon DEF UpdateDiff
<1> QED
  BY <1>3, <1>4, <1>5, <1>6, <1>7, <1>8

LEMMA DiffSettles ==
  ASSUME PageInv, NEW a \in Boards, NEW b \in Boards, a.swapped = b.swapped,
         UpdateDiff(View(a), View(b)), Settling(View(a)), ~overlapped'
  PROVE  Settling(View(b))'
<1> DEFINE v == View(a)
           w == View(b)
<1>1. v \in Views /\ w \in Views /\ v.name = w.name
  <2>1. v.name = w.name
    BY DEF View, TeamIn
  <2> QED
    BY <2>1, ViewTypes
<1>2. UpdateDiff(v, w) /\ Settling(v)
  OBVIOUS
<1> HIDE DEF v, w
<1>3. /\ ~(v.show # w.show /\ FadeOvertaken(w.show))
      /\ ~(v.sets # w.sets /\ CellsOvertaken(CellsWanted(w)))
      /\ ~(v.recap # w.recap /\ RecapOvertaken(w.recap))
  BY <1>2 DEF UpdateDiff
<1>4. name' = w.name /\ sets' = w.sets
  <2>1. sets' = [s \in Slot |-> w.sets[s]]
    BY <1>1, <1>2 DEF UpdateDiff, DiffSets, Settling
  <2> QED
    BY <1>1, <1>2, <2>1 DEF UpdateDiff, Settling, Views
<1>5. PointsToCome' = w.points
  <2>1. \A s \in Slot : (IF roll[s].left > 0 THEN roll[s].text ELSE points[s]) = v.points[s]
    BY <1>2 DEF Settling, PointsToCome
  <2>2. \A s \in Slot : (IF roll'[s].left > 0 THEN roll'[s].text ELSE points'[s]) = w.points[s]
    <3> TAKE s \in Slot
    <3>1. CASE v.points[s] # w.points[s]
      BY <1>2, <3>1, Times DEF UpdateDiff, DiffPoints, AnimatePoints
    <3>2. CASE v.points[s] = w.points[s]
      <4>1. roll'[s] = roll[s] /\ points'[s] = points[s]
        BY <1>2, <3>2 DEF UpdateDiff, DiffPoints
      <4> QED
        BY <2>1, <3>2, <4>1
    <3> QED
      BY <3>1, <3>2
  <2>3. PointsToCome' = [s \in Slot |-> w.points[s]]
    BY <2>2 DEF PointsToCome
  <2> QED
    BY <1>1, <2>3 DEF Views
<1>6. VisibleToCome' <=> w.show
  <2>1. w.show \in BOOLEAN /\ v.show \in BOOLEAN
    BY <1>1 DEF Views
  <2>2. CASE v.show = w.show
    BY <1>2, <2>2 DEF UpdateDiff, DiffVisibility, VisibleToCome, Settling
  <2>3. CASE v.show # w.show
    <3>1. Fade(w.show) /\ ~FadeOvertaken(w.show) /\ visible' = visible
      BY <1>2, <1>3, <2>3 DEF UpdateDiff, DiffVisibility
    <3> QED
      BY <2>1, <3>1, FadeSettles DEF PageInv, PageTypes
  <2> QED
    BY <2>2, <2>3
<1>7. InPlace(cells, CellsWanted(w))'
  <2>1. CASE v.sets = w.sets
    <3>1. CellsWanted(v) = CellsWanted(w) /\ cells' = cells
      BY <1>2, <2>1 DEF CellsWanted, Over, TotalSets, UpdateDiff, DiffSets
    <3> QED
      BY <1>2, <3>1 DEF Settling
  <2>2. CASE v.sets # w.sets
    <3>1. cells' = Cells(CellsWanted(w), FALSE) /\ ~CellsOvertaken(CellsWanted(w))
      BY <1>2, <1>3, <2>2 DEF UpdateDiff, DiffSets
    <3> QED
      BY <1>1, <3>1, WantedTypes, RenderKeepsCells DEF PageInv, PageTypes
  <2> QED
    BY <2>1, <2>2
<1>8. RecapToCome(w.recap)'
  <2>1. {recapMode, panel, frame} \subseteq BOOLEAN /\ w.recap \in BOOLEAN /\ v.recap \in BOOLEAN
    BY <1>1 DEF PageInv, PageTypes, Views
  <2>2. CASE v.recap # w.recap
    <3>1. Recap(w.recap) /\ ~RecapOvertaken(w.recap)
      BY <1>2, <1>3, <2>2 DEF UpdateDiff, DiffRecap
    <3> QED
      BY <2>1, <3>1, RecapSettles
  <2>3. CASE v.recap = w.recap /\ w.recap
    <3>1. Recap(w.recap) /\ ~RecapOvertaken(w.recap)
      BY <1>2, <2>3 DEF UpdateDiff, DiffRecap, RecapOvertaken
    <3> QED
      BY <2>1, <3>1, RecapSettles
  <2>4. CASE v.recap = w.recap /\ ~w.recap
    BY <1>2, <2>4 DEF UpdateDiff, DiffRecap, RecapToCome, Settling
  <2> QED
    BY <2>2, <2>3, <2>4
<1>9. (ScaleToCome = "full")'
  BY <1>2 DEF UpdateDiff, ScaleToCome, Settling
<1> QED
  BY <1>4, <1>5, <1>6, <1>7, <1>8, <1>9 DEF Settling, w

LEMMA DiffPush ==
  ASSUME PageInv, NEW b \in Boards, last # <<>>, last' = b, b.swapped = last.swapped,
         UpdateDiff(View(last), View(b)), board' \in Boards
  PROVE  PageInv'
<1>1. PICK a \in Boards : a = last
  BY DEF PageInv, PageTypes
<1>2. UpdateDiff(View(a), View(b))
  BY <1>1
<1>3. b # <<>>
  BY BoardsAreNotEmpty
<1>4. UNCHANGED <<name, points, visible, flip, scale>>
  BY <1>2 DEF UpdateDiff
<1>5. PageTypes'
  BY <1>2, <1>4, DiffTypes DEF PageInv, PageTypes
<1>6. FlipInv'
  <2>1. fade'.show \in Nat /\ fade.show \in Nat /\ fade'.show >= fade.show
    BY <1>2, DiffTypes
  <2>2. flip.left \in 0..FoldTime
    BY DEF PageInv, PageTypes
  <2> QED
    BY <1>4, <2>1, <2>2, Times DEF FlipInv, PageInv
<1>7. FreshInv'
  BY <1>3 DEF FreshInv
<1>8. ASSUME ~overlapped', flip'.half # "fold"
      PROVE  Settling(View(b))'
  <2>1. ~overlapped /\ flip.half # "fold"
    BY <1>2, <1>4, <1>8 DEF UpdateDiff
  <2>2. Settling(View(a))
    BY <1>1, <2>1 DEF PageInv, SettleInv
  <2> QED
    BY <1>1, <1>2, <1>8, <2>2, DiffSettles
<1>9. SettleInv'
  <2> DEFINE v == View(b)
  <2> HIDE DEF v
  <2>1. ~overlapped' /\ flip'.half # "fold" => Settling(v)'
    BY <1>8 DEF v
  <2> QED
    BY <2>1 DEF SettleInv, Settling, v
<1> QED
  BY <1>5, <1>6, <1>7, <1>9 DEF PageInv

LEMMA ReceiveKeeps ==
  ASSUME PageInv, NEW b \in Boards, Receive(b), board' \in Boards
  PROVE  PageInv'
<1>1. CASE last = <<>>
  BY <1>1, FirstPush
<1>2. CASE last # <<>> /\ b.swapped # last.swapped
  BY <1>2, SwapPush DEF Receive
<1>3. CASE last # <<>> /\ b.swapped = last.swapped
  BY <1>3, DiffPush DEF Receive
<1> QED
  BY <1>1, <1>2, <1>3

-----------------------------------------------------------------------------
(* Time *)

\* A tick brings every animation nearer to its end, and changes nothing of where it leads.
LEMMA TickTypes ==
  ASSUME PageTypes
  PROVE  /\ PointsAfter \in [Slot -> Nat]
         /\ RollAfter \in [Slot -> [left : 0..RollTime, text : Nat]]
         /\ CellsAfter \in Seq(0..ShrinkTime)
         /\ FadeAfter \in [show : 0..ShowTime, hide : 0..HideTime]
         /\ fade.show \in Nat /\ FadeAfter.show \in Nat /\ FadeAfter.show >= fade.show - 1
         /\ FadeAfter.hide <= HideTime
         /\ VisibleAfter \in BOOLEAN
<1>1. \A s \in Slot : roll[s] \in [left : 0..RollTime, text : Nat] /\ points[s] \in Nat
  BY DEF PageTypes
<1>2. PointsAfter \in [Slot -> Nat]
  BY <1>1 DEF PointsAfter
<1>3. \A s \in Slot : [left |-> Less(roll[s].left), text |-> IF roll[s].left <= 1 THEN 0 ELSE roll[s].text]
                        \in [left : 0..RollTime, text : Nat]
  BY <1>1, Times DEF Less
<1>4. RollAfter \in [Slot -> [left : 0..RollTime, text : Nat]]
  BY <1>3 DEF RollAfter
<1>5. CellsAfter \in Seq(0..ShrinkTime)
  BY TickKeepsCells DEF PageTypes
<1>6. fade.show \in 0..ShowTime /\ fade.hide \in 0..HideTime /\ visible \in BOOLEAN
  BY DEF PageTypes
<1>7. /\ FadeAfter \in [show : 0..ShowTime, hide : 0..HideTime]
      /\ fade.show \in Nat /\ FadeAfter.show \in Nat /\ FadeAfter.show >= fade.show - 1
      /\ FadeAfter.hide <= HideTime
  BY <1>6, Times DEF FadeAfter, Less
<1>8. VisibleAfter \in BOOLEAN
  BY <1>6 DEF VisibleAfter
<1> QED
  BY <1>2, <1>4, <1>5, <1>7, <1>8

LEMMA TickSettles ==
  ASSUME PageTypes, NEW v \in Views, Settling(v),
         points' = PointsAfter, roll' = RollAfter, cells' = CellsAfter, fade' = FadeAfter,
         visible' = VisibleAfter, ScaleToCome' = "full",
         UNCHANGED <<name, sets, recapMode, panel, frame>>
  PROVE  Settling(v)'
<1>1. PointsToCome' = v.points
  <2>1. \A s \in Slot : (IF roll[s].left > 0 THEN roll[s].text ELSE points[s]) = v.points[s]
    BY DEF Settling, PointsToCome
  <2>2. \A s \in Slot : (IF roll'[s].left > 0 THEN roll'[s].text ELSE points'[s]) = v.points[s]
    <3> TAKE s \in Slot
    <3>1. roll[s].left \in Nat
      BY Times DEF PageTypes
    <3>2. /\ roll'[s] = [left |-> Less(roll[s].left), text |-> IF roll[s].left <= 1 THEN 0 ELSE roll[s].text]
          /\ points'[s] = IF roll[s].left = 1 THEN roll[s].text ELSE points[s]
      BY DEF RollAfter, PointsAfter, Rolled
    <3> QED
      BY <2>1, <3>1, <3>2 DEF Less
  <2>3. PointsToCome' = [s \in Slot |-> v.points[s]]
    BY <2>2 DEF PointsToCome
  <2> QED
    BY <2>3 DEF Views
<1>2. VisibleToCome' <=> v.show
  <2>1. fade.show \in Nat /\ fade.hide \in Nat /\ visible \in BOOLEAN
    BY Times DEF PageTypes
  <2>2. fade'.show = Less(fade.show) /\ fade'.hide = Less(fade.hide)
    BY DEF FadeAfter
  <2>3. VisibleToCome <=> v.show
    BY DEF Settling
  <2>4. visible' <=> (fade.hide # 1 /\ (fade.show = 1 \/ visible))
    BY <2>1 DEF VisibleAfter
  <2> QED
    BY <2>1, <2>2, <2>3, <2>4 DEF VisibleToCome, Less
<1>3. InPlace(cells, CellsWanted(v))'
  BY WantedTypes, TickKeepsCells DEF PageTypes, Settling
<1>4. RecapToCome(v.recap)'
  BY DEF RecapToCome, Settling
<1> QED
  BY <1>1, <1>2, <1>3, <1>4 DEF Settling

LEMMA TickKeeps == PageInv /\ Tick => PageInv'
<1> SUFFICES ASSUME PageInv, Tick PROVE PageInv'
  OBVIOUS
<1>1. /\ points' = PointsAfter /\ roll' = RollAfter /\ cells' = CellsAfter /\ fade' = FadeAfter
      /\ visible' = VisibleAfter /\ flip' = [flip EXCEPT !.left = Less(@)]
      /\ UNCHANGED <<board, last, name, sets, scale, recapMode, panel, frame, overlapped>>
      /\ (flip.left > 1 \/ flip.half = "no")
  BY DEF Tick
<1>2. PageTypes /\ FlipInv /\ FreshInv /\ SettleInv
  BY DEF PageInv
<1>3. /\ flip \in [half : {"no", "fold", "unfold"}, left : 0..FoldTime,
                   view : {<<>>} \cup Views, target : {"full", "part"}]
      /\ flip.left \in 0..FoldTime
  BY <1>2 DEF PageTypes
<1>4. /\ flip' \in [half : {"no", "fold", "unfold"}, left : 0..FoldTime,
                    view : {<<>>} \cup Views, target : {"full", "part"}]
      /\ flip'.half = flip.half /\ flip'.view = flip.view /\ flip'.target = flip.target
      /\ flip'.left = Less(flip.left)
  <2>1. Less(flip.left) \in 0..FoldTime
    BY <1>3, Times DEF Less
  <2>2. flip' = [half |-> flip.half, left |-> Less(flip.left), view |-> flip.view,
                 target |-> flip.target]
    BY <1>1, <1>3
  <2> QED
    BY <1>3, <2>1, <2>2
<1>5. PageTypes'
  BY <1>1, <1>2, <1>4, TickTypes DEF PageTypes
<1>6. FlipInv'
  <2>1. CASE flip.half = "no"
    <3>1. flip' = NoFlip
      BY <1>1, <1>2, <2>1 DEF FlipInv, NoFlip, Less
    <3> QED
      BY <3>1 DEF FlipInv, NoFlip
  <2>2. CASE flip.half # "no"
    <3>1. fade.show \in Nat /\ FadeAfter.show \in Nat /\ FadeAfter.show >= fade.show - 1
      BY <1>2, TickTypes
    <3>2. flip.left > 1 /\ Less(flip.left) = flip.left - 1
      BY <1>1, <1>3, <2>2, Times DEF Less
    <3>3. /\ flip.view \in Views /\ flip.view.show
          /\ flip.half = "unfold" => fade.show >= ShowTime - (FoldTime - flip.left)
      BY <1>2, <2>2 DEF FlipInv
    <3>4. flip.half = "unfold" => fade'.show >= ShowTime - (FoldTime - flip'.left)
      <4>1. \A f, g, e, h, l \in Int : f >= e - (h - l) /\ g >= f - 1 => g >= e - (h - (l - 1))
        OBVIOUS
      <4>2. fade'.show = FadeAfter.show /\ flip'.left = flip.left - 1
        BY <1>1, <1>4, <3>2
      <4>3. ShowTime \in Int /\ FoldTime \in Int /\ flip.left \in Int
        BY <1>3, Times
      <4> QED
        BY <3>1, <3>3, <4>1, <4>2, <4>3
    <3> QED
      BY <1>3, <1>4, <2>2, <3>2, <3>3, <3>4 DEF FlipInv
  <2> QED
    BY <2>1, <2>2
<1>7. FreshInv'
  <2>1. last # <<>>
    <3> SUFFICES ASSUME last = <<>> PROVE FALSE
      OBVIOUS
    <3>1. roll = Still /\ fade = [show |-> 0, hide |-> 0] /\ flip = NoFlip /\ cells = <<>>
      BY <1>2 DEF FreshInv
    <3> QED
      BY <3>1 DEF Tick, Still, NoFlip
  <2> QED
    BY <1>1, <2>1 DEF FreshInv
<1>8. ASSUME last # <<>>, ~overlapped, flip.half # "fold"
      PROVE  Settling(View(last))'
  <2>1. PICK b \in Boards : b = last
    BY <1>2, <1>8 DEF PageTypes
  <2>2. Settling(View(b)) /\ View(b) \in Views
    BY <1>2, <1>8, <2>1, ViewTypes DEF SettleInv
  <2>3. ScaleToCome' = "full"
    BY <1>1, <1>4, <2>2 DEF ScaleToCome, Settling
  <2>4. Settling(View(b))'
    BY <1>1, <1>2, <2>2, <2>3, TickSettles
  <2> QED
    BY <1>1, <2>1, <2>4 DEF Settling
<1>9. SettleInv'
  BY <1>1, <1>4, <1>8 DEF SettleInv
<1> QED
  BY <1>5, <1>6, <1>7, <1>9 DEF PageInv

\* The fold renders what it was begun with.
LEMMA FoldedKeeps == PageInv /\ Folded => PageInv'
<1> SUFFICES ASSUME PageInv, Folded PROVE PageInv'
  OBVIOUS
<1>1. PICK v : v = flip.view
  OBVIOUS
<1>2. PageTypes /\ FlipInv /\ FreshInv /\ SettleInv
  BY DEF PageInv
<1>3. v \in Views /\ v.show /\ flip.half = "fold" /\ flip.left = 1
  BY <1>1, <1>2 DEF Folded, FlipInv
<1>4. /\ name' = v.name /\ sets' = v.sets /\ points' = v.points /\ roll' = RollAfter
      /\ fade' = [FadeAfter EXCEPT !.show = ShowTime] /\ visible' = VisibleAfter
      /\ Recap(v.recap)
      /\ cells' = [i \in 1..CellsWanted(v) |-> IF i <= Len(CellsAfter) THEN CellsAfter[i] ELSE 0]
      /\ scale' = "full"
      /\ flip' = [flip EXCEPT !.half = "unfold", !.left = FoldTime]
      /\ UNCHANGED <<board, last>>
  BY <1>1 DEF Folded
<1>5. overlapped' = (\/ v # View(last) \/ (\E s \in Slot : roll[s].left > 1) \/ flip.target = "part"
                     \/ RecapOvertaken(v.recap)
                     \/ \E i \in DOMAIN CellsAfter : i <= CellsWanted(v) /\ CellsAfter[i] # 0)
  BY <1>1 DEF Folded
<1>6. /\ fade'.show = ShowTime /\ fade'.hide \in 0..HideTime
      /\ fade' \in [show : 0..ShowTime, hide : 0..HideTime]
  <2>1. FadeAfter \in [show : 0..ShowTime, hide : 0..HideTime]
    BY <1>2, TickTypes
  <2>2. fade' = [show |-> ShowTime, hide |-> FadeAfter.hide]
    BY <1>4, <2>1
  <2> QED
    BY <2>1, <2>2, Times
<1>7. /\ flip'.half = "unfold" /\ flip'.left = FoldTime /\ flip'.view = v /\ flip'.target = flip.target
      /\ flip' \in [half : {"no", "fold", "unfold"}, left : 0..FoldTime,
                    view : {<<>>} \cup Views, target : {"full", "part"}]
  <2>1. flip \in [half : {"no", "fold", "unfold"}, left : 0..FoldTime,
                  view : {<<>>} \cup Views, target : {"full", "part"}]
    BY <1>2 DEF PageTypes
  <2>2. flip' = [half |-> "unfold", left |-> FoldTime, view |-> v, target |-> flip.target]
    BY <1>1, <1>4, <2>1
  <2> QED
    BY <1>3, <2>1, <2>2, Times
<1> DEFINE C == CellsAfter
           n == CellsWanted(v)
<1>8. C \in Seq(0..ShrinkTime) /\ n \in Nat
  BY <1>2, <1>3, TickTypes, WantedTypes
<1>9. cells' = [i \in 1..n |-> IF i <= Len(C) THEN C[i] ELSE 0]
  BY <1>4
<1> HIDE DEF C, n
<1>10. cells' \in Seq(0..ShrinkTime) /\ Len(cells') = n
  <2>1. \A i \in 1..n : (IF i <= Len(C) THEN C[i] ELSE 0) \in 0..ShrinkTime
    <3> TAKE i \in 1..n
    <3>1. Len(C) \in Nat /\ \A j \in 1..Len(C) : C[j] \in 0..ShrinkTime
      BY <1>8, LenProperties, ElementOfSeq
    <3> QED
      BY <1>8, <3>1, Times
  <2> QED
    BY <1>8, <1>9, <2>1
<1>11. PageTypes'
  <2>1. roll' \in [Slot -> [left : 0..RollTime, text : Nat]] /\ visible' \in BOOLEAN
    BY <1>2, <1>4, TickTypes
  <2>2. name' \in [Slot -> Team] /\ sets' \in [Slot -> Nat] /\ points' \in [Slot -> Nat]
    BY <1>3, <1>4 DEF Views
  <2>3. recapMode' \in BOOLEAN /\ panel' \in BOOLEAN /\ frame' \in BOOLEAN
    BY <1>2, <1>3, <1>4 DEF Recap, PageTypes, Views
  <2>4. overlapped' \in BOOLEAN
    BY <1>5, Zenon
  <2>5. board' \in Boards /\ (last' # <<>> => last' \in Boards) /\ scale' \in {"full", "part"}
    BY <1>2, <1>4 DEF PageTypes
  <2> QED
    BY <1>6, <1>7, <1>10, <2>1, <2>2, <2>3, <2>4, <2>5 DEF PageTypes
<1>12. FlipInv'
  BY <1>3, <1>6, <1>7, Times DEF FlipInv
<1>13. FreshInv'
  BY <1>2, <1>3, <1>4 DEF FreshInv, NoFlip
<1>14. ASSUME ~overlapped'
       PROVE  Settling(v)'
  <2>1. \A s \in Slot : ~(roll[s].left > 1)
    BY <1>5, <1>14
  <2>2. PointsToCome' = v.points
    <3>1. \A s \in Slot : ~(roll'[s].left > 0)
      <4> TAKE s \in Slot
      <4>1. roll[s].left \in Nat /\ roll'[s].left = Less(roll[s].left)
        BY <1>2, <1>4, Times DEF PageTypes, RollAfter
      <4> QED
        BY <2>1, <4>1 DEF Less
    <3>2. PointsToCome' = [s \in Slot |-> v.points[s]]
      BY <1>4, <3>1 DEF PointsToCome
    <3> QED
      BY <1>3, <3>2 DEF Views
  <2>3. VisibleToCome' <=> v.show
    BY <1>3, <1>6, Times DEF VisibleToCome
  <2>4. InPlace(cells', n)
    <3>1. \A i \in DOMAIN C : ~(i <= n /\ C[i] # 0)
      BY <1>5, <1>14 DEF C, n
    <3>2. DOMAIN C = 1..Len(C) /\ Len(C) \in Nat
      BY <1>8, LenProperties
    <3>3. \A i \in 1..n : cells'[i] = 0
      BY <1>8, <1>9, <3>1, <3>2
    <3> QED
      BY <1>8, <1>10, <3>3 DEF InPlace
  <2>5. RecapToCome(v.recap)'
    <3>1. {recapMode, panel, frame} \subseteq BOOLEAN /\ v.recap \in BOOLEAN /\ ~RecapOvertaken(v.recap)
      BY <1>2, <1>3, <1>5, <1>14 DEF PageTypes, Views
    <3> QED
      BY <1>4, <3>1, RecapSettles
  <2>6. (ScaleToCome = "full")'
    <3>1. flip.target = "full"
      BY <1>2, <1>5, <1>14 DEF PageTypes
    <3> QED
      BY <1>7, <3>1 DEF ScaleToCome
  <2> QED
    BY <1>4, <2>2, <2>3, <2>4, <2>5, <2>6 DEF Settling, n
<1>15. SettleInv'
  <2>1. ~overlapped' => v = View(last)
    BY <1>5
  <2> QED
    BY <1>4, <1>14, <2>1 DEF SettleInv, Settling
<1> QED
  BY <1>11, <1>12, <1>13, <1>15 DEF PageInv

LEMMA UnfoldedKeeps == PageInv /\ Unfolded => PageInv'
<1> SUFFICES ASSUME PageInv, Unfolded PROVE PageInv'
  OBVIOUS
<1>1. /\ points' = PointsAfter /\ roll' = RollAfter /\ cells' = CellsAfter /\ fade' = FadeAfter
      /\ visible' = VisibleAfter /\ flip' = NoFlip /\ scale' = flip.target
      /\ flip.half = "unfold" /\ flip.left = 1
      /\ UNCHANGED <<board, last, name, sets, recapMode, panel, frame, overlapped>>
  BY DEF Unfolded
<1>2. PageTypes /\ FlipInv /\ FreshInv /\ SettleInv
  BY DEF PageInv
<1>3. PageTypes'
  <2>1. flip' \in [half : {"no", "fold", "unfold"}, left : 0..FoldTime,
                   view : {<<>>} \cup Views, target : {"full", "part"}]
    BY <1>1, Times DEF NoFlip
  <2>2. scale' \in {"full", "part"}
    BY <1>1, <1>2 DEF PageTypes
  <2> QED
    BY <1>1, <1>2, <2>1, <2>2, TickTypes DEF PageTypes
<1>4. FlipInv'
  BY <1>1 DEF FlipInv, NoFlip
<1>5. FreshInv'
  BY <1>1, <1>2 DEF FreshInv, NoFlip
<1>6. ASSUME last # <<>>, ~overlapped
      PROVE  Settling(View(last))'
  <2>1. PICK b \in Boards : b = last
    BY <1>2, <1>6 DEF PageTypes
  <2>2. Settling(View(b)) /\ View(b) \in Views
    BY <1>1, <1>2, <1>6, <2>1, ViewTypes DEF SettleInv
  <2>3. ScaleToCome' = "full"
    BY <1>1, <2>2 DEF ScaleToCome, Settling, NoFlip
  <2>4. Settling(View(b))'
    BY <1>1, <1>2, <2>2, <2>3, TickSettles
  <2> QED
    BY <1>1, <2>1, <2>4 DEF Settling
<1>7. SettleInv'
  BY <1>1, <1>6 DEF SettleInv
<1> QED
  BY <1>3, <1>4, <1>5, <1>7 DEF PageInv

LEMMA FrameKeeps == PageInv /\ Frame => PageInv'
<1> SUFFICES ASSUME PageInv, Frame PROVE PageInv'
  OBVIOUS
<1>1. /\ frame /\ frame' = FALSE /\ panel' = TRUE
      /\ UNCHANGED <<board, last, name, sets, points, roll, fade, visible, flip, scale, cells,
                     recapMode, overlapped>>
  BY DEF Frame, texts
<1>2. PageTypes'
  BY <1>1 DEF PageInv, PageTypes
<1>3. FlipInv' /\ FreshInv'
  BY <1>1 DEF PageInv, FlipInv, FreshInv
<1>4. SettleInv'
  <2>1. ASSUME Settling(View(last)), last # <<>>
        PROVE  Settling(View(last))'
    <3>1. PointsToCome' = PointsToCome /\ VisibleToCome' = VisibleToCome /\ ScaleToCome' = ScaleToCome
      BY <1>1 DEF PointsToCome, VisibleToCome, ScaleToCome
    <3>2. View(last).recap \in BOOLEAN
      BY <2>1, ViewTypes DEF PageInv, PageTypes, Views
    <3>3. RecapToCome(View(last).recap)'
      BY <1>1, <2>1, <3>2 DEF RecapToCome, Settling
    <3> QED
      BY <1>1, <2>1, <3>1, <3>3 DEF Settling
  <2> QED
    BY <1>1, <2>1 DEF SettleInv, PageInv
<1> QED
  BY <1>2, <1>3, <1>4 DEF PageInv

\* Nothing that the page keeps, alerts apart, is changed.
LEMMA StillKeeps ==
  ASSUME PageInv, UNCHANGED <<last, name, sets, points, roll, fade, visible, flip, scale, cells,
                              recapMode, panel, frame, overlapped>>, board' \in Boards
  PROVE  PageInv'
<1>1. PageTypes' /\ FlipInv' /\ FreshInv'
  BY DEF PageInv, PageTypes, FlipInv, FreshInv
<1>2. SettleInv'
  BY DEF PageInv, SettleInv, Settling, PointsToCome, VisibleToCome, ScaleToCome, RecapToCome
<1> QED
  BY <1>1, <1>2 DEF PageInv

LEMMA ReloadKeeps == PageInv /\ Reload => PageInv'
<1> SUFFICES ASSUME PageInv, Reload PROVE PageInv'
  OBVIOUS
<1> USE DEF Reload
<1>1. PageTypes'
  <2>1. flip' \in [half : {"no", "fold", "unfold"}, left : 0..FoldTime,
                   view : {<<>>} \cup Views, target : {"full", "part"}]
    BY Times DEF NoFlip
  <2>2. fade' \in [show : 0..ShowTime, hide : 0..HideTime]
    BY Times
  <2>3. roll' \in [Slot -> [left : 0..RollTime, text : Nat]]
    BY Times DEF Still
  <2>4. cells' \in Seq(0..ShrinkTime)
    BY EmptySeq
  <2>5. board' \in Boards
    BY DEF PageInv, PageTypes
  <2> QED
    BY <2>1, <2>2, <2>3, <2>4, <2>5 DEF PageTypes, Slot, Zero
<1>2. FlipInv' /\ FreshInv' /\ SettleInv'
  BY DEF FlipInv, FreshInv, SettleInv, NoFlip
<1> QED
  BY <1>1, <1>2 DEF PageInv

LEMMA BoardSteps ==
  ASSUME Score \/ Operate
  PROVE  \E b \in Boards : Change(b)
<1>1. \A b : Change(b) => b \in Boards
  BY DEF Change
<1>2. \E b : Change(b)
  BY DEF Score, Operate
<1> QED
  BY <1>1, <1>2

LEMMA PageSteps == PageInv /\ [PageNext]_pageVars => PageInv'
<1> SUFFICES ASSUME PageInv, [PageNext]_pageVars PROVE PageInv'
  OBVIOUS
<1>0. board \in Boards
  BY DEF PageInv, PageTypes
<1>1. ASSUME NEW b \in Boards, Change(b)
      PROVE  PageInv'
  <2>1. board' = b /\ (Receive(b) \/ UNCHANGED <<last, dom>>)
    BY <1>1 DEF Change
  <2>2. CASE Receive(b)
    BY <2>1, <2>2, ReceiveKeeps
  <2>3. CASE UNCHANGED <<last, dom>>
    BY <2>1, <2>3, StillKeeps DEF dom
  <2> QED
    BY <2>1, <2>2, <2>3
<1>2. CASE Score \/ Operate
  BY <1>1, <1>2, BoardSteps
<1>3. CASE Disconnect \/ GlowEnds \/ UNCHANGED pageVars
  BY <1>0, <1>3, StillKeeps DEF Disconnect, GlowEnds, dom, texts, pageVars
<1>4. CASE Reconnect
  BY <1>0, <1>4, ReceiveKeeps DEF Reconnect
<1>5. CASE Reload
  BY <1>5, ReloadKeeps
<1>6. CASE Tick
  BY <1>6, TickKeeps
<1>7. CASE Folded
  BY <1>7, FoldedKeeps
<1>8. CASE Unfolded
  BY <1>8, UnfoldedKeeps
<1>9. CASE Frame
  BY <1>9, FrameKeeps
<1> QED
  BY <1>2, <1>3, <1>4, <1>5, <1>6, <1>7, <1>8, <1>9 DEF PageNext

LEMMA RestShows == PageInv => PageAgrees
<1> SUFFICES ASSUME PageInv, AtRest, last # <<>>, ~overlapped PROVE Shows(View(last))
  BY DEF PageAgrees
<1> DEFINE v == View(last)
<1>1. v \in Views
  BY ViewTypes DEF PageInv, PageTypes
<1>2. Settling(v) /\ flip.half = "no"
  BY DEF AtRest, PageInv, SettleInv
<1> HIDE DEF v
<1>3. name = v.name /\ sets = v.sets /\ scale = "full"
  BY <1>2 DEF Settling, ScaleToCome
<1>4. points = v.points
  <2>1. PointsToCome = [s \in Slot |-> points[s]]
    BY DEF PointsToCome, AtRest
  <2> QED
    BY <1>2, <2>1 DEF Settling, PageInv, PageTypes
<1>5. visible = v.show
  <2>1. fade.show = 0 /\ fade.hide = 0 /\ visible \in BOOLEAN /\ v.show \in BOOLEAN
    BY <1>1 DEF AtRest, PageInv, PageTypes, Views
  <2>2. visible <=> v.show
    BY <1>2, <2>1 DEF Settling, VisibleToCome
  <2> QED
    BY <2>1, <2>2
<1>6. cells = [i \in 1..CellsWanted(v) |-> 0]
  <2> DEFINE n == CellsWanted(v)
  <2>1. n \in Nat
    BY <1>1, WantedTypes
  <2>2. Len(cells) >= n /\ \A i \in 1..Len(cells) : cells[i] = 0 <=> i <= n
    BY <1>2 DEF Settling, InPlace
  <2>3. Len(cells) \in Nat /\ DOMAIN cells = 1..Len(cells) /\ cells \in [1..Len(cells) -> 0..ShrinkTime]
    BY LenProperties DEF PageInv, PageTypes
  <2>4. \A i \in 1..Len(cells) : cells[i] = 0
    BY <2>3 DEF AtRest
  <2> HIDE DEF n
  <2>5. Len(cells) = n
    <3>1. Len(cells) >= n
      BY <2>2
    <3>2. ~(Len(cells) > n)
      <4> SUFFICES ASSUME Len(cells) > n PROVE FALSE
        OBVIOUS
      <4>1. Len(cells) \in 1..Len(cells)
        BY <2>1, <2>3
      <4> QED
        BY <2>1, <2>2, <2>3, <2>4, <4>1
    <3>3. \A k, l \in Nat : k >= l /\ ~(k > l) => k = l
      OBVIOUS
    <3> QED
      BY <2>1, <2>3, <3>1, <3>2, <3>3
  <2> QED
    BY <2>3, <2>4, <2>5 DEF n
<1>7. recapMode = v.recap /\ panel = v.recap
  <2>1. v.recap \in BOOLEAN /\ panel \in BOOLEAN /\ ~frame
    BY <1>1 DEF AtRest, PageInv, PageTypes, Views
  <2> QED
    BY <1>2, <2>1 DEF Settling, RecapToCome
<1> QED
  BY <1>3, <1>4, <1>5, <1>6, <1>7 DEF Shows, v

\* At rest the page shows the last state it was sent, unless an animation has overtaken
\* another since the page was last rendered in full.
THEOREM PagesSettle == PageSpec => []PageAgrees
<1>1. PageSpec => []PageInv
  BY PageStarts, PageSteps, PTL DEF PageSpec
<1> QED
  BY <1>1, RestShows, PTL

LEMMA AlertsAreOfTheDifference ==
  ASSUME PageInv, [PageNext]_pageVars
  PROVE  AlertsFollowTheTeam
<1> SUFFICES ASSUME ~overlapped, flip.half = "no",
                    NEW s \in Slot, NEW kind \in {"set", "match"}, <<kind, s>> \in glow' \ glow
             PROVE  /\ kind = "set" => last'.sets[name[s]] > last.sets[name[s]]
                    /\ kind = "match" => last'.sets[name[s]] >= SetsToWin
  BY DEF AlertsFollowTheTeam
<1>1. PICK b \in Boards : /\ last \in Boards /\ last # <<>> /\ last' = b /\ b.swapped = last.swapped
                          /\ DispatchAlerts(View(last), View(b))
  <2>1. PICK b \in Boards : Receive(b)
    <3>1. ASSUME NEW b \in Boards, Change(b)
          PROVE  Receive(b)
      BY <3>1 DEF Change, dom
    <3>2. CASE Score \/ Operate
      BY <3>1, <3>2, BoardSteps
    <3>3. CASE Reconnect
      BY <3>3 DEF Reconnect, PageInv, PageTypes
    <3>4. Disconnect \/ Reload \/ Tick \/ Folded \/ Unfolded \/ Frame \/ GlowEnds \/ UNCHANGED pageVars
            => glow' \subseteq glow
      BY DEF Disconnect, Reload, Tick, Folded, Unfolded, Frame, GlowEnds, pageVars, dom
    <3> QED
      BY <3>2, <3>3, <3>4 DEF PageNext
  <2>2. UpdateDiff(View(last), View(b)) /\ last # <<>> /\ b.swapped = last.swapped /\ last' = b
    BY <2>1 DEF Receive, SwapSides
  <2> QED
    BY <2>2 DEF UpdateDiff, PageInv, PageTypes
<1>2. name[s] = TeamIn(last, s) /\ TeamIn(b, s) = TeamIn(last, s)
  BY <1>1 DEF PageInv, SettleInv, Settling, View, TeamIn
<1>3. /\ View(b).sets[s] = b.sets[name[s]] /\ View(last).sets[s] = last.sets[name[s]]
  BY <1>2 DEF View
<1>4. <<kind, s>> \in Alerts(View(last), View(b))
  BY <1>1 DEF DispatchAlerts
<1>5. View(b) \in Views
  BY <1>1, ViewTypes
<1>6. CASE kind = "set"
  BY <1>1, <1>3, <1>4, <1>6 DEF Alerts
<1>7. CASE kind = "match"
  <2> DEFINE w == View(b)
  <2>1. Over(w) /\ s = IF w.sets["home"] > w.sets["away"] THEN "home" ELSE "away"
    BY <1>4, <1>7 DEF Alerts
  <2>2. w.sets["home"] \in Nat /\ w.sets["away"] \in Nat /\ SetsToWin \in Nat
    BY <1>5, PageAssumption DEF Views, Slot, Team
  <2> HIDE DEF w
  <2>3. w.sets[s] >= SetsToWin
    BY <2>1, <2>2 DEF Over, Slot, Team
  <2> QED
    BY <1>1, <1>3, <1>7, <2>3 DEF w
<1> QED
  BY <1>6, <1>7

\* An alert that starts on a page that shows what it was told is of a team that has just
\* won a set, or the match, whichever side it is on.
THEOREM AlertsAreOfTheWinner == PageSpec => [][AlertsFollowTheTeam]_pageVars
<1>1. PageSpec => []PageInv
  BY PageStarts, PageSteps, PTL DEF PageSpec
<1>2. PageInv /\ [PageNext]_pageVars => [AlertsFollowTheTeam]_pageVars
  BY AlertsAreOfTheDifference
<1> QED
  BY <1>1, <1>2, PTL DEF PageSpec
=============================================================================
