------------------------------ MODULE LogoProofs ------------------------------
(***************************************************************************)
(* The search for the logo (LogoSearch) and the scan of a whole recording  *)
(* for its changes (LogoScan).  For every number of corners, sizes and     *)
(* pictures, and all parameters of the search: no memory is used that a    *)
(* change of the size has deleted, a logo that is seen fits the picture,   *)
(* and checkLogo sees it at so many different frames.  For every           *)
(* recording, every distance of I-frames and all parameters of the scan:   *)
(* the scan only ever adds marks, each behind all there are; and where the *)
(* recording is steady and the jumps are long enough, it leaves one mark   *)
(* near each change and no other.                                          *)
(***************************************************************************)
EXTENDS LogoSearch, LogoScan, NumberTheorems, SequenceTheorems

-----------------------------------------------------------------------------
(* The objects at rest.                                                    *)

GetType == [filtered : Nat, checked : Nat, lines : Nat \cup {None}]

Proper(s) == s \in Objects /\ IsFiniteSet(s.heap)

UniqueIds(s) == \A l, m \in s.heap : l.id = m.id => l = m

\* The testlines CCheckLogo looks at are there, for its corner and the size.
Fits(s) ==
    s.check.lines # None =>
        /\ s.found /\ s.corner = s.check.corner
        /\ \E l \in s.heap : /\ l.id = s.check.lines
                             /\ l.corner = s.check.corner /\ l.size = s.size

\* Before CControl has found a logo no CGetLogo has testlines.
Fresh(s) ==
    /\ s.ctrl.found => s.found
    /\ ~s.ctrl.found => \A k \in Corners : s.ctrl.get[k].lines = None

Good(s) ==
    /\ Proper(s) /\ UniqueIds(s) /\ Fits(s) /\ Fresh(s)
    /\ ~s.fault
    /\ s.check.logo => s.check.lines # None

LEMMA ObjectsFacts ==
    ASSUME NEW s \in Objects
    PROVE  /\ s.size \in Sizes
           /\ \A k \in Corners : s.ctrl.get[k] \in GetType
           /\ s.check.lines \in Nat \cup {None}
           /\ \A l \in s.heap : l.id \in Nat /\ l.corner \in Corners /\ l.size \in Sizes
  BY DEF Objects, GetType

LEMMA NoneFacts == None \notin Nat /\ None \notin Corners
  <1>1. Corners \subseteq Nat
    BY LogoSearchAssumption DEF Corners, Range
  <1> QED
    BY <1>1, LogoSearchAssumption

\* Whatever leaves check, heap, corner and what is found alone keeps the objects
\* good.
LEMMA FrameGood ==
    ASSUME NEW s, NEW t, Good(s), t \in Objects,
           t.size = s.size, t.found = s.found, t.corner = s.corner,
           t.check = s.check, t.heap = s.heap, t.fault = s.fault,
           t.ctrl.found = s.ctrl.found,
           ~s.ctrl.found => \A k \in Corners : t.ctrl.get[k].lines = s.ctrl.get[k].lines
    PROVE  Good(t)
  BY DEF Good, Proper, UniqueIds, Fits, Fresh

-----------------------------------------------------------------------------
(* Addresses that nobody points to.                                        *)

LEMMA ImageFinite ==
    ASSUME NEW S, IsFiniteSet(S), NEW f, DOMAIN f = S, f = [x \in S |-> f[x]]
    PROVE  IsFiniteSet({f[x] : x \in S})
  <1> DEFINE T == {f[x] : x \in S}
  <1>1. f \in Surjection(S, T)
    BY DEF Surjection
  <1> HIDE DEF T
  <1>2. IsFiniteSet(T)
    BY <1>1, FS_Surjection
  <1> QED
    BY <1>2 DEF T

LEMMA UsedFinite ==
    ASSUME NEW s, Proper(s)
    PROVE  IsFiniteSet(Pointers(s) \cup Live(s))
  <1>1. IsFiniteSet(Corners)
    <2> DEFINE n == Len(CornerSeq)
               f == CornerSeq
    <2>1. n \in Nat /\ DOMAIN f = 1..n /\ f = [i \in 1..n |-> f[i]]
      BY LogoSearchAssumption
    <2>2. IsFiniteSet(1..n)
      BY <2>1, FS_Interval
    <2>3. IsFiniteSet({f[i] : i \in 1..n})
      BY <2>1, <2>2, ImageFinite
    <2> QED
      BY <2>1, <2>3 DEF Corners, Range
  <1>2. IsFiniteSet({s.ctrl.get[k].lines : k \in Corners})
    <2> DEFINE f == [k \in Corners |-> s.ctrl.get[k].lines]
    <2>1. DOMAIN f = Corners /\ f = [k \in Corners |-> f[k]]
      OBVIOUS
    <2>2. {s.ctrl.get[k].lines : k \in Corners} = {f[k] : k \in Corners}
      OBVIOUS
    <2> HIDE DEF f
    <2>3. IsFiniteSet({f[k] : k \in Corners})
      BY <1>1, <2>1, ImageFinite
    <2> QED
      BY <2>2, <2>3
  <1>3. IsFiniteSet(Live(s))
    <2> DEFINE f == [l \in s.heap |-> l.id]
    <2>1. DOMAIN f = s.heap /\ f = [l \in s.heap |-> f[l]]
      OBVIOUS
    <2>2. Live(s) = {f[l] : l \in s.heap}
      BY DEF Live
    <2> HIDE DEF f
    <2>3. IsFiniteSet({f[l] : l \in s.heap})
      BY <2>1, ImageFinite DEF Proper
    <2> QED
      BY <2>2, <2>3
  <1>4. IsFiniteSet({s.check.lines})
    BY FS_Singleton
  <1> QED
    BY <1>2, <1>3, <1>4, FS_Union DEF Pointers

LEMMA NewIdFresh ==
    ASSUME NEW s, Proper(s)
    PROVE  NewId(s) \in Nat /\ NewId(s) \notin Live(s)
  <1> DEFINE used == Pointers(s) \cup Live(s)
             n == Cardinality(used)
             free == (1..n + 1) \ used
  <1>1. IsFiniteSet(used)
    BY UsedFinite
  <1> HIDE DEF used
  <1>2. n \in Nat
    BY <1>1, FS_CardinalityType
  <1> HIDE DEF n
  <1>3. free # {}
    <2> SUFFICES ASSUME (1..n + 1) \subseteq used
                 PROVE  FALSE
      OBVIOUS
    <2>1. Cardinality(1..n + 1) = n + 1
      BY <1>2, FS_Interval
    <2>2. Cardinality(1..n + 1) <= n
      BY <1>1, FS_Subset DEF n
    <2> QED
      BY <1>2, <2>1, <2>2
  <1>4. free \in SUBSET Nat
    BY <1>2
  <1> HIDE DEF free
  <1>5. Min(free) \in free
    BY <1>3, <1>4, LeastElement
  <1>6. NewId(s) = Min(free)
    BY DEF NewId, free, n, used
  <1>7. free \subseteq Nat /\ \A x \in free : x \notin Live(s)
    BY <1>2 DEF free, used
  <1> QED
    BY <1>5, <1>6, <1>7

-----------------------------------------------------------------------------
(* The operations on the objects.                                          *)

LEMMA TidyGood ==
    ASSUME NEW s, Good(s)
    PROVE  Good(Tidy(s)) /\ Tidy(s).ctrl = s.ctrl
  <1> DEFINE t == Tidy(s)
  <1>1. s \in Objects /\ IsFiniteSet(s.heap)
    BY DEF Good, Proper
  <1>2. /\ t \in Objects /\ t.heap = {l \in s.heap : l.id \in Pointers(s)}
        /\ t.size = s.size /\ t.found = s.found /\ t.corner = s.corner
        /\ t.check = s.check /\ t.ctrl = s.ctrl /\ t.fault = s.fault
    BY <1>1 DEF Tidy, Objects
  <1>3. IsFiniteSet(t.heap) /\ t.heap \subseteq s.heap
    BY <1>1, <1>2, FS_Subset
  <1>4. s.check.lines \in Pointers(s)
    BY DEF Pointers
  <1> HIDE DEF t
  <1>5. UniqueIds(t) /\ Fits(t) /\ Fresh(t)
    BY <1>2, <1>3, <1>4 DEF Good, UniqueIds, Fits, Fresh
  <1>6. Good(t)
    BY <1>2, <1>3, <1>5 DEF Good, Proper
  <1> QED
    BY <1>2, <1>6 DEF t

\* The objects before initBuffer: the testlines are there, if not for the size.
Loose(s) ==
    /\ Proper(s) /\ UniqueIds(s) /\ Fresh(s) /\ ~s.fault
    /\ s.check.lines # None => s.check.lines \in Live(s)

LEMMA GoodLoose ==
    ASSUME NEW s, Good(s)
    PROVE  Loose(s)
  <1>1. s.check.lines # None => s.check.lines \in Live(s)
    BY DEF Good, Fits, Live
  <1> QED
    BY <1>1 DEF Good, Loose

\* initBuffer frees the testlines once, and leaves none behind that it could
\* look at.
LEMMA InitBufferGood ==
    ASSUME NEW s, Loose(s)
    PROVE  LET t == InitBuffer(s)
           IN  /\ Good(t) /\ t.check = NewCheck
               /\ t.size = s.size /\ t.found = s.found /\ t.corner = s.corner
               /\ t.ctrl.get = s.ctrl.get /\ t.ctrl.found = s.ctrl.found
               /\ s.ctrl.state = "none" => t.ctrl.state = "none"
  <1> DEFINE f == Freed(s, s.check.lines)
             t == InitBuffer(s)
  <1>1. s \in Objects /\ IsFiniteSet(s.heap) /\ ~s.fault
    BY DEF Loose, Proper
  <1>2. /\ f \in Objects /\ f.heap \subseteq s.heap /\ ~f.fault
        /\ f.size = s.size /\ f.found = s.found /\ f.corner = s.corner /\ f.ctrl = s.ctrl
    <2>1. CASE s.check.lines = None
      BY <1>1, <2>1 DEF Freed
    <2>2. CASE s.check.lines # None
      <3>1. s.check.lines \in Live(s)
        BY <2>2 DEF Loose
      <3> QED
        BY <1>1, <2>2, <3>1 DEF Freed, Objects
    <2> QED
      BY <2>1, <2>2
  <1> HIDE DEF f
  <1>3. /\ t \in Objects /\ t.check = NewCheck /\ t.heap = f.heap /\ t.fault = f.fault
        /\ t.size = f.size /\ t.found = f.found /\ t.corner = f.corner
        /\ t.ctrl.get = f.ctrl.get /\ t.ctrl.found = f.ctrl.found
        /\ f.ctrl.state = "none" => t.ctrl.state = "none"
    BY <1>2 DEF InitBuffer, NewCheck, Objects, f
  <1> HIDE DEF t
  <1>4. IsFiniteSet(t.heap)
    BY <1>1, <1>2, <1>3, FS_Subset
  <1>5. UniqueIds(t) /\ Fits(t) /\ Fresh(t)
    BY <1>2, <1>3 DEF Loose, UniqueIds, Fits, Fresh, NewCheck
  <1>6. ~t.check.logo
    BY <1>3 DEF NewCheck
  <1>7. Good(t)
    BY <1>2, <1>3, <1>4, <1>5, <1>6 DEF Good, Proper
  <1> QED
    BY <1>2, <1>3, <1>7 DEF t

LEMMA SetGrabSizeGood ==
    ASSUME NEW s, Good(s), NEW size \in Sizes
    PROVE  LET t == SetGrabSize(s, size)
           IN  /\ Good(t) /\ t.size = size /\ t.found = s.found /\ t.corner = s.corner
               /\ t.ctrl.get = s.ctrl.get /\ t.ctrl.found = s.ctrl.found
               /\ s.ctrl.state = "none" => t.ctrl.state = "none"
               /\ s.check.lines = None => t.check.lines = None
  <1> DEFINE u == [s EXCEPT !.size = size]
  <1>1. CASE s.size = size
    BY <1>1 DEF SetGrabSize
  <1>2. CASE s.size # size
    <2>1. s \in Objects
      BY DEF Good, Proper
    <2>2. /\ u \in Objects /\ u.size = size /\ u.heap = s.heap /\ u.check = s.check
          /\ u.ctrl = s.ctrl /\ u.found = s.found /\ u.corner = s.corner /\ u.fault = s.fault
      BY <2>1 DEF Objects
    <2> HIDE DEF u
    <2>3. Loose(u)
      BY <2>2, GoodLoose DEF Loose, Proper, UniqueIds, Fresh, Live
    <2>4. SetGrabSize(s, size) = InitBuffer(u)
      BY <1>2 DEF SetGrabSize, u
    <2>5. NewCheck.lines = None
      BY DEF NewCheck
    <2> QED
      BY <2>2, <2>3, <2>4, <2>5, InitBufferGood
  <1> QED
    BY <1>1, <1>2

\* delete cctrl, and new CControl.
LEMMA CtrlGood ==
    ASSUME NEW s, Good(s), NEW t \in {DeleteCtrl(s), NewCtrl(s)}
    PROVE  /\ Good(t) /\ t.size = s.size /\ t.found = s.found /\ t.corner = s.corner
           /\ t.check = s.check /\ t.ctrl.state # "stale" /\ t.ctrl.pics = 0
           /\ DeleteCtrl(s).ctrl.state = "none"
           /\ ~t.ctrl.found /\ \A k \in Corners : t.ctrl.get[k].lines = None
  <1>1. s \in Objects /\ IsFiniteSet(s.heap)
    BY DEF Good, Proper
  <1>2. PICK c \in {NoCtrl, [NoCtrl EXCEPT !.state = "fresh"]} : t = [s EXCEPT !.ctrl = c]
    BY DEF DeleteCtrl, NewCtrl
  <1>3. /\ c \in [state : {"none", "fresh", "stale"}, pics : 0..3, found : BOOLEAN,
                  get : [Corners -> GetType]]
        /\ c.state # "stale" /\ c.pics = 0 /\ ~c.found
        /\ \A k \in Corners : c.get[k].lines = None
    <2> DEFINE g == [k \in Corners |-> NewGet]
    <2>1. NewGet \in GetType /\ NewGet.lines = None
      BY DEF NewGet, GetType
    <2>2. g \in [Corners -> GetType] /\ \A k \in Corners : g[k].lines = None
      BY <2>1
    <2>3. NoCtrl = [state |-> "none", pics |-> 0, found |-> FALSE, get |-> g]
      BY DEF NoCtrl
    <2>4. PICK st \in {"none", "fresh"} :
              c = [state |-> st, pics |-> 0, found |-> FALSE, get |-> g]
      BY <2>3
    <2> HIDE DEF g
    <2>5. st \in {"none", "fresh", "stale"} /\ st # "stale" /\ 0 \in 0..3
      BY <2>4
    <2> QED
      BY <2>2, <2>4, <2>5
  <1>4. /\ t \in Objects /\ t.size = s.size /\ t.found = s.found /\ t.corner = s.corner
        /\ t.check = s.check /\ t.heap = s.heap /\ t.fault = s.fault /\ t.ctrl = c
    BY <1>1, <1>2, <1>3 DEF Objects, GetType
  <1>5. DeleteCtrl(s).ctrl.state = "none"
    BY <1>1 DEF DeleteCtrl, NoCtrl, Objects
  <1>6. Fresh(t)
    BY <1>3, <1>4 DEF Fresh
  <1>7. Good(t)
    BY <1>1, <1>4, <1>6 DEF Good, Proper, UniqueIds, Fits
  <1> QED
    BY <1>3, <1>4, <1>5, <1>7

LEMMA ReInitGood ==
    ASSUME NEW s, Good(s)
    PROVE  LET t == ReInitNoad(s)
           IN  Good(t) /\ t.size = s.size /\ t.ctrl.state # "stale" /\ t.check.lines = None
  <1> DEFINE u == DeleteCtrl(s)
             v == InitBuffer(u)
             w == [v EXCEPT !.found = FALSE, !.corner = Unknown]
  <1>1. Good(u) /\ u.size = s.size /\ ~u.ctrl.found
    BY CtrlGood
  <1> HIDE DEF u
  <1>2. Good(v) /\ v.size = s.size /\ ~v.ctrl.found /\ v.check = NewCheck
    BY <1>1, GoodLoose, InitBufferGood
  <1> HIDE DEF v
  <1>3. /\ w \in Objects /\ w.size = v.size /\ w.check = v.check /\ w.heap = v.heap
        /\ w.fault = v.fault /\ w.ctrl = v.ctrl
    BY <1>2 DEF Good, Proper, Objects
  <1> HIDE DEF w
  <1>4. w.check.lines = None
    BY <1>2, <1>3 DEF NewCheck
  <1>5. Good(w)
    BY <1>2, <1>3, <1>4 DEF Good, Proper, UniqueIds, Fits, Fresh
  <1>6. ReInitNoad(s) = NewCtrl(w)
    BY DEF ReInitNoad, u, v, w
  <1> QED
    BY <1>2, <1>3, <1>4, <1>5, <1>6, CtrlGood

\* A logo that has been saved.
LEMMA LoadGood ==
    ASSUME NEW s, Good(s), s.check.lines = None,
           NEW file \in [corner : Corners, size : Sizes]
    PROVE  Good(LoadCheckData(s, file))
  <1> DEFINE r == [s EXCEPT !.corner = file.corner]
             u == SetGrabSize(r, file.size)
             id == NewId(u)
             t == LoadCheckData(s, file)
  <1>1. s \in Objects /\ file.corner \in Corners /\ file.size \in Sizes
    BY DEF Good, Proper
  <1>2. /\ r \in Objects /\ r.size = s.size /\ r.found = s.found /\ r.corner = file.corner
        /\ r.check = s.check /\ r.heap = s.heap /\ r.fault = s.fault /\ r.ctrl = s.ctrl
    BY <1>1 DEF Objects
  <1> HIDE DEF r
  <1>3. Good(r)
    BY <1>2 DEF Good, Proper, UniqueIds, Fits, Fresh
  <1>4. Good(u) /\ u.size = file.size /\ u.corner = file.corner /\ u.check.lines = None
    BY <1>1, <1>2, <1>3, SetGrabSizeGood
  <1> HIDE DEF u
  <1>5. u \in Objects /\ IsFiniteSet(u.heap) /\ id \in Nat /\ id \notin Live(u)
    BY <1>4, NewIdFresh DEF Good, Proper
  <1> DEFINE line == [id |-> id, corner |-> file.corner, size |-> file.size]
  <1> HIDE DEF id
  <1>6. t = [u EXCEPT !.found = TRUE,
                      !.check = [@ EXCEPT !.lines = id, !.corner = file.corner],
                      !.heap = @ \cup {line}]
    <2>1. Freed(u, u.check.lines) = u
      BY <1>4 DEF Freed
    <2> QED
      BY <2>1 DEF LoadCheckData, r, u, id
  <1>7. /\ line \in [id : Nat, corner : Corners, size : Sizes]
        /\ line.id = id /\ line.corner = file.corner /\ line.size = file.size
    BY <1>1, <1>5
  <1> HIDE DEF line, t
  <1>8. /\ t \in Objects /\ t.size = file.size /\ t.found /\ t.corner = file.corner
        /\ t.check.lines = id /\ t.check.corner = file.corner
        /\ t.heap = u.heap \cup {line} /\ t.fault = u.fault /\ t.ctrl = u.ctrl
    BY <1>1, <1>4, <1>5, <1>6, <1>7 DEF Objects
  <1>9. IsFiniteSet(t.heap)
    BY <1>5, <1>8, FS_AddElement
  <1>10. UniqueIds(t)
    BY <1>4, <1>5, <1>7, <1>8 DEF Good, UniqueIds, Live
  <1>11. Fits(t)
    BY <1>7, <1>8 DEF Fits
  <1>12. Fresh(t)
    BY <1>4, <1>8 DEF Good, Fresh
  <1>13. ~t.fault /\ t.check.lines # None
    BY <1>4, <1>5, <1>8, NoneFacts DEF Good
  <1> QED
    BY <1>8, <1>9, <1>10, <1>11, <1>12, <1>13 DEF Good, Proper, t

LEMMA StdCallBackGood ==
    ASSUME NEW s, Good(s), NEW p \in Pictures
    PROVE  LET t == StdCallBack(s, p)
           IN  /\ Good(t) /\ t.size = p.size /\ t.found = s.found
               /\ s.ctrl.state # "stale" => t.ctrl.state # "stale"
  <1>1. p.size \in Sizes
    BY DEF Pictures
  <1>2. CASE p.size = s.size
    BY <1>2 DEF StdCallBack
  <1>3. CASE p.size # s.size
    <2> DEFINE u == DeleteCtrl(s)
    <2>1. Good(u) /\ u.found = s.found /\ u.ctrl.state = "none"
      BY CtrlGood
    <2>2. StdCallBack(s, p) = SetGrabSize(u, p.size)
      BY <1>3 DEF StdCallBack
    <2> HIDE DEF u
    <2> QED
      BY <1>1, <2>1, <2>2, SetGrabSizeGood
  <1> QED
    BY <1>2, <1>3

LEMMA CheckNewDataGood ==
    ASSUME NEW s, Good(s), NEW p \in Pictures
    PROVE  LET t == CheckNewData(s, p)
           IN  Good(t) /\ t.size = s.size /\ t.ctrl = s.ctrl
  <1> DEFINE t == CheckNewData(s, p)
  <1>1. s \in Objects /\ IsFiniteSet(s.heap) /\ p.logo \in BOOLEAN
    BY DEF Good, Proper, Pictures
  <1>2. s.check.lines # None => s.check.lines \in Live(s) /\ s.check.corner # None
    BY <1>1, NoneFacts DEF Good, Fits, Live, Objects
  <1>3. ~s.fault
    BY DEF Good
  <1> DEFINE b == s.check.lines # None /\ p.logo
             c == s.fault \/ (s.check.lines # None
                                /\ (s.check.lines \notin Live(s) \/ s.check.corner = None))
  <1>4. t = [s EXCEPT !.check.logo = b, !.fault = c]
    BY <1>1 DEF CheckNewData, Objects
  <1>5. /\ b \in BOOLEAN /\ c \in BOOLEAN /\ ~c
        /\ b => s.check.lines # None
    BY <1>2, <1>3
  <1> HIDE DEF t, b, c
  <1>6. /\ t \in Objects /\ t.size = s.size /\ t.found = s.found /\ t.corner = s.corner
        /\ t.check.lines = s.check.lines /\ t.check.corner = s.check.corner
        /\ t.heap = s.heap /\ t.ctrl = s.ctrl /\ t.fault = c /\ t.check.logo = b
    BY <1>1, <1>4, <1>5 DEF Objects
  <1>7. Good(t)
    BY <1>1, <1>5, <1>6 DEF Good, Proper, UniqueIds, Fits, Fresh
  <1> QED
    BY <1>6, <1>7 DEF t

LEMMA ExtNewDataGood ==
    ASSUME NEW s, Good(s), NEW p \in Pictures, NEW moved \in BOOLEAN
    PROVE  Good(ExtNewData(s, p, moved))
  <1> DEFINE u == CheckNewData(s, p)
             t == [u EXCEPT !.check.logo = moved]
  <1>1. Good(u) /\ u \in Objects
    BY CheckNewDataGood DEF Good, Proper
  <1>2. ExtNewData(s, p, moved) \in {u, t} /\ (u.check.lines = None => ExtNewData(s, p, moved) = u)
    BY DEF ExtNewData
  <1> HIDE DEF u
  <1>3. /\ t \in Objects /\ t.size = u.size /\ t.found = u.found /\ t.corner = u.corner
        /\ t.check.lines = u.check.lines /\ t.check.corner = u.check.corner
        /\ t.heap = u.heap /\ t.ctrl = u.ctrl /\ t.fault = u.fault
    BY <1>1 DEF Objects
  <1> HIDE DEF t
  <1>4. u.check.lines # None => Good(t)
    BY <1>1, <1>3 DEF Good, Proper, UniqueIds, Fits, Fresh
  <1> QED
    BY <1>1, <1>2, <1>4

-----------------------------------------------------------------------------
(* CControl asks the corners.                                              *)

\* A CGetLogo changes.
LEMMA SetGet ==
    ASSUME NEW s \in Objects, NEW k \in Corners, NEW g \in GetType
    PROVE  LET t == [s EXCEPT !.ctrl.get[k] = g]
           IN  /\ t \in Objects /\ t.size = s.size /\ t.found = s.found /\ t.corner = s.corner
               /\ t.check = s.check /\ t.heap = s.heap /\ t.fault = s.fault
               /\ t.ctrl.found = s.ctrl.found /\ t.ctrl.state = s.ctrl.state
               /\ t.ctrl.pics = s.ctrl.pics /\ t.ctrl.get[k] = g
               /\ \A j \in Corners \ {k} : t.ctrl.get[j] = s.ctrl.get[j]
  BY DEF Objects, GetType

\* What the corner k may do to the objects s.
Counted(s, k, t) ==
    /\ t \in Objects /\ t.size = s.size /\ t.found = s.found /\ t.corner = s.corner
    /\ t.check = s.check /\ t.heap = s.heap /\ t.fault = s.fault
    /\ t.ctrl.found = s.ctrl.found /\ t.ctrl.state = s.ctrl.state
    /\ \A j \in Corners : t.ctrl.get[j].lines = s.ctrl.get[j].lines

Reset(s, k, t) ==
    \E f \in Objects :
        /\ f = Freed(s, s.ctrl.get[k].lines) /\ f.heap \subseteq s.heap
        /\ t \in Objects /\ t.size = f.size /\ t.found = f.found /\ t.corner = f.corner
        /\ t.check = f.check /\ t.heap = f.heap /\ t.fault = f.fault
        /\ t.ctrl.found = f.ctrl.found /\ t.ctrl.state = f.ctrl.state
        /\ t.ctrl.get[k].lines = None
        /\ \A j \in Corners \ {k} : t.ctrl.get[j].lines = f.ctrl.get[j].lines

Completed(s, k, t) ==
    \E id \in Nat, line \in [id : Nat, corner : Corners, size : Sizes] :
        /\ id \notin Live(s) /\ line = [id |-> id, corner |-> k, size |-> s.size]
        /\ t \in Objects /\ t.size = s.size /\ t.found /\ t.corner = k
        /\ t.check.lines = id /\ t.check.corner = k
        /\ t.heap = s.heap \cup {line} /\ t.fault = s.fault
        /\ t.ctrl.found /\ t.ctrl.state = s.ctrl.state
        /\ \A j \in Corners \ {k} : t.ctrl.get[j].lines = s.ctrl.get[j].lines

LEMMA GetNewDataCases ==
    ASSUME NEW s, Proper(s), NEW k \in Corners, NEW p \in Pictures
    PROVE  LET t == GetNewData(s, k, p)
           IN  Counted(s, k, t) \/ Reset(s, k, t) \/ Completed(s, k, t)
  <1> DEFINE get == s.ctrl.get[k]
             id == NewId(s)
             line == [id |-> id, corner |-> k, size |-> s.size]
             u == [s EXCEPT !.heap = @ \cup {line},
                            !.ctrl.get[k] = [@ EXCEPT !.checked = SampleFrames, !.lines = id]]
             d == [s EXCEPT !.ctrl.get[k].filtered = @ + 1]
             e == [s EXCEPT !.ctrl.get[k].checked = @ + 1]
  <1>1. s \in Objects /\ get \in GetType /\ s.size \in Sizes /\ SampleFrames \in Nat
    BY ObjectsFacts, LogoSearchAssumption DEF Proper
  <1>2. id \in Nat /\ id \notin Live(s)
    BY NewIdFresh
  <1> HIDE DEF id
  <1>3. Counted(s, k, s)
    BY <1>1 DEF Counted
  <1>4. Counted(s, k, d)
    <2> DEFINE g == [get EXCEPT !.filtered = @ + 1]
    <2>1. g \in GetType /\ g.lines = get.lines
      BY <1>1 DEF GetType
    <2>2. d = [s EXCEPT !.ctrl.get[k] = g]
      BY <1>1 DEF Objects
    <2> HIDE DEF g, d
    <2> QED
      BY <1>1, <2>1, <2>2, SetGet DEF Counted
  <1>5. Counted(s, k, e)
    <2> DEFINE g == [get EXCEPT !.checked = @ + 1]
    <2>1. g \in GetType /\ g.lines = get.lines
      BY <1>1 DEF GetType
    <2>2. e = [s EXCEPT !.ctrl.get[k] = g]
      BY <1>1 DEF Objects
    <2> HIDE DEF g, e
    <2> QED
      BY <1>1, <2>1, <2>2, SetGet DEF Counted
  <1>6. Reset(s, k, ResetGet(s, k))
    <2> DEFINE f == Freed(s, get.lines)
    <2>1. f \in Objects /\ f.heap \subseteq s.heap
      BY <1>1 DEF Freed, Objects
    <2>2. NewGet \in GetType /\ NewGet.lines = None
      BY DEF NewGet, GetType
    <2>3. ResetGet(s, k) = [f EXCEPT !.ctrl.get[k] = NewGet]
      BY DEF ResetGet
    <2> DEFINE t == ResetGet(s, k)
    <2>4. f = Freed(s, s.ctrl.get[k].lines)
      OBVIOUS
    <2> HIDE DEF f, t
    <2>5. /\ t \in Objects /\ t.size = f.size /\ t.found = f.found /\ t.corner = f.corner
          /\ t.check = f.check /\ t.heap = f.heap /\ t.fault = f.fault
          /\ t.ctrl.found = f.ctrl.found /\ t.ctrl.state = f.ctrl.state
          /\ t.ctrl.get[k] = NewGet
          /\ \A j \in Corners \ {k} : t.ctrl.get[j] = f.ctrl.get[j]
      BY <2>1, <2>2, <2>3, SetGet DEF t
    <2>6. Reset(s, k, t)
      BY <2>1, <2>2, <2>4, <2>5, Zenon DEF Reset
    <2> QED
      BY <2>6 DEF t
  <1>7. Completed(s, k, FoundLogo(u, k, id))
    <2> DEFINE g == [get EXCEPT !.checked = SampleFrames, !.lines = id]
               v == [s EXCEPT !.ctrl.get[k] = g]
               t == FoundLogo(u, k, id)
    <2>1. g \in GetType
      BY <1>1, <1>2 DEF GetType
    <2>2. line \in [id : Nat, corner : Corners, size : Sizes]
      BY <1>1, <1>2
    <2>3. u = [v EXCEPT !.heap = @ \cup {line}]
      BY <1>1 DEF Objects
    <2> HIDE DEF line, g, u
    <2>4. /\ v \in Objects /\ v.size = s.size /\ v.heap = s.heap /\ v.fault = s.fault
          /\ v.ctrl.state = s.ctrl.state
          /\ \A j \in Corners \ {k} : v.ctrl.get[j] = s.ctrl.get[j]
      BY <1>1, <2>1, SetGet
    <2> HIDE DEF v
    <2>5. /\ u \in Objects /\ u.heap = v.heap \cup {line} /\ u.size = v.size
          /\ u.fault = v.fault /\ u.ctrl = v.ctrl
      BY <2>2, <2>3, <2>4 DEF Objects
    <2>6. /\ t \in Objects /\ t.size = u.size /\ t.found /\ t.corner = k
          /\ t.check.lines = id /\ t.check.corner = k /\ t.heap = u.heap
          /\ t.fault = u.fault /\ t.ctrl.found /\ t.ctrl.state = u.ctrl.state
          /\ t.ctrl.get = u.ctrl.get
      BY <1>2, <2>5 DEF FoundLogo, Objects
    <2> HIDE DEF t
    <2>7. line = [id |-> id, corner |-> k, size |-> s.size]
      BY DEF line
    <2>8. /\ t.size = s.size /\ t.heap = s.heap \cup {line} /\ t.fault = s.fault
          /\ t.ctrl.state = s.ctrl.state
          /\ \A j \in Corners \ {k} : t.ctrl.get[j].lines = s.ctrl.get[j].lines
      BY <2>4, <2>5, <2>6
    <2>9. Completed(s, k, t)
      BY <1>2, <2>2, <2>6, <2>7, <2>8, Zenon DEF Completed
    <2> QED
      BY <2>9 DEF t
  <1>8. GetNewData(s, k, p) \in {s, d, e, ResetGet(s, k), FoundLogo(u, k, id)}
    BY DEF GetNewData, id
  <1> HIDE DEF u, d, e
  <1> QED
    BY <1>3, <1>4, <1>5, <1>6, <1>7, <1>8

LEMMA GetNewDataProper ==
    ASSUME NEW s, Proper(s), NEW k \in Corners, NEW p \in Pictures
    PROVE  Proper(GetNewData(s, k, p))
  <1> DEFINE t == GetNewData(s, k, p)
  <1>1. IsFiniteSet(s.heap)
    BY DEF Proper
  <1>2. CASE Counted(s, k, t)
    BY <1>1, <1>2 DEF Counted, Proper
  <1>3. CASE Reset(s, k, t)
    BY <1>1, <1>3, FS_Subset DEF Reset, Proper
  <1>4. CASE Completed(s, k, t)
    <2>1. t \in Objects /\ \E line : t.heap = s.heap \cup {line}
      BY <1>4, Zenon DEF Completed
    <2> QED
      BY <1>1, <2>1, FS_AddElement DEF Proper
  <1> QED
    BY <1>2, <1>3, <1>4, GetNewDataCases

\* A corner without testlines is asked.
LEMMA GetNewDataGood ==
    ASSUME NEW s, Good(s), NEW k \in Corners, s.ctrl.get[k].lines = None,
           NEW p \in Pictures
    PROVE  LET t == GetNewData(s, k, p)
           IN  /\ Good(t) /\ t.size = s.size /\ t.ctrl.state = s.ctrl.state
               /\ \A j \in Corners \ {k} : t.ctrl.get[j].lines = s.ctrl.get[j].lines
  <1> DEFINE t == GetNewData(s, k, p)
  <1>1. Proper(t) /\ Proper(s) /\ ~s.fault
    BY GetNewDataProper DEF Good
  <1> HIDE DEF t
  <1>2. ASSUME Counted(s, k, t)
        PROVE  Good(t) /\ t.size = s.size /\ t.ctrl.state = s.ctrl.state
               /\ \A j \in Corners \ {k} : t.ctrl.get[j].lines = s.ctrl.get[j].lines
    BY <1>2, FrameGood DEF Counted
  <1>3. ASSUME Reset(s, k, t)
        PROVE  Good(t) /\ t.size = s.size /\ t.ctrl.state = s.ctrl.state
               /\ \A j \in Corners \ {k} : t.ctrl.get[j].lines = s.ctrl.get[j].lines
    <2>1. Freed(s, s.ctrl.get[k].lines) = s
      BY DEF Freed
    <2>2. Counted(s, k, t)
      BY <1>3, <2>1 DEF Reset, Counted
    <2> QED
      BY <1>2, <2>2
  <1>4. ASSUME Completed(s, k, t)
        PROVE  Good(t) /\ t.size = s.size /\ t.ctrl.state = s.ctrl.state
               /\ \A j \in Corners \ {k} : t.ctrl.get[j].lines = s.ctrl.get[j].lines
    <2>1. PICK id \in Nat, line \in [id : Nat, corner : Corners, size : Sizes] :
            /\ id \notin Live(s) /\ line = [id |-> id, corner |-> k, size |-> s.size]
            /\ t \in Objects /\ t.size = s.size /\ t.found /\ t.corner = k
            /\ t.check.lines = id /\ t.check.corner = k
            /\ t.heap = s.heap \cup {line} /\ t.fault = s.fault
            /\ t.ctrl.found /\ t.ctrl.state = s.ctrl.state
            /\ \A j \in Corners \ {k} : t.ctrl.get[j].lines = s.ctrl.get[j].lines
      BY <1>4 DEF Completed
    <2>2. line.id = id /\ line.corner = k /\ line.size = s.size
      BY <2>1
    <2>3. UniqueIds(t)
      BY <2>1, <2>2 DEF Good, UniqueIds, Live
    <2>4. Fits(t) /\ Fresh(t) /\ t.check.lines # None
      BY <2>1, <2>2, NoneFacts DEF Fits, Fresh
    <2>5. Good(t)
      BY <1>1, <2>1, <2>3, <2>4 DEF Good
    <2> QED
      BY <2>1, <2>5
  <1> QED
    BY <1>1, <1>2, <1>3, <1>4, GetNewDataCases DEF t

LEMMA CornerFacts ==
    /\ Len(CornerSeq) \in Nat
    /\ \A i \in 1..Len(CornerSeq) : CornerSeq[i] \in Corners
    /\ \A i, j \in 1..Len(CornerSeq) : CornerSeq[i] = CornerSeq[j] => i = j
    /\ \A k \in Corners : \E i \in 1..Len(CornerSeq) : CornerSeq[i] = k
  <1>1. Len(CornerSeq) \in Nat /\ DOMAIN CornerSeq = 1..Len(CornerSeq)
    BY LogoSearchAssumption
  <1> QED
    BY <1>1, LogoSearchAssumption DEF Corners, Range

\* The recursion in AllAsked has a solution.
LEMMA AskedUnfolds ==
    ASSUME NEW s, Proper(s), NEW p \in Pictures
    PROVE  \E f : /\ AllAsked(s, p) = f[Len(CornerSeq)] /\ f[0] = s
                  /\ \A i \in 1..Len(CornerSeq) : f[i] = GetNewData(f[i - 1], CornerSeq[i], p)
  <1> DEFINE n == Len(CornerSeq)
             D == {t \in Objects : IsFiniteSet(t.heap)}
             G == [i \in 1..n |-> [t \in D |-> GetNewData(t, CornerSeq[i], p)]]
             F(f) == [i \in 0..n |-> IF i = 0 THEN s
                                     ELSE GetNewData(f[i - 1], CornerSeq[i], p)]
             asked == CHOOSE f : f = F(f)
  <1>1. n \in Nat /\ \A i \in 1..n : CornerSeq[i] \in Corners
    BY CornerFacts
  <1>2. \A i \in 1..n, t \in D : GetNewData(t, CornerSeq[i], p) \in D
    BY <1>1, GetNewDataProper DEF Proper
  <1>3. s \in D
    BY DEF Proper
  <1>4. \A i \in 1..n, t \in D : G[i][t] = GetNewData(t, CornerSeq[i], p)
    OBVIOUS
  <1>5. G \in [1..n -> [D -> D]]
    BY <1>2
  <1> HIDE DEF D, G
  <1>6. PICK g \in [0..n -> D] : g[0] = s /\ \A i \in 1..n : g[i] = G[i][g[i - 1]]
    <2> HIDE DEF n
    <2>1. n \in Nat /\ s \in D /\ G \in [1..n -> [D -> D]]
      BY <1>1, <1>3, <1>5
    <2>2. \E g : Recursion(n, D, s, G, g)
      BY <2>1, RecursiveFunction
    <2> QED
      BY <2>2 DEF Recursion
  <1>7. g = F(g)
    <2>1. \A i \in 0..n : i # 0 => i \in 1..n /\ i - 1 \in 0..n
      BY <1>1
    <2>2. \A i \in 0..n : i # 0 => g[i] = GetNewData(g[i - 1], CornerSeq[i], p)
      <3> SUFFICES ASSUME NEW i \in 0..n, i # 0
                   PROVE  g[i] = GetNewData(g[i - 1], CornerSeq[i], p)
        OBVIOUS
      <3>1. i \in 1..n /\ g[i - 1] \in D
        BY <2>1, <1>6
      <3> QED
        BY <3>1, <1>4, <1>6
    <2>3. \A i \in 0..n : g[i] = F(g)[i]
      BY <1>6, <2>2
    <2>4. g = [i \in 0..n |-> g[i]] /\ F(g) = [i \in 0..n |-> F(g)[i]]
      BY <1>6
    <2> HIDE DEF F
    <2> QED
      BY <2>3, <2>4
  <1>8. asked = F(asked)
    <2> HIDE DEF F
    <2> QED
      BY <1>7
  <1>9. AllAsked(s, p) = asked[n]
    BY DEF AllAsked
  <1> HIDE DEF asked
  <1>10. asked[0] = s
    <2>1. 0 \in 0..n
      BY <1>1
    <2>2. F(asked)[0] = s
      BY <2>1
    <2> HIDE DEF F
    <2> QED
      BY <1>8, <2>2
  <1>11. ASSUME NEW i \in 1..n
         PROVE  asked[i] = GetNewData(asked[i - 1], CornerSeq[i], p)
    <2>1. i \in 0..n /\ i # 0
      BY <1>1
    <2>2. F(asked)[i] = GetNewData(asked[i - 1], CornerSeq[i], p)
      BY <2>1
    <2> HIDE DEF F
    <2> QED
      BY <1>8, <2>2
  <1> QED
    BY <1>9, <1>10, <1>11

\* All corners are asked, each once, and each has no testlines until then.
LEMMA AllAskedGood ==
    ASSUME NEW s, Good(s), ~s.ctrl.found, NEW p \in Pictures
    PROVE  LET t == AllAsked(s, p)
           IN  Good(t) /\ t.size = s.size /\ t.ctrl.state = s.ctrl.state
  <1> DEFINE n == Len(CornerSeq)
  <1>1. PICK f : /\ AllAsked(s, p) = f[n] /\ f[0] = s
                 /\ \A i \in 1..n : f[i] = GetNewData(f[i - 1], CornerSeq[i], p)
    BY AskedUnfolds DEF Good
  <1> DEFINE Untouched(i) == \A j \in 1..n : j > i => f[i].ctrl.get[CornerSeq[j]].lines = None
             S == {i \in 0..n : /\ Good(f[i]) /\ f[i].size = s.size
                                /\ f[i].ctrl.state = s.ctrl.state /\ Untouched(i)}
  <1>2. n \in Nat
    BY CornerFacts
  <1>3. 0 \in S
    <2>1. \A k \in Corners : s.ctrl.get[k].lines = None
      BY DEF Good, Fresh
    <2> QED
      BY <1>1, <1>2, <2>1, CornerFacts
  <1>4. ASSUME NEW i \in 1..n, i - 1 \in S
        PROVE  i \in S
    <2> DEFINE u == f[i - 1]
               k == CornerSeq[i]
    <2>1. /\ Good(u) /\ u.size = s.size /\ u.ctrl.state = s.ctrl.state
          /\ \A j \in 1..n : j > i - 1 => u.ctrl.get[CornerSeq[j]].lines = None
      BY <1>4
    <2>2. k \in Corners /\ u.ctrl.get[k].lines = None
      BY <1>2, <2>1, CornerFacts
    <2>3. f[i] = GetNewData(u, k, p)
      BY <1>1
    <2>4. \A j \in 1..n : j > i => CornerSeq[j] \in Corners \ {k}
      BY <1>2, CornerFacts
    <2>5. \A j \in 1..n : j > i => j > i - 1
      BY <1>2
    <2> HIDE DEF u, k, n
    <2>6. /\ Good(f[i]) /\ f[i].size = u.size /\ f[i].ctrl.state = u.ctrl.state
          /\ \A j \in Corners \ {k} : f[i].ctrl.get[j].lines = u.ctrl.get[j].lines
      BY <2>1, <2>2, <2>3, GetNewDataGood
    <2>7. Untouched(i)
      BY <2>1, <2>4, <2>5, <2>6
    <2>8. i \in 0..n
      BY <1>2
    <2> HIDE DEF Untouched
    <2> QED
      BY <2>1, <2>6, <2>7, <2>8
  <1>5. n \in S
    <2>1. \A i \in 1..n : i - 1 \in S => i \in S
      BY <1>4
    <2> HIDE DEF S, n
    <2>2. \A i \in 0..n : i \in S
      BY <1>2, <1>3, <2>1, InductionUpTo
    <2> QED
      BY <1>2, <2>2
  <1> QED
    BY <1>1, <1>5

LEMMA CtrlNewDataGood ==
    ASSUME NEW s, Good(s), s.ctrl.state # "stale", NEW p \in Pictures
    PROVE  LET t == CtrlNewData(s, p)
           IN  Good(t) /\ t.size = s.size /\ t.ctrl.state # "stale"
  <1> DEFINE u == [s EXCEPT !.ctrl.pics = Min({@ + 1, 3}), !.fault = @ \/ s.ctrl.state = "stale"]
             v == IF u.ctrl.pics > 2 /\ ~u.ctrl.found THEN AllAsked(u, p) ELSE u
  <1>1. s \in Objects /\ s.ctrl.pics \in 0..3 /\ s.fault \in BOOLEAN
    BY DEF Good, Proper, Objects
  <1>2. Min({s.ctrl.pics + 1, 3}) \in 0..3
    <2>1. {s.ctrl.pics + 1, 3} \in SUBSET Nat /\ {s.ctrl.pics + 1, 3} # {}
      BY <1>1
    <2>2. /\ Min({s.ctrl.pics + 1, 3}) \in {s.ctrl.pics + 1, 3}
          /\ \A y \in {s.ctrl.pics + 1, 3} : Min({s.ctrl.pics + 1, 3}) <= y
      BY <2>1, LeastElement
    <2> QED
      BY <1>1, <2>2
  <1>3. Good(u) /\ u.size = s.size /\ u.ctrl.state = s.ctrl.state
    <2> DEFINE m == Min({s.ctrl.pics + 1, 3})
               c == s.fault \/ s.ctrl.state = "stale"
    <2>1. u = [s EXCEPT !.ctrl.pics = m, !.fault = c]
      BY <1>1 DEF Objects
    <2>2. m \in 0..3 /\ c \in BOOLEAN /\ ~c /\ ~s.fault
      BY <1>1, <1>2 DEF Good
    <2> HIDE DEF m, c, u
    <2>3. /\ u \in Objects /\ u.size = s.size /\ u.found = s.found /\ u.corner = s.corner
          /\ u.check = s.check /\ u.heap = s.heap /\ u.fault = c
          /\ u.ctrl.found = s.ctrl.found /\ u.ctrl.state = s.ctrl.state
          /\ u.ctrl.get = s.ctrl.get
      BY <1>1, <2>1, <2>2 DEF Objects
    <2>4. Fresh(u) /\ Fits(u) /\ UniqueIds(u)
      BY <2>3 DEF Good, Fresh, Fits, UniqueIds
    <2>5. Good(u)
      BY <2>2, <2>3, <2>4 DEF Good, Proper
    <2> QED
      BY <2>3, <2>5
  <1> HIDE DEF u
  <1>4. Good(v) /\ v.size = s.size /\ v.ctrl.state # "stale"
    BY <1>3, AllAskedGood
  <1>5. CtrlNewData(s, p) = IF v.ctrl.found THEN CheckNewData(v, p) ELSE v
    BY DEF CtrlNewData, u
  <1> HIDE DEF v
  <1> QED
    BY <1>4, <1>5, CheckNewDataGood

LEMMA LogoDetectGood ==
    ASSUME NEW s, Good(s), s.ctrl.state # "stale", NEW p \in Pictures
    PROVE  LET t == LogoDetectCallback(s, p)
           IN  Good(t) /\ t.ctrl.state # "stale"
  <1> DEFINE u == StdCallBack(s, p)
             v == IF u.ctrl.state = "none" THEN NewCtrl(u) ELSE u
  <1>1. Good(u) /\ u.ctrl.state # "stale"
    BY StdCallBackGood
  <1> HIDE DEF u
  <1>2. Good(v) /\ v.ctrl.state # "stale"
    BY <1>1, CtrlGood
  <1>3. LogoDetectCallback(s, p) = IF v.found THEN CheckNewData(v, p) ELSE CtrlNewData(v, p)
    BY DEF LogoDetectCallback, u
  <1> HIDE DEF v
  <1> QED
    BY <1>2, <1>3, CheckNewDataGood, CtrlNewDataGood

LEMMA CheckCallbackGood ==
    ASSUME NEW s, Good(s), NEW p \in Pictures
    PROVE  Good(CheckCallback(s, p))
  BY StdCallBackGood, CheckNewDataGood DEF CheckCallback

LEMMA ShownGood ==
    ASSUME NEW s, Good(s), NEW frame, NEW t \in Shown(s, frame)
    PROVE  Good(t)
  BY CheckCallbackGood DEF Shown

-----------------------------------------------------------------------------
(* The steps of the search.                                                *)

ObjectsInv == Good(nd) /\ (pc = "detect" => nd.ctrl.state # "stale")

LEMMA ObjectsInit == SearchInit => ObjectsInv
  <1> SUFFICES ASSUME SearchInit
               PROVE  ObjectsInv
    OBVIOUS
  <1> DEFINE s0 == [size |-> nd.size, found |-> FALSE, corner |-> Unknown, ctrl |-> NoCtrl,
                    check |-> NewCheck, heap |-> {}, fault |-> FALSE]
  <1>1. nd = s0 /\ nd.size \in Sizes /\ pc = "idle"
    BY DEF SearchInit
  <1>2. NoCtrl \in [state : {"none", "fresh", "stale"}, pics : 0..3, found : BOOLEAN,
                    get : [Corners -> GetType]]
    <2> DEFINE g == [k \in Corners |-> NewGet]
    <2>1. NewGet \in GetType
      BY DEF NewGet, GetType
    <2>2. NoCtrl = [state |-> "none", pics |-> 0, found |-> FALSE, get |-> g]
      BY DEF NoCtrl
    <2>3. g \in [Corners -> GetType]
      BY <2>1
    <2> HIDE DEF g
    <2> QED
      BY <2>2, <2>3
  <1>3. nd \in Objects
    <2>1. NewCheck \in [lines : Nat \cup {None}, corner : Corners \cup {None}, logo : BOOLEAN]
      BY DEF NewCheck
    <2>2. s0 \in Objects
      BY <1>1, <1>2, <2>1 DEF Objects, GetType, Unknown
    <2> QED
      BY <1>1, <2>2
  <1>4. /\ ~nd.fault /\ nd.heap = {} /\ nd.check.lines = None /\ ~nd.check.logo
        /\ nd.ctrl = NoCtrl
    BY <1>1 DEF NewCheck
  <1>5. Fresh(nd)
    BY <1>4 DEF Fresh, NoCtrl, NewGet
  <1>6. Good(nd)
    BY <1>3, <1>4, <1>5, FS_EmptySet DEF Good, Proper, UniqueIds, Fits
  <1> QED
    BY <1>1, <1>6 DEF ObjectsInv

LEMMA ObjectsStep ==
    ASSUME ObjectsInv, SearchNext
    PROVE  ObjectsInv'
  <1>0. Good(nd)
    BY DEF ObjectsInv
  <1>1. CASE Start
    <2>1. CASE nd' = Tidy(ReInitNoad(nd)) /\ pc' = "part"
      BY <1>0, <2>1, ReInitGood, TidyGood DEF ObjectsInv
    <2>2. CASE /\ \E file \in [corner : Corners, size : Sizes] :
                     nd' = Tidy(LoadCheckData(ReInitNoad(nd), file))
               /\ pc' = "verify"
      BY <1>0, <2>2, ReInitGood, LoadGood, TidyGood DEF ObjectsInv
    <2> QED
      BY <1>1, <2>1, <2>2 DEF Start, StartVerify
  <1>2. CASE Part
    <2>1. CASE pc' = "none" /\ nd' = nd
      BY <1>0, <2>1 DEF ObjectsInv
    <2>2. CASE nd' = Tidy(ReInitNoad(nd))
      BY <1>0, <2>2, ReInitGood, TidyGood DEF ObjectsInv
    <2> QED
      BY <1>2, <2>1, <2>2 DEF Part
  <1>3. CASE DetectPicture
    <2>1. PICK p \in Pictures : nd' = Tidy(LogoDetectCallback(nd, p))
      BY <1>3 DEF DetectPicture
    <2>2. pc = "detect"
      BY <1>3 DEF DetectPicture
    <2> QED
      BY <1>0, <2>1, <2>2, LogoDetectGood, TidyGood DEF ObjectsInv
  <1>4. CASE DetectEnd
    <2>1. nd' = nd /\ pc' # "detect"
      BY <1>4 DEF DetectEnd, StartVerify
    <2> QED
      BY <1>0, <2>1 DEF ObjectsInv
  <1>5. CASE CheckLogo \/ CheckLogoState
    <2>1. \E frame : \E s \in Shown(nd, frame) : nd' = Tidy(s)
      BY <1>5 DEF CheckLogo, CheckLogoState
    <2>2. pc' # "detect"
      BY <1>5 DEF CheckLogo, CheckLogoState, VerifyEnd
    <2> QED
      BY <1>0, <2>1, <2>2, ShownGood, TidyGood DEF ObjectsInv
  <1>6. CASE Scan
    <2>1. PICK p \in Pictures, moved \in BOOLEAN :
             \/ nd' = Tidy(StdCallBack(nd, p))
             \/ nd' = Tidy(CheckCallback(nd, p))
             \/ nd' = Tidy(ExtNewData(StdCallBack(nd, p), p, moved))
      BY <1>6 DEF Scan
    <2>2. pc' # "detect"
      BY <1>6 DEF Scan
    <2>3. Good(nd')
      BY <1>0, <2>1, StdCallBackGood, CheckCallbackGood, ExtNewDataGood, TidyGood
    <2> QED
      BY <2>2, <2>3 DEF ObjectsInv
  <1>7. CASE Again
    BY <1>0, <1>7 DEF Again, ObjectsInv
  <1> QED
    BY <1>1, <1>2, <1>3, <1>4, <1>5, <1>6, <1>7 DEF SearchNext

LEMMA ObjectsInvHolds == SearchSpec => []ObjectsInv
  <1>1. ObjectsInv /\ UNCHANGED searchVars => ObjectsInv'
    BY DEF searchVars, ObjectsInv
  <1> QED
    BY <1>1, ObjectsInit, ObjectsStep, PTL DEF SearchSpec

\* No corner and no testline is used, or freed, when it is gone (noad.cpp,
\* 155-300, noaddata.cpp, 122-217, cchecklogo.cpp, 70-88).
THEOREM NothingGoneHolds == SearchSpec => []NothingGone
  <1>1. ObjectsInv => NothingGone
    BY DEF ObjectsInv, Good, NothingGone
  <1> QED
    BY <1>1, ObjectsInvHolds, PTL

\* A logo that is seen is seen with the testlines of its corner, in pictures of
\* their size (ccontrol.cpp, 56-103, 134-154, cchecklogo.cpp, 73-84).
THEOREM LogoFitsHolds == SearchSpec => []LogoFits
  <1>1. ObjectsInv => LogoFits
    <2> SUFFICES ASSUME Good(nd), nd.check.logo
                 PROVE  /\ nd.found /\ nd.check.lines \in Live(nd)
                        /\ Lines(nd).corner = nd.check.corner /\ nd.corner = nd.check.corner
                        /\ Lines(nd).size = nd.size
      BY DEF ObjectsInv, LogoFits
    <2>1. nd.found /\ nd.corner = nd.check.corner
      BY DEF Good, Fits
    <2>2. PICK l \in nd.heap : /\ l.id = nd.check.lines
                               /\ l.corner = nd.check.corner /\ l.size = nd.size
      BY DEF Good, Fits
    <2>3. Lines(nd) \in nd.heap /\ Lines(nd).id = nd.check.lines
      BY <2>2 DEF Lines
    <2>4. Lines(nd) = l
      BY <2>2, <2>3 DEF Good, UniqueIds
    <2>5. nd.check.lines \in Live(nd)
      BY <2>2 DEF Live
    <2> QED
      BY <2>1, <2>2, <2>4, <2>5
  <1> QED
    BY <1>1, ObjectsInvHolds, PTL

-----------------------------------------------------------------------------
(* Where checkLogo looks.                                                  *)

PartInv ==
    /\ online \in BOOLEAN /\ length \in Lengths /\ from \in Nat /\ part \in Nat
    /\ pc \in {"idle", "part", "detect", "verify", "found", "none"}
    /\ pc \in {"part", "detect"} => part # 0
    /\ ~online /\ pc \in {"detect", "verify", "found"} => part <= Len(PartStarts)

\* So far the logo has been seen at count frames, all of them in front of the
\* next one; and no block has been asked for behind the end of the recording.
VerifyInv ==
    pc = "verify" /\ ~online /\ length >= Long =>
        /\ shown \in Nat /\ shown < Blocks * BlockFrames
        /\ index = VerifyStart + 1 + (shown \div BlockFrames) * (Dist + 1)
        /\ IsFiniteSet(where) /\ where \subseteq Nat
        /\ count = Cardinality(where)
        /\ \A x \in where : x < index + (shown % BlockFrames)

WhereInv == PartInv /\ VerifyInv /\ SeenApart

LEMMA ConstantFacts ==
    /\ Blocks \in Nat \ {0} /\ BlockFrames \in Nat \ {0} /\ Needed \in Nat \ {0}
    /\ Dist \in Nat /\ Limit \in Nat /\ BlockFrames <= Dist + 1
    /\ Lengths \subseteq Nat /\ Searches \subseteq Nat
    /\ Len(PartStarts) \in Nat /\ \A i \in 1..Len(PartStarts) : PartStarts[i] \in Nat
    /\ Blocks * BlockFrames \in Nat \ {0} /\ Blocks * (Dist + 1) \in Nat
  <1>1. /\ Blocks \in Nat \ {0} /\ BlockFrames \in Nat \ {0} /\ Needed \in Nat \ {0}
        /\ Dist \in Nat /\ Limit \in Nat /\ BlockFrames <= Dist + 1
        /\ Lengths \subseteq Nat /\ Searches \subseteq Nat
    BY LogoSearchAssumption
  <1>2. Len(PartStarts) \in Nat /\ \A i \in 1..Len(PartStarts) : PartStarts[i] \in Nat
    BY LogoSearchAssumption
  <1>3. Blocks * BlockFrames \in Nat \ {0} /\ Blocks * (Dist + 1) \in Nat
    BY <1>1, Z3
  <1> QED
    BY <1>1, <1>2, <1>3

Offline == ~online /\ pc \in {"detect", "verify", "found"}
NatStart == VerifyStart \in Nat /\ Long \in Nat /\ length \in Nat

LEMMA StartNat == PartInv /\ Offline => NatStart
  <1> SUFFICES ASSUME PartInv, ~online, pc \in {"detect", "verify", "found"}
               PROVE  VerifyStart \in Nat /\ Long \in Nat /\ length \in Nat
    BY DEF Offline, NatStart
  <1>1. VerifyStart \in Nat
    <2>1. CASE part = 0
      BY <2>1 DEF VerifyStart
    <2>2. CASE part # 0
      <3>1. part \in 1..Len(PartStarts)
        BY <2>2, ConstantFacts DEF PartInv
      <3>2. PartStarts[part] \in Nat /\ from \in Nat
        BY <3>1, ConstantFacts DEF PartInv
      <3> QED
        BY <2>2, <3>2 DEF VerifyStart, PartStart
    <2> QED
      BY <2>1, <2>2
  <1> QED
    BY <1>1, ConstantFacts DEF Long, PartInv

LEMMA StartNatNext == (PartInv /\ Offline => NatStart)'
  BY StartNat, PTL

LEMMA PartStep ==
    ASSUME PartInv, SearchNext
    PROVE  PartInv'
  <1>1. online' = online /\ length' = length
    BY DEF SearchNext, Start, Part, DetectPicture, DetectEnd, CheckLogo, CheckLogoState, Scan, Again
  <1>2. CASE Start
    BY <1>1, <1>2, ConstantFacts DEF Start, StartVerify, PartInv
  <1>3. CASE Part
    BY <1>1, <1>3 DEF Part, PartInv
  <1>4. CASE DetectPicture \/ Scan
    BY <1>1, <1>4 DEF DetectPicture, Scan, PartInv
  <1>5. CASE DetectEnd
    BY <1>1, <1>5 DEF DetectEnd, StartVerify, PartInv
  <1>6. CASE CheckLogo \/ CheckLogoState
    <2>1. /\ pc = "verify" /\ from' = from
          /\ \/ pc' = pc /\ part' = part
             \/ pc' = "found" /\ part' = part
             \/ pc' = "part" /\ part' = part + 1
      BY <1>6 DEF CheckLogo, CheckLogoState, VerifyEnd
    <2> QED
      BY <1>1, <2>1 DEF PartInv
  <1>7. CASE Again
    BY <1>1, <1>7, ConstantFacts DEF Again, PartInv
  <1> QED
    BY <1>2, <1>3, <1>4, <1>5, <1>6, <1>7 DEF SearchNext

\* checkLogo begins.
LEMMA BeginStep ==
    ASSUME PartInv', length' = length, StartVerify(VerifyStart')
    PROVE  VerifyInv'
  <1> SUFFICES ASSUME pc' = "verify", ~online', length' >= Long'
               PROVE  /\ shown' \in Nat /\ shown' < Blocks * BlockFrames
                      /\ index' = VerifyStart' + 1 + (shown' \div BlockFrames) * (Dist + 1)
                      /\ IsFiniteSet(where') /\ where' \subseteq Nat
                      /\ count' = Cardinality(where')
                      /\ \A x \in where' : x < index' + (shown' % BlockFrames)
    BY DEF VerifyInv
  <1> DEFINE v == VerifyStart'
             w == Dist + 1
             bw == Blocks * w
  <1>1. v \in Nat /\ length \in Nat /\ length >= v + bw + BlockFrames + Limit
    BY StartNatNext DEF Long, Offline, NatStart
  <1>2. shown' = 0 /\ count' = 0 /\ where' = {} /\ index' = NextI(v)
    BY DEF StartVerify
  <1>3. bw \in Nat /\ bw >= 1
    <2>1. Blocks \in Nat \ {0} /\ w \in Nat \ {0}
      BY ConstantFacts
    <2> HIDE DEF w
    <2> QED
      BY <2>1, Z3
  <1>4. v + 1 < length - Limit
    <2> HIDE DEF v, bw
    <2> QED
      BY <1>1, <1>3, ConstantFacts
  <1>5. index' = v + 1
    BY <1>2, <1>4 DEF NextI
  <1>6. 0 \div BlockFrames = 0
    <2>1. 0 * BlockFrames = 0
      BY ConstantFacts
    <2> QED
      BY <2>1, ConstantFacts, DivUnique
  <1>7. 0 < Blocks * BlockFrames /\ 0 * (Dist + 1) = 0
    BY ConstantFacts
  <1>8. IsFiniteSet(where') /\ Cardinality(where') = 0
    BY <1>2, FS_EmptySet
  <1> HIDE DEF v
  <1>9. index' = v + 1 + (shown' \div BlockFrames) * (Dist + 1)
    BY <1>1, <1>2, <1>5, <1>6, <1>7
  <1> QED
    BY <1>2, <1>7, <1>8, <1>9 DEF v

\* checkLogo goes on to the next frame, in the next block if this one is done.
LEMMA CheckLogoStep ==
    ASSUME WhereInv, PartInv', CheckLogo
    PROVE  VerifyInv' /\ SeenApart'
  <1>1. /\ pc = "verify" /\ ~online /\ online' = online /\ length' = length /\ from' = from
        /\ pc' \in {"verify", "found"} => part' = part
    BY DEF CheckLogo, VerifyEnd
  <1> SUFFICES ASSUME pc' \in {"verify", "found"}, length >= Long
               PROVE  VerifyInv' /\ SeenApart'
    BY <1>1 DEF VerifyInv, SeenApart, Long, VerifyStart, PartStart
  <1> DEFINE v == VerifyStart
             b == BlockFrames
             w == Dist + 1
             q == shown \div b
             q1 == (shown + 1) \div b
             frame == index + (shown % b)
  <1>2. v \in Nat /\ length \in Nat /\ VerifyStart' = v /\ Long' = Long
    BY <1>1, StartNat DEF WhereInv, VerifyStart, PartStart, Long, Offline, NatStart
  <1>3. /\ shown \in Nat /\ shown < Blocks * b /\ index = v + 1 + q * w
        /\ IsFiniteSet(where) /\ where \subseteq Nat /\ count = Cardinality(where)
        /\ \A x \in where : x < frame
    BY <1>1 DEF WhereInv, VerifyInv
  <1>4. b \in Nat \ {0} /\ w \in Nat \ {0} /\ b <= w /\ Blocks \in Nat \ {0} /\ Limit \in Nat
    BY ConstantFacts
  <1>5. /\ q \in Nat /\ shown % b \in 0..b - 1
        /\ (shown + 1) % b # 0 => (shown + 1) % b = (shown % b) + 1 /\ q1 = q
        /\ (shown + 1) % b = 0 => (shown % b) = b - 1 /\ q1 = q + 1
    BY <1>3, <1>4, DivStep
  <1>6. q * w \in Nat /\ (q + 1) * w = q * w + w
    <2> HIDE DEF q, w
    <2> QED
      BY <1>4, <1>5, Z3
  <1>7. index \in Nat /\ frame \in Nat
    <2> HIDE DEF v, q, w
    <2> QED
      BY <1>2, <1>3, <1>5, <1>6
  <1>8. /\ shown' = shown + 1
        /\ count' = count + IF nd'.check.logo THEN 1 ELSE 0
        /\ where' = IF nd'.check.logo THEN where \cup {frame} ELSE where
        /\ index' = IF (shown + 1) % b = 0 THEN NextI(index + Dist) ELSE index
        /\ pc' = "found" => count' >= Needed
        /\ pc' = "verify" => shown' # Blocks * b
    BY <1>1 DEF CheckLogo, VerifyEnd
  <1>9. frame \notin where
    <2> HIDE DEF frame
    <2> QED
      BY <1>3, <1>7
  <1>10. IsFiniteSet(where') /\ where' \subseteq Nat /\ count' = Cardinality(where')
    <2> HIDE DEF frame
    <2>1. CASE nd'.check.logo
      <3>1. where' = where \cup {frame} /\ count' = count + 1
        BY <1>8, <2>1
      <3>2. IsFiniteSet(where') /\ Cardinality(where') = Cardinality(where) + 1
        BY <1>3, <1>9, <3>1, FS_AddElement
      <3> QED
        BY <1>3, <1>7, <3>1, <3>2
    <2>2. CASE ~nd'.check.logo
      <3>1. where' = where /\ count' = count + 0
        BY <1>8, <2>2
      <3>2. Cardinality(where) \in Nat
        BY <1>3, FS_CardinalityType
      <3> QED
        BY <1>3, <3>1, <3>2
    <2> QED
      BY <2>1, <2>2
  <1>11. SeenApart'
    <2>1. Cardinality(where') \in Nat /\ Needed \in Nat
      BY <1>10, FS_CardinalityType, ConstantFacts
    <2> QED
      BY <1>8, <1>10, <2>1 DEF SeenApart
  <1>12. \A x \in where' : x \in Nat /\ x <= frame
    <2> HIDE DEF frame
    <2> QED
      BY <1>3, <1>7, <1>8
  <1>13. ASSUME pc' = "verify"
         PROVE  /\ shown' \in Nat /\ shown' < Blocks * b
                /\ index' = v + 1 + q1 * w
                /\ \A x \in where' : x < index' + (shown' % b)
    <2>1. shown' \in Nat /\ shown' < Blocks * b
      <3>1. Blocks * b \in Nat
        BY ConstantFacts
      <3> QED
        BY <1>3, <1>8, <1>13, <3>1
    <2>2. CASE (shown + 1) % b # 0
      <3>1. index' = index /\ q1 = q /\ shown' % b = (shown % b) + 1
        BY <1>5, <1>8, <2>2
      <3>2. frame < index' + (shown' % b)
        BY <1>4, <1>5, <1>7, <3>1
      <3>3. index' + (shown' % b) \in Nat
        BY <1>5, <1>7, <3>1
      <3>4. \A x \in where' : x < index' + (shown' % b)
        <4> HIDE DEF frame
        <4> QED
          BY <1>7, <1>12, <3>2, <3>3
      <3>5. index' = v + 1 + q1 * w
        BY <1>3, <3>1
      <3> QED
        BY <2>1, <3>4, <3>5
    <2>3. CASE (shown + 1) % b = 0
      <3>1. q1 = q + 1 /\ (shown % b) = b - 1 /\ index' = NextI(index + Dist)
        BY <1>5, <1>8, <2>3
      <3>2. q + 1 < Blocks
        <4>1. q1 < Blocks
          BY <1>4, <1>8, <2>1, DivBelow
        <4> HIDE DEF q1
        <4> QED
          BY <3>1, <4>1
      <3>3. q * w + 2 * w <= Blocks * w /\ Blocks * w \in Nat
        <4> HIDE DEF q, w
        <4>1. (q + 2) * w <= Blocks * w /\ Blocks * w \in Nat
          <5>1. q + 2 <= Blocks
            BY <1>4, <1>5, <3>2
          <5> QED
            BY <1>4, <1>5, <5>1, Z3
        <4>2. (q + 2) * w = q * w + 2 * w
          BY <1>4, <1>5, Z3
        <4> QED
          BY <4>1, <4>2
      <3>4. length >= v + Blocks * w + b + Limit
        BY DEF Long
      <3>5. index + Dist + 1 < length - Limit
        <4>1. Dist + 1 = w /\ Dist \in Nat
          BY ConstantFacts
        <4> DEFINE bw == Blocks * w
                   qw == q * w
        <4>2. index + Dist + 1 = v + 1 + qw + w
          <5> HIDE DEF qw, w, v, q
          <5> QED
            BY <1>2, <1>3, <1>4, <1>6, <4>1 DEF qw
        <4>3. /\ v \in Nat /\ w \in Nat /\ w >= 1 /\ qw \in Nat /\ bw \in Nat /\ length \in Nat
              /\ qw + 2 * w <= bw /\ length >= v + bw + b + Limit /\ b >= 1 /\ b \in Nat
          BY <1>2, <1>4, <1>6, <3>3, <3>4
        <4> HIDE DEF bw, qw, w, v
        <4> QED
          BY <1>4, <4>2, <4>3
      <3>6. index' = index + Dist + 1
        BY <1>7, <3>1, <3>5, ConstantFacts DEF NextI
      <3>7. index' = v + 1 + q1 * w
        <4>1. q1 * w = q * w + w
          BY <1>6, <3>1
        <4>2. index' = index + w
          BY <1>7, <3>6, ConstantFacts
        <4> HIDE DEF q1, q, w, v
        <4> QED
          BY <1>2, <1>3, <1>4, <1>6, <4>1, <4>2
      <3>8. frame < index' + (shown' % b)
        <4>1. shown' % b = 0
          BY <1>8, <2>3
        <4>2. frame = index + (b - 1) /\ index' = index + w
          BY <1>7, <3>1, <3>6, ConstantFacts
        <4> HIDE DEF frame, w
        <4> QED
          BY <1>4, <1>7, <4>1, <4>2
      <3>9. index' \in Nat /\ shown' % b = 0
        BY <1>7, <1>8, <2>3, <3>6, ConstantFacts
      <3>10. \A x \in where' : x < index' + (shown' % b)
        <4> HIDE DEF frame
        <4> QED
          BY <1>7, <1>12, <3>8, <3>9
      <3> QED
        BY <2>1, <3>7, <3>10
    <2> QED
      BY <2>2, <2>3
  <1>14. VerifyInv'
    BY <1>2, <1>8, <1>10, <1>13 DEF VerifyInv
  <1> QED
    BY <1>11, <1>14

LEMMA VerifyStep ==
    ASSUME WhereInv, PartInv', SearchNext
    PROVE  VerifyInv' /\ SeenApart'
  <1>1. CASE Start
    <2>1. CASE pc' = "part"
      BY <2>1 DEF VerifyInv, SeenApart
    <2>2. CASE part' = 0 /\ StartVerify(0)
      <3>1. VerifyStart' = 0 /\ length' = length
        BY <1>1, <2>2 DEF Start, VerifyStart
      <3>2. VerifyInv'
        BY <2>2, <3>1, BeginStep
      <3> QED
        BY <2>2, <3>2 DEF SeenApart, StartVerify
    <2> QED
      BY <1>1, <2>1, <2>2 DEF Start
  <1>2. CASE DetectEnd
    <2>1. CASE pc' = "part"
      BY <2>1 DEF VerifyInv, SeenApart
    <2>2. CASE part' = part /\ StartVerify(PartStart)
      <3>1. part # 0 /\ from' = from /\ length' = length
        BY <1>2 DEF DetectEnd, WhereInv, PartInv
      <3>2. VerifyStart' = PartStart
        BY <2>2, <3>1 DEF VerifyStart, PartStart
      <3>3. VerifyInv'
        BY <2>2, <3>1, <3>2, BeginStep
      <3> QED
        BY <2>2, <3>3 DEF SeenApart, StartVerify
    <2> QED
      BY <1>2, <2>1, <2>2 DEF DetectEnd
  <1>3. CASE CheckLogo
    BY <1>3, CheckLogoStep
  <1>4. CASE CheckLogoState
    BY <1>4 DEF CheckLogoState, VerifyInv, SeenApart
  <1>5. CASE Part \/ Again \/ DetectPicture
    BY <1>5 DEF Part, Again, DetectPicture, VerifyInv, SeenApart
  <1>6. CASE Scan
    BY <1>6 DEF Scan, NotVerifying, VerifyInv, SeenApart
  <1> QED
    BY <1>1, <1>2, <1>3, <1>4, <1>5, <1>6 DEF SearchNext

LEMMA WhereInvHolds == SearchSpec => []WhereInv
  <1>1. SearchInit => WhereInv
    BY DEF SearchInit, WhereInv, PartInv, VerifyInv, SeenApart
  <1>2. WhereInv /\ SearchNext => WhereInv'
    BY PartStep, VerifyStep DEF WhereInv
  <1>3. WhereInv /\ UNCHANGED searchVars => WhereInv'
    BY DEF searchVars, WhereInv, PartInv, VerifyInv, SeenApart, Long, VerifyStart, PartStart
  <1> QED
    BY <1>1, <1>2, <1>3, PTL DEF SearchSpec

\* In a recording that is long enough for its blocks, checkLogo believes in a
\* logo only if it has counted it at Needed different frames (noad.cpp, 298-331).
THEOREM SeenApartHolds == SearchSpec => []SeenApart
  BY WhereInvHolds, PTL DEF WhereInv


-----------------------------------------------------------------------------
(* The index of the recording.                                             *)

LEMMA Numbers ==
    /\ Length \in Nat \ {0} /\ SafetyLimit \in Nat
    /\ IgnoreFrames \in Nat /\ CheckFrames \in Nat \ {0}
    /\ SearchBreak \in Nat \ {0} /\ BigStep \in Nat \ {0} /\ StableTime \in Nat
  BY LogoChangeAssumption, LogoScanAssumption

LEMMA FramesAreNumbers == \A i \in IFrames : i \in Nat
  BY LogoChangeAssumption

LEMMA NextIFrameLemma ==
    ASSUME last = Length - 1, NEW f \in Int
    PROVE  \/ NextIFrame(f) = -1
           \/ NextIFrame(f) \in IFrames /\ f < NextIFrame(f) /\ NextIFrame(f) < last
  <1> DEFINE S == {i \in IFrames : f < i}
  <1>1. CASE NextIFrame(f) = -1
    BY <1>1
  <1>2. CASE NextIFrame(f) # -1
    <2>1. f \in -1..Length /\ NextIFrame(f) = Following[f] /\ Following[f] < last - SafetyLimit
      BY <1>2, Numbers, FramesAreNumbers DEF NextIFrame
    <2>2. Following[f] = IF S = {} THEN Length ELSE Min(S)
      BY <2>1 DEF Following
    <2>3. S # {} /\ Following[f] = Min(S)
      BY <2>1, <2>2, Numbers, FramesAreNumbers
    <2>4. S \in SUBSET Nat
      BY Numbers, FramesAreNumbers
    <2>5. Min(S) \in S
      <3> HIDE DEF S
      <3> QED BY <2>3, <2>4, LeastElement
    <2>6. Following[f] \in IFrames /\ f < Following[f]
      BY <2>3, <2>5
    <2>7. Following[f] \in Nat /\ last \in Int /\ SafetyLimit \in Nat
      BY <2>6, Numbers, FramesAreNumbers
    <2>8. Following[f] < last
      BY <2>1, <2>7
    <2> QED
      BY <2>1, <2>6, <2>8
  <1> QED
    BY <1>1, <1>2

LEMMA PrecedingLemma ==
    ASSUME NEW f \in -1..Length
    PROVE  /\ \/ Preceding[f] = -1
              \/ Preceding[f] \in IFrames /\ Preceding[f] < f
           /\ \A i \in IFrames : i < f => i <= Preceding[f]
  <1> DEFINE S == {i \in IFrames : i < f}
  <1>1. Preceding[f] = IF S = {} THEN -1 ELSE Max(S)
    BY DEF Preceding
  <1>2. CASE S = {}
    BY <1>1, <1>2
  <1>3. CASE S # {}
    <2>1. \A i \in S : i \in 0..Length
      BY Numbers, FramesAreNumbers
    <2>2. S \in SUBSET (0..Length)
      <3> HIDE DEF S
      <3> QED BY <2>1
    <2>3. Max(S) \in S /\ \A i \in S : i <= Max(S)
      <3> HIDE DEF S
      <3> QED BY <1>3, <2>2, GreatestElement, Numbers, FramesAreNumbers
    <2> QED
      BY <1>1, <1>3, <2>3
  <1> QED
    BY <1>2, <1>3

-----------------------------------------------------------------------------
(***************************************************************************)
(* The inductive invariant: what is behind stopFrame is settled, a search  *)
(* never goes before stopFrame, and a change it reports lies between.      *)
(***************************************************************************)
Settled == \A m \in marks : m < stopFrame

Loop ==
    /\ last = Length - 1
    /\ cur \in Int /\ lastIFrame \in Int
    /\ startFrame \in Int /\ stopFrame \in Int
    /\ at \in {"scan", "coarse", "fine", "done"}
    /\ call \in [running : BOOLEAN, state : Int, skip : Nat \ {0}, stable : Nat,
                 end : Int, ignore : Nat, result : Int]
    /\ state \in Int /\ oldState \in Int
    /\ \A m \in marks : m \in IFrames /\ m < last

Between == at = "scan" /\ state # -1 => Settled /\ stopFrame <= cur

Within ==
    at \in {"coarse", "fine"} =>
        /\ Settled /\ stopFrame <= startFrame
        /\ oldState # -1 /\ call.state = oldState /\ call.end > -1
        /\ at = "coarse" => call.stable = 0
        /\ at = "fine" => call.skip = 1
        /\ \/ cur = -1 
           \/ lastIFrame \in IFrames /\ stopFrame <= lastIFrame /\ lastIFrame <= cur
        /\ ~call.running /\ call.result # -1 => cur # -1
        /\ ~call.running /\ call.result \in {0, 1} \ {oldState} =>
               cur # -1 /\ lastIFrame < last

IInv == Loop /\ Between /\ Within

LEMMA InitInv == Init => IInv
  <1> SUFFICES ASSUME Init PROVE IInv
    OBVIOUS
  <1>1. Loop
    BY Numbers DEF Init, Loop, Idle
  <1>2. Between /\ Within
    BY DEF Init, Between, Within, Settled
  <1> QED
    BY <1>1, <1>2 DEF IInv

-----------------------------------------------------------------------------
(* One step of a search.                                                   *)

Searching == at \in {"coarse", "fine"} /\ call.running /\ InRange

\* A batch is not empty, and its last I-frame is not before stopFrame.
LEMMA BatchLemma ==
    ASSUME IInv, Searching
    PROVE  /\ To \in Int /\ cur < To /\ To <= last
           /\ Passed \in IFrames /\ stopFrame <= Passed /\ Passed < To
  <1>1. /\ cur \in Int /\ 0 <= cur /\ cur < last /\ last \in Int
        /\ last = Length - 1 /\ call.ignore \in Nat
    BY Numbers DEF IInv, Loop, Searching, InRange
  <1>2. To \in Int /\ cur < To /\ To <= last
    <2>1. cur + call.ignore + CheckFrames \in Int
      BY <1>1, Numbers
    <2>2. To = IF cur + call.ignore + CheckFrames <= last
               THEN cur + call.ignore + CheckFrames ELSE last
      BY <1>1, <2>1, LeastOfTwo DEF To
    <2> QED
      BY <1>1, <2>2, Numbers
  <1>3. /\ lastIFrame \in IFrames /\ lastIFrame \in Nat
        /\ stopFrame <= lastIFrame /\ lastIFrame <= cur /\ stopFrame \in Int
    BY <1>1, FramesAreNumbers DEF IInv, Loop, Within, Searching
  <1>4. \/ IFrameAt(To - 1) = -1
        \/ IFrameAt(To - 1) \in IFrames /\ IFrameAt(To - 1) < To
    <2>1. To - 1 + 1 = To /\ To \in -1..Length
      BY <1>1, <1>2, Numbers
    <2> QED
      BY <2>1, PrecedingLemma DEF IFrameAt
  <1>5. CASE IFrameAt(To - 1) >= cur
    <2>1. Passed = IFrameAt(To - 1) /\ Passed \in IFrames /\ Passed < To
      BY <1>1, <1>4, <1>5 DEF Passed
    <2>2. Passed \in Nat /\ cur <= Passed
      BY <1>5, <2>1, FramesAreNumbers
    <2> QED
      BY <1>1, <1>2, <1>3, <2>1, <2>2
  <1>6. CASE ~ (IFrameAt(To - 1) >= cur)
    BY <1>1, <1>2, <1>3, <1>6 DEF Passed
  <1> QED
    BY <1>2, <1>5, <1>6

\* However a round ends at f, the search stays behind stopFrame.
LEMMA GoOnLemma ==
    ASSUME IInv, Searching, UNCHANGED <<recording, last>>, UNCHANGED svars,
           NEW f \in Int, Passed <= f, GoOn(f)
    PROVE  IInv'
  <1>1. Passed \in IFrames /\ stopFrame <= Passed /\ Passed \in Nat
    BY BatchLemma, FramesAreNumbers
  <1>2. /\ last = Length - 1 /\ last \in Int /\ stopFrame \in Int
        /\ call.skip \in Nat \ {0} /\ call.state = oldState
        /\ call.running = TRUE
    BY Numbers DEF IInv, Loop, Within, Searching
  <1>3. CASE /\ f + call.skip >= last
             /\ Return(call.state) /\ cur' = f /\ lastIFrame' = Passed
    <2>1. /\ call'.running = FALSE /\ call'.result = oldState
          /\ call' \in [running : BOOLEAN, state : Int, skip : Nat \ {0},
                        stable : Nat, end : Int, ignore : Nat, result : Int]
          /\ call'.state = call.state /\ call'.skip = call.skip
          /\ call'.stable = call.stable /\ call'.end = call.end
      BY <1>2, <1>3 DEF IInv, Loop, Return
    <2>2. Loop'
      BY <1>1, <1>3, <2>1 DEF IInv, Loop, svars
    <2>3. Between' /\ Within'
      BY <1>1, <1>2, <1>3, <2>1
         DEF IInv, Loop, Between, Within, Settled, svars, Searching
    <2> QED
      BY <2>2, <2>3 DEF IInv
  <1>4. CASE /\ f + call.skip < last
             /\ cur' = NextIFrame(f + call.skip) /\ lastIFrame' = cur'
             /\ call' = [call EXCEPT !.ignore = IgnoreFrames]
    <2>1. \/ cur' = -1
          \/ cur' \in IFrames /\ f + call.skip < cur' /\ cur' < last
      BY <1>2, <1>4, NextIFrameLemma
    <2>2. cur' \in Int /\ (cur' = -1 \/ (cur' \in IFrames /\ stopFrame <= cur'))
      <3>1. CASE cur' = -1
        BY <3>1
      <3>2. CASE cur' \in IFrames /\ f + call.skip < cur'
        <4>1. cur' \in Nat
          BY <3>2, FramesAreNumbers
        <4>2. stopFrame <= f /\ f < cur'
          BY <1>1, <1>2, <3>2, <4>1
        <4> QED
          BY <1>2, <3>2, <4>1, <4>2
      <3> QED
        BY <2>1, <3>1, <3>2
    <2>3. /\ call'.running = TRUE
          /\ call' \in [running : BOOLEAN, state : Int, skip : Nat \ {0},
                        stable : Nat, end : Int, ignore : Nat, result : Int]
          /\ call'.state = call.state /\ call'.skip = call.skip
          /\ call'.stable = call.stable /\ call'.end = call.end
      BY <1>2, <1>4, Numbers DEF IInv, Loop
    <2>4. Loop'
      BY <1>4, <2>2, <2>3 DEF IInv, Loop, svars
    <2>5. Between' /\ Within'
      BY <1>2, <1>4, <2>2, <2>3
         DEF IInv, Loop, Between, Within, Settled, svars, Searching
    <2> QED
      BY <2>4, <2>5 DEF IInv
  <1>5. CASE /\ cur' = f /\ lastIFrame' = Passed
             /\ call' = [call EXCEPT !.ignore = 0]
    <2>1. /\ call'.running = TRUE
          /\ call' \in [running : BOOLEAN, state : Int, skip : Nat \ {0},
                        stable : Nat, end : Int, ignore : Nat, result : Int]
          /\ call'.state = call.state /\ call'.skip = call.skip
          /\ call'.stable = call.stable /\ call'.end = call.end
      BY <1>2, <1>5 DEF IInv, Loop
    <2>2. Loop'
      BY <1>1, <1>5, <2>1 DEF IInv, Loop, svars
    <2>3. Between' /\ Within'
      BY <1>1, <1>2, <1>5, <2>1
         DEF IInv, Loop, Between, Within, Settled, svars, Searching
    <2> QED
      BY <2>2, <2>3 DEF IInv
  <1> QED
    BY <1>3, <1>4, <1>5 DEF GoOn

\* A search that ends with what the batch has shown has a frame to mark.
LEMMA FoundLemma ==
    ASSUME IInv, Searching, UNCHANGED <<recording, last>>, UNCHANGED svars,
           cur' = To, lastIFrame' = Passed, Return(Bit(Seen.isLogo))
    PROVE  IInv'
  <1>1. /\ To \in Int /\ To <= last
        /\ Passed \in IFrames /\ stopFrame <= Passed /\ Passed < To
        /\ Passed \in Nat /\ last \in Int
    BY BatchLemma, FramesAreNumbers, Numbers DEF IInv, Loop
  <1>2. /\ call'.running = FALSE /\ call'.result = Bit(Seen.isLogo)
        /\ call' \in [running : BOOLEAN, state : Int, skip : Nat \ {0},
                      stable : Nat, end : Int, ignore : Nat, result : Int]
        /\ call'.state = call.state /\ call'.skip = call.skip
        /\ call'.stable = call.stable /\ call'.end = call.end
    <2>1. Bit(Seen.isLogo) \in Int
      BY DEF Bit
    <2> HIDE DEF Bit
    <2> QED
      BY <2>1 DEF IInv, Loop, Return
  <1>3. Loop'
    BY <1>1, <1>2 DEF IInv, Loop, svars
  <1>4. Between' /\ Within'
    BY <1>1, <1>2
       DEF IInv, Loop, Between, Within, Settled, svars, Searching
  <1> QED
    BY <1>3, <1>4 DEF IInv

LEMMA SearchStepInv ==
    ASSUME IInv, Search
    PROVE  IInv'
  <1>0. SearchStep /\ UNCHANGED svars /\ at \in {"coarse", "fine"}
    BY DEF Search
  <1>1. CASE NoChange
    <2>1. Searching /\ GoOn(To) /\ UNCHANGED <<recording, last>>
      BY <1>0, <1>1 DEF NoChange, Searching
    <2>2. To \in Int /\ Passed <= To
      BY <2>1, BatchLemma, FramesAreNumbers
    <2> QED
      BY <1>0, <2>1, <2>2, GoOnLemma
  <1>2. CASE ChangeFound
    <2>1. Searching /\ UNCHANGED <<recording, last>>
      BY <1>0, <1>2 DEF ChangeFound, Searching
    <2> QED
      BY <1>0, <1>2, <2>1, FoundLemma DEF ChangeFound
  <1>3. CASE StableChange
    <2>1. Searching /\ UNCHANGED <<recording, last>>
      BY <1>0, <1>3 DEF StableChange, Searching
    <2> QED
      BY <1>0, <1>3, <2>1, FoundLemma DEF StableChange
  <1>4. CASE UnstableChange
    <2>1. Searching /\ UNCHANGED <<recording, last>> /\ call.stable > 0
      BY <1>0, <1>4 DEF UnstableChange, Searching
    <2>2. at = "fine" /\ call.skip = 1
      BY <1>0, <2>1 DEF IInv, Within
    <2>3. PICK f \in Relapses : GoOn(IFrameAt(f) - call.skip)
      BY <1>4 DEF UnstableChange
    <2>4. Ahead # -1 /\ f \in Ahead..(AheadEnd - 1)
      BY <2>3 DEF Relapses
    <2>5. /\ To \in Int /\ To <= last /\ Passed < To /\ Passed \in Nat
          /\ last = Length - 1 /\ last \in Int /\ call.stable \in Nat
      BY <2>1, BatchLemma, FramesAreNumbers, Numbers DEF IInv, Loop
    <2>6. Ahead \in IFrames /\ Ahead \in Nat /\ To < Ahead
      BY <2>4, <2>5, NextIFrameLemma, FramesAreNumbers DEF Ahead
    <2>7. f \in Int /\ Ahead <= f /\ f < last
      <3>1. AheadEnd = IF Ahead + call.stable <= last
                       THEN Ahead + call.stable ELSE last
        BY <2>5, <2>6, LeastOfTwo DEF AheadEnd
      <3>2. AheadEnd \in Int /\ AheadEnd <= last
        BY <2>5, <2>6, <3>1
      <3> QED
        BY <2>4, <2>5, <2>6, <3>2
    <2>8. IFrameAt(f) \in Nat /\ Ahead <= IFrameAt(f)
      <3>1. f + 1 \in -1..Length /\ Ahead < f + 1
        BY <2>5, <2>6, <2>7, Numbers
      <3>2. Ahead <= Preceding[f + 1]
        BY <2>6, <3>1, PrecedingLemma
      <3>3. Preceding[f + 1] \in Int
        BY <3>1, PrecedingLemma, FramesAreNumbers
      <3> QED
        BY <2>6, <3>2, <3>3 DEF IFrameAt
    <2>9. IFrameAt(f) - call.skip \in Int /\ Passed <= IFrameAt(f) - call.skip
      BY <2>2, <2>5, <2>6, <2>8
    <2> QED
      BY <1>0, <2>1, <2>3, <2>9, GoOnLemma
  <1>5. CASE GiveUp
    <2>1. /\ call.running = TRUE /\ cur' = cur /\ lastIFrame' = lastIFrame
          /\ last' = last /\ ~InRange
      BY <1>5 DEF GiveUp, IInv, Loop
    <2>2. PICK r \in {-2, -1} : /\ call' = [call EXCEPT !.running = FALSE, !.result = r]
                                /\ r = IF cur >= call.end THEN -2 ELSE -1
      BY <1>5 DEF GiveUp, Return
    <2>3. /\ call'.running = FALSE /\ call'.result = r
          /\ call' \in [running : BOOLEAN, state : Int, skip : Nat \ {0},
                        stable : Nat, end : Int, ignore : Nat, result : Int]
          /\ call'.state = call.state /\ call'.skip = call.skip
          /\ call'.stable = call.stable /\ call'.end = call.end
      <3>1. r \in Int /\ call' = [call EXCEPT !.running = FALSE, !.result = r]
        BY <2>2
      <3>2. call \in [running : BOOLEAN, state : Int, skip : Nat \ {0},
                      stable : Nat, end : Int, ignore : Nat, result : Int]
        BY DEF IInv, Loop
      <3> QED
        BY <3>1, <3>2
    <2>4. r # -1 => cur # -1
      BY <1>0, <2>2 DEF IInv, Loop, Within
    <2>5. Loop'
      BY <1>0, <2>1, <2>3 DEF IInv, Loop, svars
    <2>6. Between' /\ Within'
      BY <1>0, <2>1, <2>3, <2>4
         DEF IInv, Loop, Between, Within, Settled, svars
    <2> QED
      BY <2>5, <2>6 DEF IInv
  <1> QED
    BY <1>0, <1>1, <1>2, <1>3, <1>4, <1>5 DEF SearchStep

-----------------------------------------------------------------------------
(* The loop of scanRecord.                                                 *)

\* A search begins at its first I-frame or at none.
LEMMA StartLemma ==
    ASSUME IInv, NEW s \in Int, NEW first \in Int, stopFrame <= first,
           NEW skip \in Nat \ {0}, NEW stable \in Nat,
           FindLogoChange(s, first, skip, stable)
    PROVE  /\ cur' \in Int /\ lastIFrame' = cur'
           /\ cur' = -1 \/ (cur' \in IFrames /\ stopFrame <= cur')
           /\ call' \in [running : BOOLEAN, state : Int, skip : Nat \ {0},
                         stable : Nat, end : Int, ignore : Nat, result : Int]
           /\ call'.running = TRUE /\ call'.state = s /\ call'.skip = skip
           /\ call'.stable = stable /\ call'.end > -1
  <1>1. last = Length - 1 /\ last \in Nat /\ stopFrame \in Int
    BY Numbers DEF IInv, Loop
  <1>2. /\ IFrameFor(first) \in Int
        /\ IFrameFor(first) = -1 \/ (IFrameFor(first) \in IFrames /\ stopFrame <= IFrameFor(first))
        /\ IFrameFor(first) >= -1
    <2>1. CASE first \in IFrames
      BY <2>1, FramesAreNumbers DEF IFrameFor
    <2>2. CASE first \notin IFrames
      <3>1. IFrameFor(first) = NextIFrame(first)
        BY <2>2 DEF IFrameFor
      <3>2. CASE NextIFrame(first) = -1
        BY <3>1, <3>2
      <3>3. CASE NextIFrame(first) \in IFrames /\ first < NextIFrame(first)
        <4>1. NextIFrame(first) \in Nat
          BY <3>3, FramesAreNumbers
        <4> QED
          BY <1>1, <3>1, <3>3, <4>1
      <3> QED
        BY <1>1, <3>2, <3>3, NextIFrameLemma
    <2> QED
      BY <2>1, <2>2
  <1>3. /\ cur' = IFrameFor(first) /\ lastIFrame' = cur'
        /\ call' = [running |-> TRUE, state |-> s, skip |-> skip, stable |-> stable,
                    end |-> IF s = 0 THEN cur' + SearchBreak ELSE last,
                    ignore |-> IgnoreFrames, result |-> s]
    BY DEF FindLogoChange
  <1>4. /\ (IF s = 0 THEN cur' + SearchBreak ELSE last) \in Int
        /\ (IF s = 0 THEN cur' + SearchBreak ELSE last) > -1
    BY <1>1, <1>2, <1>3, Numbers
  <1> QED
    BY <1>2, <1>3, <1>4, Numbers

LEMMA StepInv ==
    ASSUME IInv, Next
    PROVE  IInv' /\ marks \subseteq marks' /\ \A m \in marks, n \in marks' \ marks : m < n
  <1>0. /\ last = Length - 1 /\ last \in Nat /\ stopFrame \in Int /\ startFrame \in Int
        /\ cur \in Int /\ state \in Int /\ oldState \in Int
        /\ \A m \in marks : m \in IFrames /\ m \in Nat /\ m < last
    BY Numbers, FramesAreNumbers DEF IInv, Loop
  <1>1. CASE Coarse
    <2>1. FindLogoChange(state, cur, BigStep, 0) /\ stopFrame <= cur
      BY <1>1 DEF Coarse, Scanning, IInv, Between
    <2>2. /\ cur' \in Int /\ lastIFrame' = cur'
          /\ cur' = -1 \/ (cur' \in IFrames /\ stopFrame <= cur')
          /\ call' \in [running : BOOLEAN, state : Int, skip : Nat \ {0},
                        stable : Nat, end : Int, ignore : Nat, result : Int]
          /\ call'.running = TRUE /\ call'.state = state
          /\ call'.stable = 0 /\ call'.end > -1
      <3>1. BigStep \in Nat \ {0} /\ 0 \in Nat
        BY Numbers
      <3> QED
        BY <1>0, <2>1, <3>1, StartLemma
    <2>3. /\ at' = "coarse" /\ oldState' = state /\ startFrame' = cur /\ state # -1
          /\ UNCHANGED <<last, state, stopFrame, marks>> /\ Settled
      BY <1>1 DEF Coarse, Scanning, IInv, Between
    <2>4. Loop'
      BY <1>0, <2>2, <2>3 DEF IInv, Loop
    <2>5. Between' /\ Within'
      BY <1>0, <2>1, <2>2, <2>3 DEF Between, Within, Settled
    <2> QED
      BY <2>3, <2>4, <2>5 DEF IInv
  <1>2. CASE Search
    BY <1>2, SearchStepInv DEF Search, svars
  <1>3. CASE Fine
    <2>1. /\ Returned("coarse") /\ Settled /\ stopFrame <= startFrame /\ oldState # -1
          /\ call.result \in {0, 1}
      BY <1>3 DEF Fine, Returned, IInv, Within
    <2>2. FineStart \in Int /\ stopFrame <= FineStart
      <3> DEFINE back == cur - 2 * BigStep
                 start == IF back < stopFrame THEN back + BigStep \div 2 ELSE back
      <3>1. start \in Int
        BY <1>0, Numbers
      <3>2. FineStart = Max({stopFrame, start})
        BY DEF FineStart
      <3> HIDE DEF start
      <3> QED
        BY <1>0, <3>1, <3>2, GreatestOfTwo
    <2>3. PICK stable \in Nat : FindLogoChange(oldState, FineStart, 1, stable)
      BY <1>3, Numbers DEF Fine
    <2>4. /\ cur' \in Int /\ lastIFrame' = cur'
          /\ cur' = -1 \/ (cur' \in IFrames /\ stopFrame <= cur')
          /\ call' \in [running : BOOLEAN, state : Int, skip : Nat \ {0},
                        stable : Nat, end : Int, ignore : Nat, result : Int]
          /\ call'.running = TRUE /\ call'.state = oldState /\ call'.skip = 1
          /\ call'.end > -1
      <3>1. 1 \in Nat \ {0}
        OBVIOUS
      <3> QED
        BY <1>0, <2>2, <2>3, <3>1, StartLemma
    <2>5. /\ at' = "fine" /\ state' = call.result
          /\ UNCHANGED <<last, oldState, startFrame, stopFrame, marks>>
      BY <1>3 DEF Fine
    <2>6. Loop'
      BY <1>0, <2>1, <2>4, <2>5 DEF IInv, Loop
    <2>7. Between' /\ Within'
      BY <1>0, <2>1, <2>4, <2>5 DEF Between, Within, Settled
    <2> QED
      BY <2>5, <2>6, <2>7 DEF IInv
  <1>4. CASE Refined
    <2>1. /\ Settled /\ ~call.running /\ at = "fine"
          /\ call.result \in Int
          /\ call.result # -1 => cur # -1
          /\ \/ cur = -1
             \/ lastIFrame \in IFrames /\ stopFrame <= lastIFrame /\ lastIFrame <= cur
          /\ call.result \in {0, 1} \ {oldState} => cur # -1 /\ lastIFrame < last
      BY <1>4 DEF Refined, Returned, IInv, Loop, Within
    <2>2. /\ at' = "scan" /\ cur' = cur + 1 /\ stopFrame' = cur + 1
          /\ state' = call.result
          /\ UNCHANGED <<last, lastIFrame, call, oldState, startFrame>>
      BY <1>4 DEF Refined, StepOn
    <2>3. CASE call.result \in {0, 1} \ {oldState}
      <3>1. /\ lastIFrame \in IFrames /\ lastIFrame \in Nat /\ lastIFrame < last
            /\ stopFrame <= lastIFrame /\ lastIFrame <= cur
        BY <2>1, <2>3, FramesAreNumbers
      <3>2. \A m \in marks : m < lastIFrame
        BY <1>0, <2>1, <3>1 DEF Settled
      <3>3. marks' = marks \cup {lastIFrame}
        BY <1>0, <1>4, <2>3, <3>1, <3>2 DEF Refined, Toggle
      <3>4. Loop'
        BY <1>0, <2>1, <2>2, <3>1, <3>3 DEF IInv, Loop
      <3>5. \A m \in marks' : m < stopFrame'
        BY <1>0, <2>2, <3>1, <3>2, <3>3
      <3>6. Between' /\ Within'
        BY <1>0, <2>2, <3>5 DEF Between, Within, Settled
      <3> QED
        BY <3>2, <3>3, <3>4, <3>6 DEF IInv
    <2>4. CASE call.result \notin {0, 1} \ {oldState}
      <3>1. marks' = marks
        BY <1>4, <2>4 DEF Refined
      <3>2. Loop'
        BY <1>0, <2>1, <2>2, <3>1 DEF IInv, Loop
      <3>3. ASSUME call.result # -1 PROVE \A m \in marks' : m < stopFrame'
        <4>1. stopFrame <= cur
          <5>1. lastIFrame \in Int
            BY DEF IInv, Loop
          <5> QED
            BY <1>0, <2>1, <3>3, <5>1
        <4> QED
          BY <1>0, <2>1, <2>2, <3>1, <4>1 DEF Settled
      <3>4. Between' /\ Within'
        BY <1>0, <2>2, <3>3 DEF Between, Within, Settled
      <3> QED
        BY <3>1, <3>2, <3>4 DEF IInv
    <2> QED
      BY <2>3, <2>4
  <1>5. CASE NothingFound
    <2>1. /\ Settled /\ call.result \in Int
          /\ stopFrame <= cur \/ call.result = -1
          /\ at' = "scan" /\ cur' = cur + 1 /\ stopFrame' = cur + 1
          /\ state' = call.result
          /\ UNCHANGED <<last, lastIFrame, call, oldState, startFrame, marks>>
      <3>1. lastIFrame \in Int
        BY DEF IInv, Loop
      <3> QED
        BY <1>0, <1>5, <3>1 DEF NothingFound, Returned, StepOn, IInv, Loop, Within
    <2> QED
      BY <1>0, <2>1 DEF IInv, Loop, Between, Within, Settled
  <1>6. CASE SkipAhead
    <2>1. /\ Settled /\ stopFrame <= startFrame
          /\ at' = "scan" /\ cur' = startFrame + SearchBreak + 1
          /\ stopFrame' = cur' /\ state' = oldState
          /\ UNCHANGED <<last, lastIFrame, call, oldState, startFrame, marks>>
      BY <1>6 DEF SkipAhead, Returned, StepOn, IInv, Within
    <2>2. cur' \in Int /\ stopFrame <= cur'
      BY <1>0, <2>1, Numbers
    <2> QED
      BY <1>0, <2>1, <2>2 DEF IInv, Loop, Between, Within, Settled
  <1>7. CASE NewLogo
    <2>1. /\ Settled /\ stopFrame <= startFrame
          /\ at' = "scan" /\ cur' = startFrame /\ state' = 0
          /\ UNCHANGED <<last, lastIFrame, call, oldState, startFrame, stopFrame, marks>>
      BY <1>7 DEF NewLogo, Returned, IInv, Within
    <2> QED
      BY <1>0, <2>1 DEF IInv, Loop, Between, Within, Settled
  <1>8. CASE NoNewLogo
    <2>1. /\ at' = "scan" /\ cur' = cur + 1 /\ stopFrame' = cur + 1 /\ state' = -1
          /\ UNCHANGED <<last, lastIFrame, call, oldState, startFrame, marks>>
      BY <1>8 DEF NoNewLogo, StepOn
    <2> QED
      BY <1>0, <2>1 DEF IInv, Loop, Between, Within
  <1>9. CASE Finish
    <2>1. /\ at' = "done"
          /\ UNCHANGED <<last, cur, lastIFrame, call, state, oldState, startFrame, stopFrame>>
      BY <1>9 DEF Finish, lvars
    <2>2. /\ \/ PrevIFrame(last) = -1
             \/ PrevIFrame(last) \in IFrames /\ PrevIFrame(last) < last
          /\ \A m \in marks : m <= PrevIFrame(last)
      <3>1. last \in -1..last /\ last \in -1..Length
        BY <1>0, Numbers
      <3> QED
        BY <1>0, <3>1, PrecedingLemma DEF PrevIFrame
    <2>3. CASE marks' = marks
      BY <1>0, <2>1, <2>3 DEF IInv, Loop, Between, Within
    <2>4. CASE marks' = marks \cup {PrevIFrame(last)} /\ marks # {}
      <3>1. PrevIFrame(last) \in IFrames /\ PrevIFrame(last) < last
        BY <1>0, <2>2, <2>4
      <3>2. PrevIFrame(last) \in Nat
        BY <3>1, FramesAreNumbers
      <3>3. Loop' /\ Between' /\ Within'
        BY <1>0, <2>1, <2>4, <3>1 DEF IInv, Loop, Between, Within
      <3>4. \A m \in marks, n \in marks' \ marks : m < n
        BY <1>0, <2>2, <2>4, <3>2
      <3> QED
        BY <2>4, <3>3, <3>4 DEF IInv
    <2>5. marks = {} => Cardinality(marks) % 2 # 1
      BY FS_EmptySet
    <2> QED
      BY <1>9, <2>3, <2>4, <2>5 DEF Finish
  <1> QED
    BY <1>1, <1>2, <1>3, <1>4, <1>5, <1>6, <1>7, <1>8, <1>9 DEF Next

LEMMA StutterInv ==
    ASSUME IInv, UNCHANGED vars
    PROVE  IInv'
  BY DEF IInv, Loop, Between, Within, Settled, vars, svars, lvars

LEMMA Invariant == Spec => []IInv
  <1>1. IInv /\ [Next]_vars => IInv'
    BY StepInv, StutterInv
  <1> QED
    BY InitInv, <1>1, PTL DEF Spec

\* Whatever is recorded, wherever its I-frames are and whatever the steps of
\* the search: scanRecord never deletes a mark it has set, and sets every mark
\* behind all the others (noad.cpp, 1738-1767 and 1772-1779).
THEOREM ScanAscends == Spec => MarksAscend
  <1>1. IInv /\ [Next]_vars =>
            [ /\ marks \subseteq marks'
              /\ \A m \in marks, n \in marks' \ marks : m < n ]_vars
    BY StepInv
  <1> QED
    BY Invariant, <1>1, PTL DEF Spec, MarksAscend

-----------------------------------------------------------------------------
(* The judgement of steady pictures.                                       *)

Kinds == {"logo", "none"}
Other(k) == IF k = "logo" THEN "none" ELSE "logo"
Num(k) == IF k = "logo" THEN 1 ELSE 0

\* The judgement is k, and n pictures of the other kind have come since the last
\* one of this kind.
Sure(k, n) ==
    IF k = "logo" THEN [isLogo |-> TRUE, seen |-> Threshold + 1, missed |-> n]
    ELSE [isLogo |-> FALSE, seen |-> n, missed |-> Threshold + 1]
Unsure == 0..Threshold

LEMMA SureFacts ==
    ASSUME NEW k \in Kinds, NEW n \in Unsure
    PROVE  /\ Sure(k, n) \in Check /\ Bit(Sure(k, n).isLogo) = Num(k)
           /\ Other(k) \in Kinds /\ Other(Other(k)) = k /\ Num(Other(k)) # Num(k)
           /\ Num(Other(k)) = 1 - Num(k) /\ Num(k) \in {0, 1} /\ n \in Nat
  <1>1. Threshold \in Nat
    BY LogoChangeAssumption
  <1>2. n \in 0..(Threshold + 1) /\ Threshold + 1 \in 0..(Threshold + 1) /\ n \in Nat
    BY <1>1 DEF Unsure
  <1>3. CASE k = "logo"
    BY <1>2, <1>3 DEF Sure, Check, Bit, Num, Other, Kinds
  <1>4. CASE k = "none"
    BY <1>2, <1>4 DEF Sure, Check, Bit, Num, Other, Kinds
  <1> QED
    BY <1>3, <1>4 DEF Kinds

LEMMA OneCounter ==
    ASSUME NEW r \in Check, NEW n
    PROVE  /\ [r EXCEPT !.missed = n] = [isLogo |-> r.isLogo, seen |-> r.seen, missed |-> n]
           /\ [r EXCEPT !.seen = n] = [isLogo |-> r.isLogo, seen |-> n, missed |-> r.missed]
  BY DEF Check

\* What a picture makes of a judgement.
LEMMA JudgedCases ==
    ASSUME NEW c \in Check
    PROVE  /\ Judged(c, "unknown") = c
           /\ Judged(c, "none") =
                 IF c.missed < Threshold
                 THEN [isLogo |-> c.isLogo, seen |-> c.seen, missed |-> c.missed + 1]
                 ELSE [isLogo |-> FALSE, seen |-> 0, missed |-> Threshold + 1]
           /\ Judged(c, "logo") =
                 IF c.seen < Threshold
                 THEN [isLogo |-> c.isLogo, seen |-> c.seen + 1, missed |-> c.missed]
                 ELSE [isLogo |-> TRUE, seen |-> Threshold + 1, missed |-> 0]
  <1> DEFINE seen == Min({c.seen + 1, Threshold + 1})
             missed == Min({c.missed + 1, Threshold + 1})
             oneSeen == [c EXCEPT !.seen = seen]
             oneMissed == [c EXCEPT !.missed = missed]
  <1>1. Threshold \in Nat /\ c.seen \in 0..(Threshold + 1) /\ c.missed \in 0..(Threshold + 1)
    BY LogoChangeAssumption DEF Check
  <1>2. /\ oneSeen = [isLogo |-> c.isLogo, seen |-> seen, missed |-> c.missed]
        /\ oneMissed = [isLogo |-> c.isLogo, seen |-> c.seen, missed |-> missed]
    <2> HIDE DEF seen, missed
    <2> QED
      BY OneCounter
  <1>3. \A p :
          Judged(c, p) =
            CASE p = "unknown" -> c
              [] p = "logo" /\ seen <= Threshold -> oneSeen
              [] p = "logo" /\ seen > Threshold ->
                    [isLogo |-> TRUE, seen |-> seen, missed |-> 0]
              [] p = "none" /\ missed <= Threshold -> oneMissed
              [] p = "none" /\ missed > Threshold ->
                    [isLogo |-> FALSE, seen |-> 0, missed |-> missed]
    BY Zenon DEF Judged
  <1>4. /\ seen = IF c.seen + 1 <= Threshold + 1 THEN c.seen + 1 ELSE Threshold + 1
        /\ missed = IF c.missed + 1 <= Threshold + 1 THEN c.missed + 1 ELSE Threshold + 1
    BY <1>1, LeastOfTwo
  <1> HIDE DEF seen, missed, oneSeen, oneMissed
  <1>5. IF c.missed < Threshold THEN missed = c.missed + 1 /\ missed <= Threshold
        ELSE missed = Threshold + 1 /\ ~(missed <= Threshold) /\ missed > Threshold
    BY <1>1, <1>4
  <1>6. IF c.seen < Threshold THEN seen = c.seen + 1 /\ seen <= Threshold
        ELSE seen = Threshold + 1 /\ ~(seen <= Threshold) /\ seen > Threshold
    BY <1>1, <1>4
  <1>7. Judged(c, "unknown") = c
    BY <1>3, Zenon
  <1>8. /\ seen <= Threshold => ~(seen > Threshold)
        /\ missed <= Threshold => ~(missed > Threshold)
    BY <1>1, <1>4
  <1>9. /\ missed <= Threshold => Judged(c, "none") = oneMissed
        /\ missed > Threshold =>
              Judged(c, "none") = [isLogo |-> FALSE, seen |-> 0, missed |-> missed]
    BY <1>3, <1>8, Zenon
  <1>10. /\ seen <= Threshold => Judged(c, "logo") = oneSeen
         /\ seen > Threshold =>
               Judged(c, "logo") = [isLogo |-> TRUE, seen |-> seen, missed |-> 0]
    BY <1>3, <1>8, Zenon
  <1> QED
    BY <1>2, <1>5, <1>6, <1>7, <1>9, <1>10, Zenon

LEMMA JudgedType ==
    ASSUME NEW c \in Check, NEW p \in {"logo", "none", "unknown"}
    PROVE  Judged(c, p) \in Check
  <1>1. /\ Threshold \in Nat /\ c.isLogo \in BOOLEAN
        /\ c.seen \in 0..(Threshold + 1) /\ c.missed \in 0..(Threshold + 1)
    BY LogoChangeAssumption DEF Check
  <1>2. /\ 0 \in 0..(Threshold + 1) /\ Threshold + 1 \in 0..(Threshold + 1)
        /\ c.missed < Threshold => c.missed + 1 \in 0..(Threshold + 1)
        /\ c.seen < Threshold => c.seen + 1 \in 0..(Threshold + 1)
    BY <1>1
  <1>3. /\ [isLogo |-> FALSE, seen |-> 0, missed |-> Threshold + 1] \in Check
        /\ [isLogo |-> TRUE, seen |-> Threshold + 1, missed |-> 0] \in Check
    BY <1>2 DEF Check
  <1>4. /\ c.missed < Threshold =>
              [isLogo |-> c.isLogo, seen |-> c.seen, missed |-> c.missed + 1] \in Check
        /\ c.seen < Threshold =>
              [isLogo |-> c.isLogo, seen |-> c.seen + 1, missed |-> c.missed] \in Check
    BY <1>1, <1>2, Zenon DEF Check
  <1> QED
    BY <1>3, <1>4, JudgedCases, Zenon

\* A picture of the kind that is known settles the judgement.
LEMMA JudgedSame ==
    ASSUME NEW k \in Kinds, NEW n \in Unsure
    PROVE  Judged(Sure(k, n), k) = Sure(k, 0)
  <1>1. Sure(k, n) \in Check /\ Threshold \in Nat
    BY SureFacts, LogoChangeAssumption
  <1>2. ~(Threshold + 1 < Threshold)
    BY <1>1
  <1>3. CASE k = "logo"
    <2>1. Sure(k, n).seen = Threshold + 1
      BY <1>3 DEF Sure
    <2> QED
      BY <1>1, <1>2, <1>3, <2>1, JudgedCases, Zenon DEF Sure
  <1>4. CASE k = "none"
    <2>1. Sure(k, n).missed = Threshold + 1 /\ ~(k = "logo")
      BY <1>4 DEF Sure
    <2> QED
      BY <1>1, <1>2, <1>4, <2>1, JudgedCases, Zenon DEF Sure
  <1> QED
    BY <1>3, <1>4 DEF Kinds

\* More than Threshold pictures of the other kind in a row turn it.
LEMMA JudgedOther ==
    ASSUME NEW k \in Kinds, NEW n \in Unsure
    PROVE  Judged(Sure(k, n), Other(k))
               = IF n < Threshold THEN Sure(k, n + 1) ELSE Sure(Other(k), 0)
  <1>1. Sure(k, n) \in Check
    BY SureFacts
  <1>2. CASE k = "logo"
    <2>1. /\ Sure(k, n).isLogo = TRUE /\ Sure(k, n).seen = Threshold + 1
          /\ Sure(k, n).missed = n
      BY <1>2 DEF Sure
    <2>2. /\ Other(k) = "none" /\ "none" # "logo"
          /\ Sure(k, n + 1) = [isLogo |-> TRUE, seen |-> Threshold + 1, missed |-> n + 1]
          /\ Sure("none", 0) = [isLogo |-> FALSE, seen |-> 0, missed |-> Threshold + 1]
      BY <1>2 DEF Sure, Other
    <2> QED
      BY <1>1, <2>1, <2>2, JudgedCases, Zenon
  <1>3. CASE k = "none"
    <2>1. /\ Sure(k, n).isLogo = FALSE /\ Sure(k, n).missed = Threshold + 1
          /\ Sure(k, n).seen = n
      BY <1>3 DEF Sure
    <2>2. /\ Other(k) = "logo"
          /\ Sure(k, n + 1) = [isLogo |-> FALSE, seen |-> n + 1, missed |-> Threshold + 1]
          /\ Sure("logo", 0) = [isLogo |-> TRUE, seen |-> Threshold + 1, missed |-> 0]
      BY <1>3 DEF Sure, Other
    <2> QED
      BY <1>1, <2>1, <2>2, JudgedCases, Zenon
  <1> QED
    BY <1>2, <1>3 DEF Kinds

-----------------------------------------------------------------------------
(* The judgement after some pictures.                                      *)

Known == \A f \in 0..(Length - 1) : Picture(f) \in {"logo", "none", "unknown"}

LEMMA KnownHolds == recording \in Recording => Known
  BY LogoChangeAssumption DEF Known, Picture

LEMMA WatchedUnfolds ==
    ASSUME Known, NEW c \in Check, NEW a \in Nat, NEW b \in 0..Length
    PROVE  Watched(c, a, b)
               = IF a >= b THEN c ELSE Watched(Judged(c, Picture(a)), a + 1, b)
  <1> DEFINE S == [check : Check, at : Nat]
             Stop == {w \in S : w.at >= b}
             Out == [w \in S |-> w.check]
             Del == [w \in S |-> [check |-> Judged(w.check, Picture(w.at)), at |-> w.at + 1]]
             mu == [w \in S |-> IF w.at >= b THEN 0 ELSE b - w.at]
             F(g) == [w \in S |->
                         IF w.at >= b THEN w.check
                         ELSE g[[check |-> Judged(w.check, Picture(w.at)), at |-> w.at + 1]]]
             watch == CHOOSE g : g = F(g)
  <1>0. \A e, m : Watched(e, m, b) = watch[[check |-> e, at |-> m]]
    BY DEF Watched
  <1>1. b \in Nat /\ b <= Length /\ Length \in Nat
    BY Numbers
  <1>2. \A w \in S : w.check \in Check /\ w.at \in Nat
    OBVIOUS
  <1>3. ASSUME NEW w \in S, ~(w.at >= b)
        PROVE  [check |-> Judged(w.check, Picture(w.at)), at |-> w.at + 1] \in S
    <2>1. w.at \in 0..(Length - 1) /\ w.at + 1 \in Nat
      BY <1>1, <1>2, <1>3
    <2>2. Judged(w.check, Picture(w.at)) \in Check
      BY <1>2, <2>1, JudgedType DEF Known
    <2> QED
      BY <2>1, <2>2
  <1>4. Falls(S, Stop, Del, b, mu)
    <2>1. mu \in [S -> 0..b]
      <3> SUFFICES ASSUME NEW w \in S PROVE (IF w.at >= b THEN 0 ELSE b - w.at) \in 0..b
        BY Zenon
      <3> QED
        BY <1>1, <1>2
    <2>2. ASSUME NEW w \in S, w \notin Stop
          PROVE  Del[w] \in S /\ mu[Del[w]] < mu[w]
      <3>1. ~(w.at >= b)
        BY <2>2
      <3>2. Del[w] = [check |-> Judged(w.check, Picture(w.at)), at |-> w.at + 1]
        BY Zenon
      <3>3. Del[w] \in S /\ Del[w].at = w.at + 1
        BY <1>3, <3>1, <3>2
      <3> HIDE DEF Del
      <3>4. /\ mu[Del[w]] = IF w.at + 1 >= b THEN 0 ELSE b - (w.at + 1)
            /\ mu[w] = b - w.at
        BY <3>1, <3>3
      <3> QED
        BY <1>1, <1>2, <3>1, <3>3, <3>4
    <2> HIDE DEF Stop, Del, mu, S
    <2> QED
      BY <1>1, <2>1, <2>2 DEF Falls
  <1>5. watch = CHOOSE g : Iteration(S, Stop, Out, Del, g)
    <2>1. ASSUME NEW g
          PROVE  [w \in S |-> IF w \in Stop THEN Out[w] ELSE g[Del[w]]] = F(g)
      <3> SUFFICES ASSUME NEW w \in S
                   PROVE  (IF w \in Stop THEN Out[w] ELSE g[Del[w]])
                            = IF w.at >= b THEN w.check
                              ELSE g[[check |-> Judged(w.check, Picture(w.at)),
                                      at |-> w.at + 1]]
        BY Zenon
      <3>1. /\ Del[w] = [check |-> Judged(w.check, Picture(w.at)), at |-> w.at + 1]
            /\ Out[w] = w.check
        BY Zenon
      <3>2. w \in Stop <=> w.at >= b
        BY Zenon
      <3> HIDE DEF Del, Out, Stop, S
      <3> QED
        BY <3>1, <3>2, Zenon
    <2> HIDE DEF Stop, Out, Del, F, S
    <2>2. \A g : Iteration(S, Stop, Out, Del, g) <=> g = F(g)
      BY <2>1 DEF Iteration
    <2> QED
      BY <2>2
  <1>6. Iteration(S, Stop, Out, Del, watch)
    <2> HIDE DEF S, Stop, Out, Del, watch, mu
    <2>1. \E g : Iteration(S, Stop, Out, Del, g)
      BY <1>4, IterationExists
    <2> QED
      BY <1>5, <2>1
  <1>7. ASSUME NEW w \in S
        PROVE  watch[w] = IF w \in Stop THEN Out[w] ELSE watch[Del[w]]
    <2> HIDE DEF S, Stop, Out, Del, watch
    <2> QED
      BY <1>6, Zenon DEF Iteration
  <1> DEFINE w0 == [check |-> c, at |-> a]
             c1 == Judged(c, Picture(a))
             w1 == [check |-> c1, at |-> a + 1]
  <1>8. w0 \in S /\ w0.at = a /\ w0.check = c
    OBVIOUS
  <1>9. Out[w0] = c
    BY <1>8
  <1>10. w0 \in Stop <=> a >= b
    BY <1>8
  <1>11. Del[w0] = w1
    <2>1. Del[w0] = [check |-> Judged(w0.check, Picture(w0.at)), at |-> w0.at + 1]
      BY <1>8, Zenon
    <2> HIDE DEF Del
    <2> QED
      BY <1>8, <2>1
  <1>12. Watched(c, a, b) = watch[w0] /\ Watched(c1, a + 1, b) = watch[w1]
    BY <1>0
  <1> HIDE DEF watch, w0, w1, Out, Stop, Del, S
  <1>13. watch[w0] = IF w0 \in Stop THEN Out[w0] ELSE watch[Del[w0]]
    BY <1>7, <1>8
  <1> QED
    BY <1>9, <1>10, <1>11, <1>12, <1>13, Zenon

\* One picture more, after d others.
OneMore(d) ==
    \A c \in Check, a \in Nat :
        a + d < Length =>
            /\ Watched(c, a, a + d) \in Check
            /\ Watched(c, a, a + d + 1) = Judged(Watched(c, a, a + d), Picture(a + d))

LEMMA WatchedOneMore ==
    ASSUME Known
    PROVE  \A d \in 0..Length : OneMore(d)
  <1>0. Length \in Nat
    BY Numbers
  <1> DEFINE T == {d \in 0..Length : OneMore(d)}
  <1>1. OneMore(0)
    <2> SUFFICES ASSUME NEW c \in Check, NEW a \in Nat, a < Length
                 PROVE  /\ Watched(c, a, a) = c
                        /\ Watched(c, a, a + 1) = Judged(c, Picture(a))
      BY <1>0 DEF OneMore
    <2>1. a \in 0..Length /\ a + 1 \in 0..Length /\ a \in 0..(Length - 1) /\ a + 1 \in Nat
      BY <1>0
    <2>2. ~(a >= a + 1) /\ a >= a /\ a + 1 >= a + 1
      OBVIOUS
    <2>3. Judged(c, Picture(a)) \in Check
      BY <2>1, JudgedType DEF Known
    <2>4. Watched(c, a, a) = c
      BY <2>1, <2>2, WatchedUnfolds
    <2>5. Watched(c, a, a + 1) = Watched(Judged(c, Picture(a)), a + 1, a + 1)
      BY <2>1, <2>2, WatchedUnfolds
    <2>6. Watched(Judged(c, Picture(a)), a + 1, a + 1) = Judged(c, Picture(a))
      BY <2>1, <2>2, <2>3, WatchedUnfolds
    <2> QED
      BY <2>4, <2>5, <2>6
  <1>2. ASSUME NEW d \in 1..Length, OneMore(d - 1)
        PROVE  OneMore(d)
    <2> SUFFICES ASSUME NEW c \in Check, NEW a \in Nat, a + d < Length
                 PROVE  /\ Watched(c, a, a + d) \in Check
                        /\ Watched(c, a, a + d + 1)
                               = Judged(Watched(c, a, a + d), Picture(a + d))
      BY DEF OneMore
    <2> DEFINE e == Judged(c, Picture(a))
    <2>1. /\ a + d \in 0..Length /\ a + d + 1 \in 0..Length /\ a \in 0..(Length - 1)
          /\ a + 1 \in Nat /\ ~(a >= a + d) /\ ~(a >= a + d + 1)
      BY <1>0
    <2>2. e \in Check
      BY <2>1, JudgedType DEF Known
    <2> HIDE DEF e
    <2>3. /\ Watched(c, a, a + d) = Watched(e, a + 1, a + d)
          /\ Watched(c, a, a + d + 1) = Watched(e, a + 1, a + d + 1)
      BY <2>1, WatchedUnfolds DEF e
    <2>4. a + 1 + (d - 1) = a + d
      BY <1>0
    <2>5. /\ Watched(e, a + 1, a + d) \in Check
          /\ Watched(e, a + 1, a + d + 1) = Judged(Watched(e, a + 1, a + d), Picture(a + d))
      BY <1>2, <2>1, <2>2, <2>4 DEF OneMore
    <2> QED
      BY <2>3, <2>5
  <1>3. \A d \in 0..Length : d \in T
    <2>1. 0 \in T /\ \A d \in 1..Length : d - 1 \in T => d \in T
      <3>1. 0 \in 0..Length
        BY <1>0
      <3>2. ASSUME NEW d \in 1..Length, d - 1 \in T
            PROVE  d \in T
        <4>1. OneMore(d - 1)
          BY <3>2, Zenon
        <4>2. d \in 0..Length
          BY <1>0
        <4> QED
          BY <1>2, <4>1, <4>2, Zenon
      <3> QED
        BY <1>1, <3>1, <3>2, Zenon
    <2> HIDE DEF T
    <2> QED
      BY <1>0, <2>1, InductionUpTo
  <1> QED
    BY <1>3, Zenon

LEMMA WatchedForward ==
    ASSUME Known, NEW c \in Check, NEW a \in Nat, NEW b \in 0..(Length - 1), a <= b
    PROVE  Watched(c, a, b + 1) = Judged(Watched(c, a, b), Picture(b))
  <1>1. b - a \in 0..Length /\ a + (b - a) = b /\ b < Length
    BY Numbers
  <1>2. OneMore(b - a)
    BY <1>1, WatchedOneMore
  <1> QED
    BY <1>1, <1>2 DEF OneMore

LEMMA WatchedNone ==
    ASSUME Known, NEW c \in Check, NEW a \in Nat, NEW b \in 0..Length, a >= b
    PROVE  Watched(c, a, b) = c
  BY WatchedUnfolds

LEMMA WatchedType ==
    ASSUME Known, NEW c \in Check, NEW a \in Nat, NEW b \in 0..Length
    PROVE  Watched(c, a, b) \in Check
  <1>0. Length \in Nat
    BY Numbers
  <1>1. CASE a >= b
    BY <1>1, WatchedNone
  <1>2. CASE ~(a >= b)
    <2>1. b - 1 \in 0..(Length - 1) /\ a <= b - 1 /\ b - 1 + 1 = b /\ b - 1 - a \in 0..Length
      BY <1>0, <1>2
    <2>2. a + (b - 1 - a) = b - 1 /\ b - 1 < Length
      BY <1>0, <1>2
    <2>3. OneMore(b - 1 - a)
      BY <2>1, WatchedOneMore
    <2>4. Watched(c, a, b - 1) \in Check
      BY <2>2, <2>3 DEF OneMore
    <2>5. Watched(c, a, b) = Judged(Watched(c, a, b - 1), Picture(b - 1))
      BY <2>1, WatchedForward
    <2> QED
      BY <2>1, <2>4, <2>5, JudgedType DEF Known
  <1> QED
    BY <1>1, <1>2

\* The pictures from the middle on need no more than the judgement there.
LEMMA WatchedSplits ==
    ASSUME Known, NEW c \in Check, NEW a \in Nat, NEW m \in 0..Length, NEW b \in 0..Length,
           a <= m, m <= b
    PROVE  Watched(c, a, b) = Watched(Watched(c, a, m), m, b)
  <1> DEFINE e == Watched(c, a, m)
             Same(d) == m + d <= Length => Watched(c, a, m + d) = Watched(e, m, m + d)
             T == {d \in 0..Length : Same(d)}
  <1>0. Length \in Nat /\ m \in Nat /\ e \in Check
    BY Numbers, WatchedType
  <1> HIDE DEF e
  <1>1. Same(0)
    <2>1. m + 0 = m /\ m >= m
      BY <1>0
    <2> QED
      BY <1>0, <2>1, WatchedNone DEF e
  <1>2. ASSUME NEW d \in 1..Length, Same(d - 1)
        PROVE  Same(d)
    <2> SUFFICES ASSUME m + d <= Length
                 PROVE  Watched(c, a, m + d) = Watched(e, m, m + d)
      OBVIOUS
    <2> DEFINE f == m + (d - 1)
    <2>1. f \in 0..(Length - 1) /\ a <= f /\ m <= f /\ f + 1 = m + d /\ f <= Length
      BY <1>0
    <2>2. Watched(c, a, f) = Watched(e, m, f)
      BY <1>2, <2>1
    <2> HIDE DEF f
    <2>3. Watched(c, a, f + 1) = Judged(Watched(c, a, f), Picture(f))
      BY <2>1, WatchedForward
    <2>4. Watched(e, m, f + 1) = Judged(Watched(e, m, f), Picture(f))
      BY <1>0, <2>1, WatchedForward
    <2> QED
      BY <2>1, <2>2, <2>3, <2>4
  <1>3. \A d \in 0..Length : d \in T
    <2>1. 0 \in T /\ \A d \in 1..Length : d - 1 \in T => d \in T
      <3>1. 0 \in 0..Length
        BY <1>0
      <3>2. ASSUME NEW d \in 1..Length, d - 1 \in T
            PROVE  d \in T
        <4>1. Same(d - 1)
          BY <3>2, Zenon
        <4>2. d \in 0..Length
          BY <1>0
        <4>3. Same(d)
          <5> HIDE DEF Same
          <5> QED
            BY <1>2, <4>1
        <4> HIDE DEF Same
        <4> QED
          BY <4>2, <4>3, Zenon
      <3> HIDE DEF Same
      <3> QED
        BY <1>1, <3>1, <3>2, Zenon
    <2> HIDE DEF T
    <2> QED
      BY <1>0, <2>1, InductionUpTo
  <1>4. Same(b - m)
    <2>1. b - m \in 0..Length
      BY <1>0
    <2> HIDE DEF Same
    <2> QED
      BY <1>3, <2>1, Zenon
  <1>5. m + (b - m) = b /\ b <= Length
    BY <1>0
  <1> QED
    BY <1>4, <1>5 DEF e

\* Pictures of one kind.
Run(a, b, k) == \A f \in a..(b - 1) : Picture(f) = k

LEMMA WatchedSame ==
    ASSUME Known, NEW k \in Kinds, NEW n \in Unsure, NEW a \in Nat, NEW b \in 0..Length,
           a <= b, Run(a, b, k)
    PROVE  Watched(Sure(k, n), a, b) = Sure(k, IF a < b THEN 0 ELSE n)
  <1> DEFINE c == Sure(k, n)
             Same(d) == a + d <= b =>
                            Watched(c, a, a + d) = Sure(k, IF 0 < d THEN 0 ELSE n)
             T == {d \in 0..Length : Same(d)}
  <1>0. Length \in Nat /\ c \in Check /\ b \in Nat /\ b <= Length
    BY Numbers, SureFacts
  <1>1. Same(0)
    <2>1. a + 0 = a /\ a >= a /\ a \in 0..Length
      BY <1>0
    <2> HIDE DEF c
    <2>2. Watched(c, a, a) = c
      BY <1>0, <2>1, WatchedNone
    <2> QED
      BY <2>1, <2>2 DEF c
  <1> HIDE DEF c
  <1>2. ASSUME NEW d \in 1..Length, Same(d - 1)
        PROVE  Same(d)
    <2> SUFFICES ASSUME a + d <= b
                 PROVE  Watched(c, a, a + d) = Sure(k, 0)
      OBVIOUS
    <2> DEFINE f == a + (d - 1)
    <2>1. /\ f \in 0..(Length - 1) /\ a <= f /\ f + 1 = a + d /\ f <= b
          /\ f \in a..(b - 1)
      BY <1>0
    <2>2. PICK m \in Unsure : Watched(c, a, f) = Sure(k, m)
      <3>1. 0 \in Unsure
        BY LogoChangeAssumption DEF Unsure
      <3> QED
        BY <1>2, <2>1, <3>1
    <2> HIDE DEF f
    <2>3. Watched(c, a, f + 1) = Judged(Watched(c, a, f), Picture(f))
      BY <1>0, <2>1, WatchedForward
    <2>4. Picture(f) = k
      BY <2>1 DEF Run
    <2> QED
      BY <2>1, <2>2, <2>3, <2>4, JudgedSame
  <1>3. \A d \in 0..Length : d \in T
    <2>1. 0 \in T /\ \A d \in 1..Length : d - 1 \in T => d \in T
      <3>1. 0 \in 0..Length
        BY <1>0
      <3> HIDE DEF Same
      <3>2. ASSUME NEW d \in 1..Length, d - 1 \in T
            PROVE  d \in T
        <4>1. Same(d - 1)
          BY <3>2, Zenon
        <4>2. d \in 0..Length
          BY <1>0
        <4>3. Same(d)
          BY <1>2, <4>1
        <4> QED
          BY <4>2, <4>3, Zenon
      <3> QED
        BY <1>1, <3>1, <3>2, Zenon
    <2> HIDE DEF T
    <2> QED
      BY <1>0, <2>1, InductionUpTo
  <1>4. Same(b - a)
    <2>1. b - a \in 0..Length
      BY <1>0
    <2> HIDE DEF Same
    <2> QED
      BY <1>3, <2>1, Zenon
  <1>5. a + (b - a) = b /\ (0 < b - a <=> a < b)
    BY <1>0
  <1> QED
    BY <1>4, <1>5 DEF c

\* A judgement turns with the first of more than Threshold pictures.
Turning(k, n) == IF n <= Threshold THEN Sure(k, n) ELSE Sure(Other(k), 0)

LEMMA WatchedOther ==
    ASSUME Known, NEW k \in Kinds, NEW n \in Unsure, NEW a \in Nat, NEW b \in 0..Length,
           a <= b, Run(a, b, Other(k))
    PROVE  Watched(Sure(k, n), a, b) = Turning(k, n + (b - a))
  <1> DEFINE c == Sure(k, n)
             Same(d) == a + d <= b => Watched(c, a, a + d) = Turning(k, n + d)
             T == {d \in 0..Length : Same(d)}
  <1>0. /\ Length \in Nat /\ c \in Check /\ b \in Nat /\ b <= Length
        /\ Threshold \in Nat /\ n \in Nat /\ n <= Threshold
    BY Numbers, SureFacts, LogoChangeAssumption DEF Unsure
  <1>1. Same(0)
    <2>1. a + 0 = a /\ a >= a /\ a \in 0..Length /\ n + 0 = n
      BY <1>0
    <2> HIDE DEF c
    <2>2. Watched(c, a, a) = c
      BY <1>0, <2>1, WatchedNone
    <2> QED
      BY <1>0, <2>1, <2>2 DEF c, Turning
  <1> HIDE DEF c
  <1>2. ASSUME NEW d \in 1..Length, Same(d - 1)
        PROVE  Same(d)
    <2> SUFFICES ASSUME a + d <= b
                 PROVE  Watched(c, a, a + d) = Turning(k, n + d)
      OBVIOUS
    <2> DEFINE f == a + (d - 1)
               m == n + (d - 1)
    <2>1. /\ f \in 0..(Length - 1) /\ a <= f /\ f + 1 = a + d /\ f <= b
          /\ f \in a..(b - 1)
      BY <1>0
    <2>2. Watched(c, a, f) = Turning(k, m)
      BY <1>2, <2>1
    <2>3. m \in Nat /\ m + 1 = n + d
      BY <1>0
    <2> HIDE DEF f, m
    <2>4. Watched(c, a, f + 1) = Judged(Watched(c, a, f), Picture(f))
      BY <1>0, <2>1, WatchedForward
    <2>5. Picture(f) = Other(k)
      BY <2>1 DEF Run
    <2>6. CASE m <= Threshold
      <3>1. m \in Unsure
        BY <1>0, <2>3, <2>6 DEF Unsure
      <3>2. Judged(Sure(k, m), Other(k))
                = IF m < Threshold THEN Sure(k, m + 1) ELSE Sure(Other(k), 0)
        BY <3>1, JudgedOther
      <3>3. m < Threshold <=> m + 1 <= Threshold
        BY <1>0, <2>3
      <3> QED
        BY <2>1, <2>2, <2>3, <2>4, <2>5, <2>6, <3>2, <3>3 DEF Turning
    <2>7. CASE ~(m <= Threshold)
      <3>1. 0 \in Unsure /\ Other(k) \in Kinds
        BY <1>0 DEF Unsure, Kinds, Other
      <3>2. Judged(Sure(Other(k), 0), Other(k)) = Sure(Other(k), 0)
        BY <3>1, JudgedSame
      <3>3. ~(m + 1 <= Threshold)
        BY <1>0, <2>3, <2>7
      <3> QED
        BY <2>1, <2>2, <2>3, <2>4, <2>5, <2>7, <3>2, <3>3 DEF Turning
    <2> QED
      BY <2>6, <2>7
  <1>3. \A d \in 0..Length : d \in T
    <2>1. 0 \in T /\ \A d \in 1..Length : d - 1 \in T => d \in T
      <3>1. 0 \in 0..Length
        BY <1>0
      <3> HIDE DEF Same
      <3>2. ASSUME NEW d \in 1..Length, d - 1 \in T
            PROVE  d \in T
        <4>1. Same(d - 1)
          BY <3>2, Zenon
        <4>2. d \in 0..Length
          BY <1>0
        <4>3. Same(d)
          BY <1>2, <4>1
        <4> QED
          BY <4>2, <4>3, Zenon
      <3> QED
        BY <1>1, <3>1, <3>2, Zenon
    <2> HIDE DEF T
    <2> QED
      BY <1>0, <2>1, InductionUpTo
  <1>4. Same(b - a)
    <2>1. b - a \in 0..Length
      BY <1>0
    <2> HIDE DEF Same
    <2> QED
      BY <1>3, <2>1, Zenon
  <1>5. a + (b - a) = b
    BY <1>0
  <1> QED
    BY <1>4, <1>5 DEF c

-----------------------------------------------------------------------------
(* The distances.                                                          *)

\* The least of one number and some natural numbers is a bound of all.
LEMMA LeastWithOne ==
    ASSUME NEW a \in Int, NEW S \in SUBSET Nat
    PROVE  /\ Min({a} \cup S) \in {a} \cup S
           /\ Min({a} \cup S) <= a /\ \A x \in S : Min({a} \cup S) <= x
  <1> DEFINE M == {a} \cup S
  <1>1. \E x \in M : \A y \in M : x <= y
    <2>1. CASE S = {}
      <3>1. a \in M /\ \A y \in M : y = a
        BY <2>1
      <3> HIDE DEF M
      <3> QED
        BY <3>1
    <2>2. CASE S # {}
      <3>1. Min(S) \in S /\ \A y \in S : Min(S) <= y
        BY <2>2, LeastElement
      <3> DEFINE m == Min(S)
      <3>2. m \in Nat
        BY <3>1
      <3> HIDE DEF m
      <3>3. CASE a <= m
        <4>1. \A y \in S : a <= y
          BY <3>1, <3>2, <3>3 DEF m
        <4> QED
          BY <4>1
      <3>4. CASE ~(a <= m)
        <4>1. m <= a /\ m \in M /\ \A y \in S : m <= y
          BY <3>1, <3>2, <3>4 DEF m
        <4>2. \A y \in M : m <= y
          BY <4>1
        <4> HIDE DEF M
        <4> QED
          BY <4>1, <4>2
      <3> QED
        BY <3>3, <3>4
    <2> QED
      BY <2>1, <2>2
  <1>2. Min(M) \in M /\ \A y \in M : Min(M) <= y
    <2> HIDE DEF M
    <2> QED
      BY <1>1 DEF Min
  <1> QED
    BY <1>2

\* The I-frame after f, or the end of the recording.
NextOrEnd(f) == Min({j \in IFrames \cup {Length - 1} : f < j})

LEMMA NextOrEndFacts ==
    ASSUME NEW f \in 0..(Length - 2)
    PROVE  /\ NextOrEnd(f) \in IFrames \cup {Length - 1} /\ NextOrEnd(f) \in Nat
           /\ f < NextOrEnd(f) /\ NextOrEnd(f) <= Length - 1
           /\ \A j \in IFrames : f < j => NextOrEnd(f) <= j
  <1> DEFINE S == {j \in IFrames \cup {Length - 1} : f < j}
  <1>1. Length - 1 \in Nat /\ f < Length - 1 /\ f \in Nat
    BY Numbers
  <1>2. S \in SUBSET Nat /\ Length - 1 \in S
    BY <1>1, FramesAreNumbers
  <1>3. Min(S) \in S /\ \A j \in S : Min(S) <= j
    <2> HIDE DEF S
    <2> QED
      BY <1>2, LeastElement
  <1>4. NextOrEnd(f) = Min(S)
    BY DEF NextOrEnd
  <1>5. NextOrEnd(f) \in S /\ \A j \in S : NextOrEnd(f) <= j
    <2> HIDE DEF S
    <2> QED
      BY <1>3, <1>4
  <1> QED
    BY <1>1, <1>2, <1>5

LEMMA LengthFacts ==
    /\ Length \in Nat /\ Length - 1 \in Nat /\ Length - 2 \in Nat /\ Length >= 2
    /\ IgnoreFrames \in Nat /\ CheckFrames \in Nat /\ CheckFrames >= 1
    /\ Threshold \in Nat /\ Threshold < CheckFrames
    /\ IgnoreFrames + CheckFrames < Length
  BY Numbers, LogoChangeAssumption, DistanceAssumption

LEMMA GopFacts ==
    Gop \in Nat /\ \A f \in 0..(Length - 2) : NextOrEnd(f) - f <= Gop
  <1> DEFINE D == {NextOrEnd(f) - f : f \in 0..(Length - 2)}
  <1>1. \A f \in 0..(Length - 2) : NextOrEnd(f) - f \in 0..Length
    <2> SUFFICES ASSUME NEW f \in 0..(Length - 2) PROVE NextOrEnd(f) - f \in 0..Length
      OBVIOUS
    <2>1. NextOrEnd(f) \in Nat /\ f < NextOrEnd(f) /\ NextOrEnd(f) <= Length - 1
      BY NextOrEndFacts
    <2> QED
      BY <2>1, LengthFacts
  <1>2. D \in SUBSET (0..Length) /\ D # {}
    <2>1. 0 \in 0..(Length - 2)
      BY LengthFacts
    <2>2. \A d \in D : d \in 0..Length
      BY <1>1
    <2> QED
      BY <2>1, <2>2
  <1>3. Max(D) \in D /\ \A d \in D : d <= Max(D)
    <2> HIDE DEF D
    <2> QED
      BY <1>2, GreatestElement, LengthFacts
  <1>4. Gop = Max(D)
    BY Zenon DEF Gop, NextOrEnd
  <1>5. \A f \in 0..(Length - 2) : NextOrEnd(f) - f \in D
    OBVIOUS
  <1> HIDE DEF D
  <1>6. Gop \in 0..Length
    BY <1>2, <1>3, <1>4
  <1> QED
    BY <1>3, <1>4, <1>5, <1>6, LengthFacts

\* The sums of the parameters that the scan relies on.
LEMMA Distances ==
    /\ Gop \in Nat /\ BigStep \in Nat /\ Stride \in Nat /\ Delay \in Nat
    /\ IgnoreFrames \in Nat /\ CheckFrames \in Nat /\ Threshold \in Nat
    /\ SafetyLimit \in Nat /\ StableTime \in Nat /\ StableTime > 0 /\ SearchBreak \in Nat
    /\ Length \in Nat
    /\ Stride = BigStep + IgnoreFrames + CheckFrames + Gop
    /\ Delay = IgnoreFrames + CheckFrames + Threshold + Gop
    /\ Threshold + 1 <= CheckFrames
    /\ 2 * (IgnoreFrames + CheckFrames + Gop) <= BigStep
    /\ BigStep >= 2
  <1>1. /\ BigStep \in Nat /\ BigStep >= 2 /\ StableTime \in Nat /\ StableTime > 0
        /\ SafetyLimit \in Nat /\ SearchBreak \in Nat
    BY LogoScanAssumption, LogoChangeAssumption
  <1> QED
    BY <1>1, GopFacts, LengthFacts, DistanceAssumption DEF Stride, Delay

LEMMA NextIFrameNear ==
    ASSUME last = Length - 1, NEW f \in Nat, f + Gop < last - SafetyLimit
    PROVE  NextIFrame(f) \in IFrames /\ f < NextIFrame(f) /\ NextIFrame(f) <= f + Gop
  <1> DEFINE S == {i \in IFrames : f < i}
  <1>1. /\ f \in 0..(Length - 2) /\ f \in -1..last /\ f \in -1..Length
        /\ f + Gop < Length - 1 - SafetyLimit /\ SafetyLimit \in Nat /\ Gop \in Nat
    BY Distances
  <1>2. NextOrEnd(f) - f <= Gop /\ NextOrEnd(f) \in Nat
    BY <1>1, GopFacts, NextOrEndFacts
  <1>3. /\ NextOrEnd(f) # Length - 1 /\ NextOrEnd(f) <= f + Gop
        /\ NextOrEnd(f) < Length - 1 - SafetyLimit
    BY <1>1, <1>2, LengthFacts
  <1>4. NextOrEnd(f) \in S
    BY <1>1, <1>3, NextOrEndFacts
  <1>5. S \in SUBSET Nat /\ S # {}
    BY <1>4, FramesAreNumbers
  <1>6. Following[f] = Min(S)
    BY <1>1, <1>5, Zenon DEF Following
  <1>7. Min(S) \in S /\ Min(S) <= NextOrEnd(f)
    <2> HIDE DEF S
    <2> QED
      BY <1>4, <1>5, LeastElement
  <1>8. Following[f] \in IFrames /\ f < Following[f] /\ Following[f] <= NextOrEnd(f)
    BY <1>6, <1>7
  <1>9. Following[f] \in Nat
    BY <1>8, FramesAreNumbers
  <1>10. Following[f] < last - SafetyLimit /\ Following[f] <= f + Gop
    BY <1>1, <1>2, <1>3, <1>8, <1>9
  <1>11. NextIFrame(f) = Following[f]
    BY <1>1, <1>10 DEF NextIFrame
  <1> QED
    BY <1>8, <1>10, <1>11

LEMMA PrecedingNear ==
    ASSUME NEW t \in 1..(Length - 1)
    PROVE  /\ Preceding[t] \in IFrames /\ Preceding[t] < t
           /\ t - Gop <= Preceding[t]
  <1>1. t \in -1..Length /\ 0 \in IFrames /\ 0 < t /\ t \in Nat /\ t <= Length - 1
    BY LengthFacts, LogoChangeAssumption
  <1>2. /\ Preceding[t] = -1 \/ (Preceding[t] \in IFrames /\ Preceding[t] < t)
        /\ \A i \in IFrames : i < t => i <= Preceding[t]
    BY <1>1, PrecedingLemma
  <1>3. 0 <= Preceding[t]
    BY <1>1, <1>2
  <1> DEFINE p == Preceding[t]
  <1>4. p \in IFrames /\ p < t
    BY <1>2, <1>3
  <1>5. p \in Nat
    BY <1>4, FramesAreNumbers
  <1>6. \A i \in IFrames : i < t => i <= p
    BY <1>2
  <1> HIDE DEF p
  <1>7. p \in 0..(Length - 2)
    BY <1>1, <1>4, <1>5, LengthFacts
  <1>8. /\ NextOrEnd(p) \in IFrames \cup {Length - 1} /\ p < NextOrEnd(p) /\ NextOrEnd(p) \in Nat
        /\ NextOrEnd(p) - p <= Gop
    BY <1>7, NextOrEndFacts, GopFacts
  <1>9. t <= NextOrEnd(p)
    <2>1. CASE NextOrEnd(p) = Length - 1
      BY <1>1, <2>1
    <2>2. CASE NextOrEnd(p) \in IFrames
      BY <1>1, <1>5, <1>6, <1>8, <2>2
    <2> QED
      BY <1>8, <2>1, <2>2
  <1>10. t - Gop <= p
    BY <1>1, <1>5, <1>8, <1>9, Distances
  <1> QED
    BY <1>4, <1>10 DEF p

-----------------------------------------------------------------------------
(* A steady recording, from one change to the next.                        *)

Shot(r, f) == Shows[r][f]
Before(r, p) == IF p = 0 THEN "none" ELSE Shot(r, p - 1)
ChangesOf(r) == {f \in 0..(Length - 1) : Shot(r, f) # Before(r, f)}
Past(r, p) == {f \in ChangesOf(r) : f < p}
Coming(r, p) == {f \in ChangesOf(r) : p <= f}
NextOf(r, p) == Min({Length} \cup Coming(r, p))

\* How long the kind that frame f begins has to stay.
Staying(k) == Stride + (IF k = "logo" THEN StableTime ELSE 0)

SteadyOf(r) ==
    /\ \A f \in 0..(Length - 1) : Shot(r, f) \in Kinds
    /\ \A f \in ChangesOf(r) :
          /\ f + Staying(Shot(r, f)) + BigStep + SafetyLimit <= Length - 1
          /\ \A g \in ChangesOf(r) : f < g => f + Staying(Shot(r, f)) <= g
    /\ \A f \in {0} \cup ChangesOf(r) : Shot(r, f) = "none" =>
          /\ Coming(r, f + 1) = {} => Length - 1 - f <= SearchBreak - Stride
          /\ Coming(r, f + 1) # {} => NextOf(r, f + 1) - f <= SearchBreak - Stride

LEMMA ChangesAre == Changes = ChangesOf(recording)
  BY Zenon DEF Changes, ChangesOf, Picture, Shot, Before

LEMMA ComingFacts ==
    ASSUME NEW r, NEW p \in Nat
    PROVE  /\ Coming(r, p) \in SUBSET Nat /\ \A f \in Coming(r, p) : f <= Length - 1 /\ p <= f
           /\ ChangesOf(r) \in SUBSET Nat
  BY LengthFacts DEF Coming, ChangesOf

LEMMA NextFacts ==
    ASSUME NEW r, NEW p \in 0..Length
    PROVE  /\ NextOf(r, p) \in Nat /\ p <= NextOf(r, p) /\ NextOf(r, p) <= Length
           /\ \A f \in ChangesOf(r) : p <= f => NextOf(r, p) <= f
           /\ NextOf(r, p) = Length \/ NextOf(r, p) \in ChangesOf(r)
           /\ NextOf(r, p) = Length <=> Coming(r, p) = {}
  <1>0. p \in Nat /\ p <= Length /\ Length \in Nat
    BY LengthFacts
  <1>1. Coming(r, p) \in SUBSET Nat /\ \A f \in Coming(r, p) : f <= Length - 1 /\ p <= f
    BY <1>0, ComingFacts
  <1>2. /\ NextOf(r, p) \in {Length} \cup Coming(r, p)
        /\ NextOf(r, p) <= Length /\ \A f \in Coming(r, p) : NextOf(r, p) <= f
    <2>1. Length \in Int
      BY <1>0
    <2> QED
      BY <1>1, <2>1, LeastWithOne DEF NextOf
  <1>3. \A f : f \in Coming(r, p) <=> f \in ChangesOf(r) /\ p <= f
    BY DEF Coming
  <1> QED
    BY <1>0, <1>1, <1>2, <1>3

LEMMA SteadyIs ==
    ASSUME Steady, last = Length - 1, recording \in Recording
    PROVE  SteadyOf(recording)
  <1> DEFINE r == recording
             C == ChangesOf(r)
  <1>1. \A f \in 0..(Length - 1) : Shot(r, f) \in Kinds
    <2> SUFFICES ASSUME NEW f \in 0..(Length - 1) PROVE Shot(r, f) \in Kinds
      OBVIOUS
    <2>1. Picture(f) \in {"logo", "none", "unknown"}
      BY KnownHolds DEF Known
    <2>2. Picture(f) # "unknown"
      BY DEF Steady
    <2> QED
      BY <2>1, <2>2 DEF Shot, Picture, Kinds
  <1>2. Changes = C /\ \A f : After(f) = {g \in C : f < g}
    BY ChangesAre DEF After
  <1>3. C \in SUBSET Nat /\ \A f \in C : f \in Nat
    BY LengthFacts DEF ChangesOf
  <1>4. \A f : Picture(f) = Shot(r, f)
    BY DEF Picture, Shot
  <1> HIDE DEF r, C
  <1>5. ASSUME NEW f \in C
        PROVE  /\ f + Staying(Shot(r, f)) + BigStep + SafetyLimit <= Length - 1
               /\ \A g \in C : f < g => f + Staying(Shot(r, f)) <= g
    <2> DEFINE e == Length - 1 - SafetyLimit - BigStep
               end == Min({e} \cup After(f))
    <2>1. end - f >= Stride + (IF Shot(r, f) = "logo" THEN StableTime ELSE 0)
      BY <1>2, <1>4, Zenon DEF Steady
    <2>2. end - f >= Staying(Shot(r, f))
      BY <2>1, Zenon DEF Staying
    <2>3. After(f) \in SUBSET Nat /\ e \in Int /\ f \in Nat
      <3>1. After(f) \subseteq C /\ C \in SUBSET Nat /\ f \in Nat
        BY <1>2, <1>3
      <3>2. e \in Int
        BY Distances
      <3> QED
        BY <3>1, <3>2
    <2>4. /\ end \in {e} \cup After(f) /\ end <= e /\ \A g \in After(f) : end <= g
      <3> HIDE DEF e
      <3> QED
        BY <2>3, LeastWithOne
    <2>5. end \in Int
      BY <2>3, <2>4
    <2> HIDE DEF end
    <2>6. Staying(Shot(r, f)) \in Int
      BY Distances DEF Staying
    <2> DEFINE st == Staying(Shot(r, f))
    <2> HIDE DEF st
    <2>7. f + st + BigStep + SafetyLimit <= Length - 1
      BY <2>2, <2>3, <2>4, <2>5, <2>6, Distances DEF st
    <2>8. ASSUME NEW g \in C, f < g
          PROVE  f + st <= g
      <3>1. g \in After(f) /\ g \in Nat
        BY <1>2, <1>3, <2>8
      <3>2. end <= g
        BY <2>4, <3>1
      <3> QED
        BY <2>2, <2>3, <2>5, <2>6, <3>1, <3>2 DEF st
    <2> QED
      BY <2>7, <2>8 DEF st
  <1>6. ASSUME NEW f \in {0} \cup C, Shot(r, f) = "none"
        PROVE  /\ Coming(r, f + 1) = {} => Length - 1 - f <= SearchBreak - Stride
               /\ Coming(r, f + 1) # {} => NextOf(r, f + 1) - f <= SearchBreak - Stride
    <2> DEFINE end == Min({last} \cup After(f))
    <2>1. end - f <= SearchBreak - Stride
      BY <1>2, <1>4, <1>6, Zenon DEF Steady
    <2>2. f \in Nat /\ f <= Length - 1 /\ f + 1 \in 0..Length
      BY <1>3, LengthFacts DEF C, ChangesOf
    <2>3. After(f) = Coming(r, f + 1)
      <3>1. \A g \in C : f < g <=> f + 1 <= g
        BY <1>3, <2>2
      <3> QED
        BY <1>2, <3>1 DEF Coming, C
    <2>4. Coming(r, f + 1) \in SUBSET Nat
      BY <2>2, ComingFacts
    <2>5. /\ end \in {Length - 1} \cup Coming(r, f + 1)
          /\ end <= Length - 1 /\ \A g \in Coming(r, f + 1) : end <= g
      <3>1. Length - 1 \in Int
        BY LengthFacts
      <3>2. end = Min({Length - 1} \cup Coming(r, f + 1))
        BY <2>3
      <3> DEFINE a == Length - 1
                 S == Coming(r, f + 1)
      <3>3. a \in Int /\ S \in SUBSET Nat /\ end = Min({a} \cup S)
        BY <2>4, <3>1, <3>2
      <3> HIDE DEF end, a, S
      <3>4. end \in {a} \cup S /\ end <= a /\ \A g \in S : end <= g
        BY <3>3, LeastWithOne
      <3> QED
        BY <3>4 DEF a, S
    <2> HIDE DEF end
    <2>6. CASE Coming(r, f + 1) = {}
      <3>1. end = Length - 1
        BY <2>5, <2>6
      <3> QED
        BY <2>1, <2>6, <3>1
    <2>7. CASE Coming(r, f + 1) # {}
      <3>1. /\ NextOf(r, f + 1) \in ChangesOf(r) /\ NextOf(r, f + 1) \in Nat
            /\ f + 1 <= NextOf(r, f + 1) /\ NextOf(r, f + 1) <= Length
            /\ \A g \in ChangesOf(r) : f + 1 <= g => NextOf(r, f + 1) <= g
        BY <2>2, <2>7, NextFacts
      <3> DEFINE N == NextOf(r, f + 1)
      <3> HIDE DEF N
      <3>2. N \in Coming(r, f + 1) /\ N <= Length - 1
        <4>1. N \in Coming(r, f + 1)
          BY <3>1 DEF Coming, N
        <4> QED
          BY <2>2, <4>1, ComingFacts
      <3>3. \A g \in Coming(r, f + 1) : N <= g
        BY <3>1 DEF Coming, N
      <3>4. end <= N /\ N <= end /\ end \in Nat
        <4>1. end \in Nat
          BY <2>4, <2>5, LengthFacts
        <4>2. N <= end
          BY <2>5, <3>2, <3>3
        <4> QED
          BY <2>5, <3>2, <4>1, <4>2
      <3>5. end = N
        BY <3>1, <3>4 DEF N
      <3> QED
        BY <2>1, <2>7, <3>5 DEF N
    <2> QED
      BY <2>6, <2>7
  <1> QED
    BY <1>1, <1>5, <1>6, Zenon DEF SteadyOf, C, r

LEMMA BeforeNext ==
    ASSUME NEW r, NEW f \in Nat
    PROVE  Before(r, f + 1) = Shot(r, f)
  <1>1. f + 1 # 0 /\ f + 1 - 1 = f
    OBVIOUS
  <1> QED
    BY <1>1 DEF Before

\* Between two changes the pictures are of one kind.
LEMMA QuietFacts ==
    ASSUME NEW r, NEW p \in 0..Length, NEW q \in p..Length,
           \A f \in ChangesOf(r) : ~(p <= f /\ f < q)
    PROVE  /\ \A f \in p..(q - 1) : Shot(r, f) = Before(r, p)
           /\ \A f \in p..q : Before(r, f) = Before(r, p)
  <1> DEFINE Same(d) == p + d <= q => Before(r, p + d) = Before(r, p)
             T == {d \in 0..Length : Same(d)}
  <1>0. p \in Nat /\ q \in Nat /\ Length \in Nat /\ p <= q /\ q <= Length
    BY LengthFacts
  <1>1. ASSUME NEW f \in p..(q - 1)
        PROVE  Shot(r, f) = Before(r, f) /\ Before(r, f + 1) = Shot(r, f)
    <2>1. f \in 0..(Length - 1) /\ f + 1 # 0 /\ f + 1 - 1 = f /\ p <= f /\ f < q
      BY <1>0
    <2>2. f \notin ChangesOf(r)
      BY <2>1
    <2> QED
      BY <2>1, <2>2 DEF ChangesOf, Before
  <1>2. Same(0)
    BY <1>0
  <1>3. ASSUME NEW d \in 1..Length, Same(d - 1)
        PROVE  Same(d)
    <2> SUFFICES ASSUME p + d <= q
                 PROVE  Before(r, p + d) = Before(r, p)
      OBVIOUS
    <2> DEFINE f == p + (d - 1)
    <2>1. f \in p..(q - 1) /\ f + 1 = p + d /\ f <= q
      BY <1>0
    <2>2. Before(r, f) = Before(r, p)
      BY <1>3, <2>1
    <2> HIDE DEF f
    <2> QED
      BY <1>1, <2>1, <2>2
  <1> HIDE DEF Same
  <1>4. \A d \in 0..Length : d \in T
    <2>1. 0 \in T /\ \A d \in 1..Length : d - 1 \in T => d \in T
      <3>1. 0 \in 0..Length
        BY <1>0
      <3>2. ASSUME NEW d \in 1..Length, d - 1 \in T
            PROVE  d \in T
        <4>1. Same(d - 1)
          BY <3>2, Zenon
        <4>2. d \in 0..Length
          BY <1>0
        <4> QED
          BY <1>3, <4>1, <4>2, Zenon
      <3> QED
        BY <1>2, <3>1, <3>2, Zenon
    <2> HIDE DEF T
    <2> QED
      BY <1>0, <2>1, InductionUpTo
  <1>5. ASSUME NEW f \in p..q
        PROVE  Before(r, f) = Before(r, p)
    <2>1. f - p \in 0..Length /\ p + (f - p) = f /\ f <= q
      BY <1>0
    <2>2. Same(f - p)
      BY <1>4, <2>1, Zenon
    <2> QED
      BY <2>1, <2>2 DEF Same
  <1>6. \A f \in p..(q - 1) : f \in p..q
    BY <1>0
  <1> QED
    BY <1>1, <1>5, <1>6

\* The kind k up to the next change at N, the other one for some time behind it.
Turn(r, k, p, N) ==
    /\ k \in Kinds /\ p \in Nat /\ N \in Nat /\ p <= N /\ N <= Length
    /\ \A f \in p..(N - 1) : Shot(r, f) = k
    /\ N < Length =>
          /\ N + Staying(Other(k)) + BigStep + SafetyLimit <= Length - 1
          /\ \A f \in N..(N + Staying(Other(k)) - 1) : Shot(r, f) = Other(k)

LEMMA KindFacts ==
    /\ \A k \in Kinds : Other(k) \in Kinds /\ Other(k) # k /\ Other(Other(k)) = k
    /\ \A k, l \in Kinds : l # k => l = Other(k)
    /\ \A k : Staying(k) \in Nat /\ Staying(k) >= Stride
    /\ Staying("logo") = Stride + StableTime
  BY Distances DEF Kinds, Other, Staying

LEMMA BeforeKind ==
    ASSUME NEW r, SteadyOf(r), NEW p \in 0..Length
    PROVE  Before(r, p) \in Kinds
  <1>1. CASE p = 0
    BY <1>1 DEF Before, Kinds
  <1>2. CASE p # 0
    <2>1. p - 1 \in 0..(Length - 1)
      BY <1>2, LengthFacts
    <2> QED
      BY <1>2, <2>1 DEF Before, SteadyOf
  <1> QED
    BY <1>1, <1>2

\* What follows on a change: its kind stays.
LEMMA ChangeStays ==
    ASSUME NEW r, SteadyOf(r), NEW N \in ChangesOf(r), NEW k \in Kinds, Before(r, N) = k
    PROVE  /\ N \in Nat /\ N < Length /\ Shot(r, N) = Other(k)
           /\ N + Staying(Other(k)) + BigStep + SafetyLimit <= Length - 1
           /\ \A f \in N..(N + Staying(Other(k)) - 1) : Shot(r, f) = Other(k)
           /\ \A g \in ChangesOf(r) : N < g => N + Staying(Other(k)) <= g
           /\ \A f \in (N + 1)..(N + Staying(Other(k))) : Before(r, f) = Other(k)
  <1>1. N \in 0..(Length - 1) /\ Shot(r, N) # k /\ Shot(r, N) \in Kinds
    BY DEF ChangesOf, SteadyOf
  <1>2. Shot(r, N) = Other(k)
    BY <1>1, KindFacts
  <1>3. /\ N + Staying(Other(k)) + BigStep + SafetyLimit <= Length - 1
        /\ \A g \in ChangesOf(r) : N < g => N + Staying(Other(k)) <= g
    BY <1>2 DEF SteadyOf
  <1> DEFINE st == Staying(Other(k))
  <1>4. st \in Nat /\ st >= 1
    BY KindFacts, Distances
  <1> HIDE DEF st
  <1>5. /\ N \in Nat /\ N < Length /\ N + st + BigStep + SafetyLimit <= Length - 1
        /\ \A g \in ChangesOf(r) : N < g => N + st <= g
    BY <1>1, <1>3, LengthFacts DEF st
  <1>6. N + 1 \in 0..Length /\ N + st \in (N + 1)..Length
    BY <1>4, <1>5, Distances
  <1>7. \A f \in ChangesOf(r) : ~(N + 1 <= f /\ f < N + st)
    <2> SUFFICES ASSUME NEW f \in ChangesOf(r), N + 1 <= f, f < N + st
                 PROVE  FALSE
      OBVIOUS
    <2>1. f \in Nat
      BY LengthFacts DEF ChangesOf
    <2> QED
      BY <1>4, <1>5, <2>1
  <1>8. Before(r, N + 1) = Other(k)
    BY <1>2, <1>5, BeforeNext
  <1>9. /\ \A f \in (N + 1)..(N + st - 1) : Shot(r, f) = Other(k)
        /\ \A f \in (N + 1)..(N + st) : Before(r, f) = Other(k)
    <2> DEFINE u == N + 1
               v == N + st
    <2>1. /\ u \in 0..Length /\ v \in u..Length /\ Before(r, u) = Other(k)
          /\ \A f \in ChangesOf(r) : ~(u <= f /\ f < v)
      BY <1>6, <1>7, <1>8
    <2> HIDE DEF u, v
    <2>2. /\ \A f \in u..(v - 1) : Shot(r, f) = Before(r, u)
          /\ \A f \in u..v : Before(r, f) = Before(r, u)
      BY <2>1, QuietFacts
    <2> QED
      BY <1>4, <1>5, <2>1, <2>2 DEF u, v
  <1>10. \A f \in N..(N + st - 1) : f = N \/ f \in (N + 1)..(N + st - 1)
    BY <1>4, <1>5
  <1> QED
    BY <1>2, <1>3, <1>5, <1>9, <1>10 DEF st

LEMMA SteadyTurns ==
    ASSUME NEW r, SteadyOf(r), NEW p \in 0..Length
    PROVE  Turn(r, Before(r, p), p, NextOf(r, p))
  <1> DEFINE N == NextOf(r, p)
             k == Before(r, p)
  <1>1. /\ N \in Nat /\ p <= N /\ N <= Length /\ p \in Nat
        /\ \A f \in ChangesOf(r) : p <= f => N <= f
        /\ N = Length \/ N \in ChangesOf(r)
    BY NextFacts, LengthFacts
  <1>2. k \in Kinds
    BY BeforeKind
  <1> HIDE DEF N
  <1>3. \A f \in ChangesOf(r) : ~(p <= f /\ f < N)
    <2> SUFFICES ASSUME NEW f \in ChangesOf(r), p <= f, f < N
                 PROVE  FALSE
      OBVIOUS
    <2>1. f \in Nat /\ N <= f
      BY <1>1, LengthFacts DEF ChangesOf
    <2> QED
      BY <1>1, <2>1
  <1>4. N \in p..Length /\ N \in p..N
    BY <1>1, LengthFacts
  <1>5. (\A f \in p..(N - 1) : Shot(r, f) = k) /\ Before(r, N) = k
    BY <1>3, <1>4, QuietFacts
  <1> HIDE DEF k
  <1>6. ASSUME N < Length
        PROVE  /\ N + Staying(Other(k)) + BigStep + SafetyLimit <= Length - 1
               /\ \A f \in N..(N + Staying(Other(k)) - 1) : Shot(r, f) = Other(k)
    <2>1. N \in ChangesOf(r)
      BY <1>1, <1>6
    <2> QED
      BY <1>2, <1>5, <2>1, ChangeStays
  <1> QED
    BY <1>1, <1>2, <1>5, <1>6 DEF Turn, N, k

-----------------------------------------------------------------------------
(* The judgement around a change.                                          *)

LEMMA TurnRuns ==
    ASSUME NEW k, NEW p, NEW N, Turn(recording, k, p, N), NEW a \in Nat, NEW b \in Nat
    PROVE  /\ p <= a /\ b <= N => Run(a, b, k)
           /\ N < Length /\ N <= a /\ b <= N + Staying(Other(k)) => Run(a, b, Other(k))
           /\ N < Length /\ N <= a /\ b <= N + Stride => Run(a, b, Other(k))
  <1>0. p \in Nat /\ N \in Nat /\ Staying(Other(k)) \in Nat /\ Staying(Other(k)) >= Stride
    BY KindFacts DEF Turn
  <1> DEFINE st == Staying(Other(k))
  <1>1. \A f : Picture(f) = Shot(recording, f)
    BY DEF Picture, Shot
  <1>2. ASSUME p <= a, b <= N
        PROVE  Run(a, b, k)
    <2>1. \A f \in a..(b - 1) : f \in p..(N - 1)
      BY <1>0, <1>2
    <2> QED
      BY <1>1, <2>1, Zenon DEF Run, Turn
  <1>3. ASSUME N < Length, N <= a, b <= N + st
        PROVE  Run(a, b, Other(k))
    <2>1. \A f \in a..(b - 1) : f \in N..(N + st - 1)
      <3> HIDE DEF st
      <3> QED
        BY <1>0, <1>3 DEF st
    <2> QED
      BY <1>1, <1>3, <2>1, Zenon DEF Run, Turn
  <1>4. b <= N + Stride => b <= N + st
    BY <1>0, Distances
  <1> QED
    BY <1>2, <1>3, <1>4

LEMMA UnsureFacts == 0 \in Unsure /\ \A n : n \in Unsure <=> n \in Nat /\ n <= Threshold
  BY LengthFacts DEF Unsure

\* The judgement is that of the kind before the change.
LEMMA TurnWatched ==
    ASSUME Known, NEW k, NEW p, NEW N, Turn(recording, k, p, N), NEW n \in Unsure,
           NEW a \in Nat, NEW b \in 0..Length, p <= a, a <= b, N < Length => b <= N + Stride
    PROVE  /\ b <= N => Watched(Sure(k, n), a, b) = Sure(k, IF a < b THEN 0 ELSE n)
           /\ N < b /\ a <= N =>
                 Watched(Sure(k, n), a, b) = Turning(k, (IF a < N THEN 0 ELSE n) + (b - N))
           /\ N < a => Watched(Sure(k, n), a, b) = Turning(k, n + (b - a))
  <1>0. /\ k \in Kinds /\ p \in Nat /\ N \in Nat /\ p <= N /\ N <= Length
        /\ b \in Nat /\ b <= Length /\ Length \in Nat
    BY LengthFacts DEF Turn
  <1>4. Sure(k, n) \in Check
    BY <1>0, SureFacts
  <1>1. CASE b <= N
    <2>1. Run(a, b, k)
      BY <1>0, <1>1, TurnRuns
    <2>2. Watched(Sure(k, n), a, b) = Sure(k, IF a < b THEN 0 ELSE n)
      BY <1>0, <2>1, WatchedSame
    <2>3. ~(N < b) /\ ~(N < a)
      BY <1>0, <1>1
    <2> QED
      BY <2>2, <2>3
  <1>2. CASE N < b /\ a <= N
    <2> DEFINE m == IF a < N THEN 0 ELSE n
    <2>1. Run(a, N, k) /\ Run(N, b, Other(k)) /\ N \in 0..Length
      BY <1>0, <1>2, TurnRuns
    <2>2. m \in Unsure
      BY UnsureFacts
    <2>3. Watched(Sure(k, n), a, N) = Sure(k, m)
      BY <1>0, <1>2, <2>1, WatchedSame
    <2> HIDE DEF m
    <2>4. Watched(Sure(k, m), N, b) = Turning(k, m + (b - N))
      BY <1>0, <1>2, <2>1, <2>2, WatchedOther
    <2>5. Watched(Sure(k, n), a, b) = Watched(Watched(Sure(k, n), a, N), N, b)
      BY <1>0, <1>2, <1>4, <2>1, WatchedSplits
    <2>6. ~(b <= N) /\ ~(N < a)
      BY <1>0, <1>2
    <2> QED
      BY <2>3, <2>4, <2>5, <2>6 DEF m
  <1>3. CASE N < a
    <2>1. N < Length /\ N <= a /\ ~(b <= N) /\ ~(a <= N)
      BY <1>0, <1>3
    <2>2. Run(a, b, Other(k))
      BY <1>0, <2>1, TurnRuns
    <2>3. Watched(Sure(k, n), a, b) = Turning(k, n + (b - a))
      BY <1>0, <2>2, WatchedOther
    <2> QED
      BY <2>1, <2>3
  <1> QED
    BY <1>0, <1>1, <1>2, <1>3

\* The judgement is that of the kind behind the change.
LEMMA WrongWatched ==
    ASSUME Known, NEW k, NEW p, NEW N, Turn(recording, k, p, N), NEW n \in Unsure,
           NEW a \in Nat, NEW b \in 0..Length, p <= a, a <= b, N < Length => b <= N + Stride
    PROVE  /\ b <= N => Watched(Sure(Other(k), n), a, b) = Turning(Other(k), n + (b - a))
           /\ a < N /\ N < b =>
                 Watched(Sure(Other(k), n), a, b)
                     = IF n + (N - a) <= Threshold THEN Sure(Other(k), 0)
                       ELSE Turning(k, b - N)
           /\ N <= a /\ a < b => Watched(Sure(Other(k), n), a, b) = Sure(Other(k), 0)
  <1>0. /\ k \in Kinds /\ p \in Nat /\ N \in Nat /\ p <= N /\ N <= Length
        /\ b \in Nat /\ b <= Length /\ Length \in Nat
        /\ Other(k) \in Kinds /\ Other(Other(k)) = k /\ 0 \in Unsure
    BY KindFacts, LengthFacts, UnsureFacts DEF Turn
  <1>4. Sure(Other(k), n) \in Check
    BY <1>0, SureFacts
  <1>1. CASE b <= N
    <2>1. Run(a, b, Other(Other(k)))
      BY <1>0, <1>1, TurnRuns
    <2>2. Watched(Sure(Other(k), n), a, b) = Turning(Other(k), n + (b - a))
      BY <1>0, <2>1, WatchedOther
    <2>3. ~(N < b) /\ ~(N <= a /\ a < b)
      BY <1>0, <1>1
    <2> QED
      BY <2>2, <2>3
  <1>2. CASE a < N /\ N < b
    <2>1. /\ Run(a, N, Other(Other(k))) /\ Run(N, b, Other(k)) /\ N \in 0..Length /\ a <= N
          /\ N <= b /\ N < Length
      <3>1. Run(a, N, k) /\ Run(N, b, Other(k))
        BY <1>0, <1>2, TurnRuns
      <3> QED
        BY <1>0, <1>2, <3>1
    <2>2. Watched(Sure(Other(k), n), a, N) = Turning(Other(k), n + (N - a))
      BY <1>0, <2>1, WatchedOther
    <2>3. Watched(Sure(Other(k), n), a, b) = Watched(Watched(Sure(Other(k), n), a, N), N, b)
      BY <1>0, <1>4, <2>1, WatchedSplits
    <2> DEFINE m == n + (N - a)
    <2>4. m \in Nat
      BY <1>0, <1>2, UnsureFacts
    <2>5. ~(b <= N) /\ ~(N <= a)
      BY <1>0, <1>2
    <2> HIDE DEF m
    <2>6. CASE m <= Threshold
      <3>1. m \in Unsure
        BY <2>4, <2>6, UnsureFacts
      <3>2. Watched(Sure(Other(k), m), N, b) = Sure(Other(k), IF N < b THEN 0 ELSE m)
        BY <1>0, <2>1, <3>1, WatchedSame
      <3> QED
        BY <1>2, <2>2, <2>3, <2>5, <2>6, <3>2 DEF m, Turning
    <2>7. CASE ~(m <= Threshold)
      <3>1. Watched(Sure(k, 0), N, b) = Turning(k, 0 + (b - N))
        BY <1>0, <2>1, WatchedOther
      <3>2. 0 + (b - N) = b - N
        BY <1>0
      <3> QED
        BY <1>0, <1>2, <2>2, <2>3, <2>5, <2>7, <3>1, <3>2 DEF m, Turning
    <2> QED
      BY <2>6, <2>7
  <1>3. CASE N <= a /\ a < b
    <2>1. N < Length /\ ~(b <= N) /\ ~(a < N)
      BY <1>0, <1>3
    <2>2. Run(a, b, Other(k))
      BY <1>0, <1>3, <2>1, TurnRuns
    <2>3. Watched(Sure(Other(k), n), a, b) = Sure(Other(k), IF a < b THEN 0 ELSE n)
      BY <1>0, <2>2, WatchedSame
    <2> QED
      BY <1>3, <2>1, <2>3
  <1> QED
    BY <1>1, <1>2, <1>3

\* What a batch that ends at b may show.
Undecided(c, k, N, b) ==
    \E m \in Unsure : /\ c = Sure(k, m)
                      /\ N = Length => m = 0
                      /\ N < Length => b <= N + m /\ (b <= N => m = 0)

Decided(c, k, N, b) ==
    /\ N < Length /\ N < b /\ b <= N + Threshold + Stride
    /\ \E m \in Unsure : c = Sure(Other(k), m)

\* Not many pictures behind the next change but one turn a judgement back.
LEMMA LateWatched ==
    ASSUME Known, NEW p \in 0..Length, SteadyOf(recording),
           NEW N, N = NextOf(recording, p), N < Length,
           NEW k, k = Before(recording, p),
           NEW t \in Nat, NEW b \in 0..Length, N < t, t <= N + Stride, t <= b,
           b <= N + Stride + Threshold
    PROVE  \E m \in Unsure : Watched(Sure(Other(k), 0), t, b) = Sure(Other(k), m)
  <1> DEFINE r == recording
             M == NextOf(r, N + 1)
  <1>1. Turn(r, k, p, N)
    BY SteadyTurns
  <1>2. /\ k \in Kinds /\ N \in Nat /\ p <= N /\ N \in ChangesOf(r) /\ Length \in Nat
        /\ 0 \in Unsure /\ Stride \in Nat /\ Threshold \in Nat /\ Other(k) \in Kinds
        /\ b \in Nat /\ b <= Length
    BY <1>1, NextFacts, LengthFacts, Distances, UnsureFacts, KindFacts DEF Turn
  <1>3. Before(r, N) = k
    <2>1. N \in p..Length /\ N \in p..N /\ p \in Nat
      BY <1>1, <1>2 DEF Turn
    <2>2. \A f \in ChangesOf(r) : ~(p <= f /\ f < N)
      <3> SUFFICES ASSUME NEW f \in ChangesOf(r), p <= f, f < N
                   PROVE  FALSE
        OBVIOUS
      <3>1. f \in Nat /\ N <= f
        BY NextFacts, LengthFacts DEF ChangesOf
      <3> QED
        BY <1>2, <3>1
    <2> QED
      BY <2>1, <2>2, QuietFacts
  <1>4. /\ \A g \in ChangesOf(r) : N < g => N + Staying(Other(k)) <= g
        /\ Shot(r, N) = Other(k)
        /\ N + Staying(Other(k)) + BigStep + SafetyLimit <= Length - 1
    BY <1>2, <1>3, ChangeStays
  <1>5. Before(r, N + 1) = Other(k)
    BY <1>2, <1>4, BeforeNext
  <1>6. N + 1 \in 0..Length /\ N + 1 \in Nat
    BY <1>2
  <1>7. Turn(r, Other(k), N + 1, M)
    BY <1>5, <1>6, SteadyTurns
  <1>8. M \in Nat /\ N + 1 <= M /\ M <= Length /\ (M = Length \/ M \in ChangesOf(r))
    BY <1>6, NextFacts
  <1> HIDE DEF M
  <1>9. N + Stride <= M
    <2>1. Staying(Other(k)) >= Stride /\ Staying(Other(k)) \in Nat
      BY KindFacts
    <2> DEFINE st == Staying(Other(k))
    <2> HIDE DEF st
    <2>2. st >= Stride /\ st \in Nat /\ N + st + BigStep + SafetyLimit <= Length - 1
      BY <1>4, <2>1 DEF st
    <2>3. CASE M = Length
      BY <1>2, <2>2, <2>3, Distances
    <2>4. CASE M \in ChangesOf(r)
      <3>1. N < M
        BY <1>2, <1>8
      <3>2. N + st <= M
        BY <1>4, <2>4, <3>1 DEF st
      <3> QED
        BY <1>2, <1>8, <2>2, <3>2
    <2> QED
      BY <1>8, <2>3, <2>4
  <1>10. N + 1 <= t /\ t <= M /\ b <= M + Threshold /\ (M < Length => b <= M + Stride)
    BY <1>2, <1>8, <1>9, Distances
  <1> DEFINE q == N + 1
             l == Other(k)
  <1>11. Turn(recording, l, q, M) /\ q <= t /\ 0 \in Unsure
    BY <1>2, <1>7, <1>10
  <1> HIDE DEF q, l
  <1>12. /\ b <= M => Watched(Sure(l, 0), t, b) = Sure(l, IF t < b THEN 0 ELSE 0)
         /\ M < b /\ t <= M =>
                 Watched(Sure(l, 0), t, b) = Turning(l, (IF t < M THEN 0 ELSE 0) + (b - M))
    BY <1>10, <1>11, TurnWatched
  <1>13. CASE b <= M
    BY <1>2, <1>12, <1>13 DEF l
  <1>14. CASE M < b
    <2>1. Watched(Sure(l, 0), t, b) = Turning(l, b - M)
      <3>1. (IF t < M THEN 0 ELSE 0) + (b - M) = b - M
        BY <1>2, <1>8
      <3> QED
        BY <1>10, <1>12, <1>14, <3>1
    <2>2. b - M \in Unsure /\ b - M <= Threshold
      BY <1>2, <1>8, <1>10, <1>14, UnsureFacts
    <2> QED
      BY <2>1, <2>2 DEF Turning, l
  <1> QED
    BY <1>2, <1>8, <1>13, <1>14

\* A batch of the coarse search, with not too much behind the change unseen.
LEMMA CoarseBatch ==
    ASSUME Known, NEW p \in 0..Length, SteadyOf(recording),
           NEW N, N = NextOf(recording, p), NEW k, k = Before(recording, p),
           NEW n \in Unsure, NEW a \in Nat, p <= a, N = Length => n = 0,
           N < Length => (a < N => n = 0) /\ a + CheckFrames <= N + n + Stride,
           NEW b, b = IF a + CheckFrames <= Length - 1 THEN a + CheckFrames ELSE Length - 1
    PROVE  LET c == Watched(Sure(k, n), a, b) IN Undecided(c, k, N, b) \/ Decided(c, k, N, b)
  <1> DEFINE c == Watched(Sure(k, n), a, b)
  <1>1. Turn(recording, k, p, N)
    BY SteadyTurns
  <1>2. /\ k \in Kinds /\ N \in Nat /\ p \in Nat /\ p <= N /\ N <= Length /\ Length \in Nat
        /\ 0 \in Unsure /\ n \in Nat /\ n <= Threshold
        /\ b \in 0..Length /\ b \in Nat /\ b <= Length - 1
        /\ N < Length => N + Stride + BigStep + SafetyLimit <= Length - 1
    <2>1. k \in Kinds /\ N \in Nat /\ p \in Nat /\ p <= N /\ N <= Length
      BY <1>1 DEF Turn
    <2>2. 0 \in Unsure /\ n \in Nat /\ n <= Threshold
      BY UnsureFacts
    <2>3. b \in 0..Length /\ b \in Nat /\ b <= Length - 1
      BY LengthFacts
    <2>4. ASSUME N < Length
          PROVE  N + Stride + BigStep + SafetyLimit <= Length - 1
      <3> DEFINE st == Staying(Other(k))
      <3>1. st \in Nat /\ st >= Stride
        BY KindFacts
      <3>2. N + st + BigStep + SafetyLimit <= Length - 1
        BY <1>1, <2>4 DEF Turn
      <3> HIDE DEF st
      <3> QED
        BY <2>1, <3>1, <3>2, Distances
    <2> QED
      BY <2>1, <2>2, <2>3, <2>4, LengthFacts
  <1>3. Sure(k, n) \in Check
    BY <1>2, SureFacts
  <1>4. CASE N = Length
    <2>1. n = 0 /\ b <= N /\ ~(N < Length)
      BY <1>2, <1>4
    <2>2. c = Sure(k, 0)
      <3>1. CASE a >= b
        BY <1>2, <1>3, <2>1, <3>1, WatchedNone
      <3>2. CASE a < b
        <4>1. a <= b /\ (N < Length => b <= N + Stride)
          BY <1>2, <2>1, <3>2
        <4> QED
          BY <1>1, <1>2, <2>1, <3>2, <4>1, TurnWatched
      <3> QED
        BY <1>2, <3>1, <3>2
    <2> QED
      BY <1>2, <1>4, <2>1, <2>2 DEF Undecided
  <1>5. CASE N < Length
    <2>0. /\ Threshold \in Nat /\ CheckFrames \in Nat /\ Stride \in Nat /\ BigStep \in Nat
          /\ Threshold + 1 <= CheckFrames /\ CheckFrames <= Stride /\ Threshold <= BigStep
      BY Distances
    <2>1. b = a + CheckFrames /\ a < b /\ b <= N + n + Stride /\ a <= b
      BY <1>2, <1>5, <2>0, Distances
    <2>2. N # Length
      BY <1>2, <1>5
    <2>3. CASE b <= N
      <3>1. N < Length => b <= N + Stride
        BY <1>2, <2>0, <2>3
      <3>2. c = Sure(k, 0)
        BY <1>1, <1>2, <2>1, <2>3, <3>1, TurnWatched
      <3>3. b <= N + 0
        BY <1>2, <2>3
      <3> QED
        BY <1>2, <2>2, <3>2, <3>3 DEF Undecided
    <2>4. CASE N < b /\ a <= N
      <3> DEFINE m == (IF a < N THEN 0 ELSE n) + (b - N)
      <3>1. /\ N < Length => b <= N + Stride
            /\ b <= N + Threshold + Stride
        BY <1>2, <2>0, <2>1, <2>4
      <3>2. c = Turning(k, m)
        BY <1>1, <1>2, <2>1, <2>4, <3>1, TurnWatched
      <3>3. m \in Nat /\ b <= N + m /\ ~(b <= N)
        BY <1>2, <2>4
      <3> HIDE DEF m
      <3>4. CASE m <= Threshold
        <4>1. m \in Unsure /\ c = Sure(k, m)
          BY <3>2, <3>3, <3>4, UnsureFacts DEF Turning
        <4> HIDE DEF c
        <4> QED
          BY <2>2, <3>3, <4>1 DEF Undecided, c
      <3>5. CASE ~(m <= Threshold)
        <4>1. c = Sure(Other(k), 0)
          BY <3>2, <3>5 DEF Turning
        <4> HIDE DEF c
        <4> QED
          BY <1>2, <1>5, <2>4, <3>1, <4>1 DEF Decided, c
      <3> QED
        BY <3>4, <3>5
    <2>5. CASE N < a
      <3> DEFINE t == a + (Threshold + 1 - n)
      <3>1. /\ t \in 0..Length /\ t \in Nat /\ a <= t /\ t <= b /\ t <= N + Stride /\ N < t
            /\ n + (t - a) = Threshold + 1 /\ ~(Threshold + 1 <= Threshold)
            /\ b <= N + Stride + Threshold /\ N < b
        BY <1>2, <1>5, <2>0, <2>1, <2>5
      <3> HIDE DEF t
      <3>2. Watched(Sure(k, n), a, t) = Turning(k, n + (t - a))
        BY <1>1, <2>5, <3>1, TurnWatched
      <3>3. Watched(Sure(k, n), a, t) = Sure(Other(k), 0)
        BY <3>1, <3>2 DEF Turning
      <3>4. c = Watched(Watched(Sure(k, n), a, t), t, b)
        BY <1>2, <1>3, <3>1, WatchedSplits
      <3>5. \E m \in Unsure : Watched(Sure(Other(k), 0), t, b) = Sure(Other(k), m)
        BY <1>2, <1>5, <3>1, LateWatched
      <3>6. b <= N + Threshold + Stride
        BY <1>2, <2>0, <3>1
      <3> HIDE DEF c
      <3> QED
        BY <1>5, <3>1, <3>3, <3>4, <3>5, <3>6 DEF Decided, c
    <2> QED
      BY <1>2, <2>1, <2>3, <2>4, <2>5
  <1> QED
    BY <1>2, <1>4, <1>5

\* What a batch of the fine search that ends at b shows.
NotYet(c, k, N, b) ==
    0 < N /\ b <= N + Threshold /\ c = Sure(k, IF b <= N THEN 0 ELSE b - N)

Now(c, k, N, b) == N < b /\ c = Sure(Other(k), 0)

\* The first batch after a jump with the judgement that holds behind the change:
\* it has pictures enough to turn it.
LEMMA FirstBatch ==
    ASSUME Known, NEW k, NEW p, NEW N, Turn(recording, k, p, N), NEW n \in Unsure,
           NEW a \in Nat, p <= a, NEW b \in 0..Length, b = a + CheckFrames,
           N < Length => b <= N + Stride
    PROVE  LET c == Watched(Sure(Other(k), n), a, b) IN NotYet(c, k, N, b) \/ Now(c, k, N, b)
  <1> DEFINE c == Watched(Sure(Other(k), n), a, b)
  <1>0. /\ k \in Kinds /\ N \in Nat /\ p \in Nat /\ b \in Nat /\ n \in Nat
        /\ Threshold \in Nat /\ CheckFrames \in Nat /\ Threshold + 1 <= CheckFrames
        /\ Other(Other(k)) = k /\ a < b /\ a <= b
    BY Distances, UnsureFacts, KindFacts DEF Turn
  <1>1. /\ b <= N => c = Turning(Other(k), n + (b - a))
        /\ a < N /\ N < b => c = IF n + (N - a) <= Threshold THEN Sure(Other(k), 0)
                                 ELSE Turning(k, b - N)
        /\ N <= a /\ a < b => c = Sure(Other(k), 0)
    BY <1>0, WrongWatched
  <1> HIDE DEF c
  <1>2. CASE b <= N
    <2>1. ~(n + (b - a) <= Threshold) /\ 0 < N /\ b <= N + Threshold
      BY <1>0, <1>2
    <2>2. c = Sure(k, 0)
      BY <1>0, <1>1, <1>2, <2>1 DEF Turning
    <2> QED
      BY <1>2, <2>1, <2>2 DEF NotYet, c
  <1>3. CASE N <= a
    BY <1>0, <1>1, <1>3 DEF Now, c
  <1>4. CASE a < N /\ N < b
    <2>1. CASE n + (N - a) <= Threshold
      BY <1>1, <1>4, <2>1 DEF Now, c
    <2>2. CASE ~(n + (N - a) <= Threshold)
      <3>1. c = Turning(k, b - N)
        BY <1>1, <1>4, <2>2
      <3>2. CASE b - N <= Threshold
        <4>1. 0 < N /\ b <= N + Threshold /\ ~(b <= N)
          BY <1>0, <1>4, <3>2
        <4> QED
          BY <3>1, <3>2, <4>1 DEF Turning, NotYet, c
      <3>3. CASE ~(b - N <= Threshold)
        BY <1>4, <3>1, <3>3 DEF Turning, Now, c
      <3> QED
        BY <3>2, <3>3
    <2> QED
      BY <2>1, <2>2
  <1> QED
    BY <1>0, <1>2, <1>3, <1>4 DEF c

\* The batches that follow it.
LEMMA LaterBatch ==
    ASSUME Known, NEW k, NEW p, NEW N, Turn(recording, k, p, N), 0 < N,
           NEW a \in Nat, p <= a, NEW b \in 0..Length, b = a + CheckFrames,
           N < Length => b <= N + Stride,
           NEW n \in Unsure, n = IF a <= N THEN 0 ELSE a - N
    PROVE  LET c == Watched(Sure(k, n), a, b) IN NotYet(c, k, N, b) \/ Now(c, k, N, b)
  <1> DEFINE c == Watched(Sure(k, n), a, b)
  <1>0. /\ N \in Nat /\ b \in Nat /\ a < b /\ a <= b /\ Threshold \in Nat
    BY Distances DEF Turn
  <1>1. /\ b <= N => c = Sure(k, IF a < b THEN 0 ELSE n)
        /\ N < b /\ a <= N => c = Turning(k, (IF a < N THEN 0 ELSE n) + (b - N))
        /\ N < a => c = Turning(k, n + (b - a))
    BY <1>0, TurnWatched
  <1> HIDE DEF c
  <1>2. CASE b <= N
    <2>1. b <= N + Threshold
      BY <1>0, <1>2
    <2> QED
      BY <1>0, <1>1, <1>2, <2>1 DEF NotYet, c
  <1>3. CASE N < b
    <2>1. c = Turning(k, b - N)
      <3>1. CASE a <= N
        <4>1. (IF a < N THEN 0 ELSE n) + (b - N) = b - N
          BY <1>0, <3>1
        <4> QED
          BY <1>1, <1>3, <3>1, <4>1
      <3>2. CASE N < a
        <4>1. n + (b - a) = b - N
          BY <1>0, <3>2
        <4> QED
          BY <1>1, <3>2, <4>1
      <3> QED
        BY <1>0, <3>1, <3>2
    <2>2. CASE b - N <= Threshold
      <3>1. b <= N + Threshold /\ ~(b <= N)
        BY <1>0, <1>3, <2>2
      <3> QED
        BY <2>1, <2>2, <3>1 DEF Turning, NotYet, c
    <2>3. CASE ~(b - N <= Threshold)
      BY <1>3, <2>1, <2>3 DEF Turning, Now, c
    <2> QED
      BY <2>2, <2>3
  <1> QED
    BY <1>0, <1>2, <1>3 DEF c

-----------------------------------------------------------------------------
(***************************************************************************)
(* The inductive invariant for a steady recording: up to stopFrame the     *)
(* changes have their marks, k is the kind before stopFrame and N the next *)
(* change, which no search passes unseen.                                  *)
(***************************************************************************)
MarksAt(D) ==
    /\ IsFiniteSet(marks) /\ Cardinality(marks) = Cardinality(D)
    /\ \A f \in D : \E m \in marks : Near(m, f)
    /\ \A m \in marks : \E f \in D : Near(m, f)
    /\ \A f \in D : \A m, o \in marks : Near(m, f) /\ Near(o, f) => m = o

\* The break that goes on at p is short enough not to give up.
InTime(N, p) ==
    N = 0 \/ (IF N < Length THEN N ELSE Length - 1) - p <= SearchBreak - Stride

Here(N, k) ==
    /\ stopFrame \in 0..Length
    /\ MarksAt(Past(recording, stopFrame))
    /\ k = "none" => InTime(N, stopFrame)

\* The judgement detectLogo leaves, when nothing has been scanned.
AtFirst == stopFrame = 0 /\ cur = 0 /\ \E n \in Unsure : check = Sure("logo", n)

AtScan(N, k) ==
    IF state = -1 THEN MarksAt(ChangesOf(recording))
    ELSE /\ Here(N, k) /\ cur = stopFrame /\ state = Num(k)
         /\ check = Sure(k, 0) \/ AtFirst

\* How far the search goes.
Reach(k) ==
    /\ cur \in Nat /\ stopFrame <= cur /\ cur < last /\ cur < call.end
    /\ k = "none" => stopFrame + SearchBreak <= call.end
    /\ k = "logo" => call.end = last

\* A batch that begins at w does not pass the change unseen.
Knows(N, k, w) ==
    \E n \in Unsure : /\ check = Sure(k, n)
                      /\ N = Length => n = 0
                      /\ N < Length => /\ w < N => n = 0
                                       /\ w + CheckFrames <= N + n + Stride

CoarseOn(N, k) ==
    /\ call.ignore = IgnoreFrames
    /\ cur = -1 => N = Length
    /\ cur # -1 => Reach(k) /\ (AtFirst \/ Knows(N, k, cur + IgnoreFrames))

CoarseEnd(N, k) ==
    \/ N = Length /\ call.result = -1
    \/ /\ N = Length /\ call.result = oldState /\ check = Sure(k, 0)
       /\ cur \in Nat /\ stopFrame <= cur /\ cur <= last
    \/ /\ N < Length /\ call.result = Num(Other(k))
       /\ cur \in Nat /\ N < cur /\ cur <= N + Threshold + Stride
       /\ \E n \in Unsure : check = Sure(Other(k), n)

AtCoarse(N, k) ==
    /\ Here(N, k) /\ oldState = Num(k) /\ state = Num(k) /\ call.state = Num(k)
    /\ call.skip = BigStep /\ call.stable = 0
    /\ IF call.running THEN CoarseOn(N, k) ELSE CoarseEnd(N, k)

FirstOn(N, k) ==
    /\ call.ignore = IgnoreFrames /\ lastIFrame = cur /\ cur \in IFrames
    /\ cur <= N + Threshold + Gop
    /\ \E n \in Unsure : check = Sure(Other(k), n)

LaterOn(N, k) ==
    /\ call.ignore = 0 /\ 0 < N /\ 0 < cur /\ cur <= N + Threshold
    /\ lastIFrame = Preceding[cur]
    /\ check = Sure(k, IF cur <= N THEN 0 ELSE cur - N)

FineEnd(N, k) ==
    /\ call.result = Num(Other(k))
    /\ cur \in Nat /\ N < cur /\ cur <= N + Delay
    /\ Near(lastIFrame, N) /\ check = Sure(Other(k), 0)

AtFine(N, k) ==
    /\ Here(N, k) /\ N < Length
    /\ oldState = Num(k) /\ call.state = Num(k)
    /\ call.skip = 1 /\ call.stable = (IF k = "none" THEN StableTime ELSE 0)
    /\ IF call.running THEN Reach(k) /\ (FirstOn(N, k) \/ LaterOn(N, k)) ELSE FineEnd(N, k)

\* All is done as it should be.
Marked ==
    /\ \A f \in ChangesOf(recording) : Cardinality({m \in marks : Near(m, f)}) = 1
    /\ \A m \in marks :
          \/ \E f \in ChangesOf(recording) : Near(m, f)
          \/ m = PrevIFrame(last) /\ Cardinality(ChangesOf(recording)) % 2 = 1

At(N, k) ==
    /\ at = "scan" => AtScan(N, k)
    /\ at = "coarse" => AtCoarse(N, k)
    /\ at = "fine" => AtFine(N, k)
    /\ at = "done" => Marked

OnCourse ==
    \E N, k : /\ N = NextOf(recording, stopFrame) /\ k = Before(recording, stopFrame)
              /\ At(N, k)

Steadily == IInv /\ recording \in Recording /\ SteadyOf(recording)

-----------------------------------------------------------------------------
(* The coarse search.                                                      *)

\* What is known of the change ahead while stopFrame is in the recording.
Facing(N, k) ==
    /\ N = NextOf(recording, stopFrame) /\ k = Before(recording, stopFrame)
    /\ stopFrame \in 0..Length /\ Turn(recording, k, stopFrame, N)

LEMMA AheadFacts ==
    ASSUME NEW N, NEW k, Facing(N, k)
    PROVE  /\ k \in Kinds /\ Other(k) \in Kinds /\ N \in Nat /\ stopFrame \in Nat
           /\ stopFrame <= N /\ N <= Length
           /\ N < Length =>
                 N + Staying(Other(k)) + BigStep + SafetyLimit <= Length - 1
           /\ N < Length => N + Stride + BigStep + SafetyLimit <= Length - 1
  <1>1. /\ k \in Kinds /\ N \in Nat /\ stopFrame \in Nat
        /\ stopFrame <= N /\ N <= Length
        /\ N < Length =>
              N + Staying(Other(k)) + BigStep + SafetyLimit <= Length - 1
    BY DEF Facing, Turn
  <1> DEFINE st == Staying(Other(k))
  <1>2. st \in Nat /\ st >= Stride
    BY KindFacts
  <1>3. N < Length => N + st + BigStep + SafetyLimit <= Length - 1
    BY <1>1
  <1> HIDE DEF st
  <1>4. N < Length => N + Stride + BigStep + SafetyLimit <= Length - 1
    BY <1>1, <1>2, <1>3, Distances
  <1> QED
    BY <1>1, <1>4, KindFacts

LEMMA AheadHolds ==
    ASSUME Steadily, NEW N, NEW k, N = NextOf(recording, stopFrame),
           k = Before(recording, stopFrame), stopFrame \in 0..Length
    PROVE  Facing(N, k)
  BY SteadyTurns DEF Facing, Steadily

\* The search does not end before it can see the change.
LEMMA ReachLemma ==
    ASSUME NEW N, NEW k, Facing(N, k), Here(N, k), Reach(k), last = Length - 1,
           call.end \in Int, N # 0,
           NEW c \in Nat, c < last, N < Length => c < N + Stride
    PROVE  c < call.end
  <1>1. /\ k \in Kinds /\ N \in Nat /\ stopFrame \in Nat /\ stopFrame <= N /\ N <= Length
    BY AheadFacts
  <1>2. CASE k = "logo"
    BY <1>2 DEF Reach
  <1>3. CASE k = "none"
    <2>1. stopFrame + SearchBreak <= call.end
      BY <1>3 DEF Reach
    <2>2. (IF N < Length THEN N ELSE Length - 1) - stopFrame <= SearchBreak - Stride
      BY <1>3 DEF Here, InTime
    <2>3. CASE N < Length
      BY <1>1, <2>1, <2>2, <2>3, Distances
    <2>4. CASE ~(N < Length)
      BY <1>1, <2>1, <2>2, <2>4, Distances
    <2> QED
      BY <2>3, <2>4
  <1> QED
    BY <1>1, <1>2, <1>3 DEF Kinds

\* What the batch of the coarse search shows.
LEMMA CoarseSeen ==
    ASSUME Steadily, at = "coarse", NEW N, NEW k, Facing(N, k), AtCoarse(N, k),
           call.running, cur # -1
    PROVE  /\ Undecided(Seen, k, N, To) \/ Decided(Seen, k, N, To)
           /\ To \in Nat /\ To <= last /\ cur < To /\ stopFrame <= To
           /\ N = 0 => ~Undecided(Seen, k, N, To)
  <1>1. Here(N, k) /\ CoarseOn(N, k)
    BY DEF AtCoarse
  <1>2. Reach(k) /\ (AtFirst \/ Knows(N, k, cur + IgnoreFrames)) /\ call.ignore = IgnoreFrames
    BY <1>1 DEF CoarseOn
  <1>3. /\ last = Length - 1 /\ cur \in Nat /\ stopFrame <= cur /\ cur < last
        /\ cur < call.end
    BY <1>2 DEF Steadily, IInv, Loop, Reach
  <1>4. IInv /\ Searching /\ Known
    BY <1>3, KnownHolds DEF Steadily, Searching, InRange
  <1>5. To \in Int /\ cur < To /\ To <= last
    BY <1>4, BatchLemma
  <1>6. /\ k \in Kinds /\ N \in Nat /\ stopFrame \in Nat /\ stopFrame <= N /\ N <= Length
        /\ N < Length => N + Stride + BigStep + SafetyLimit <= Length - 1
        /\ stopFrame \in 0..Length
        /\ N = NextOf(recording, stopFrame) /\ k = Before(recording, stopFrame)
        /\ Turn(recording, k, stopFrame, N)
    BY AheadFacts DEF Facing
  <1> DEFINE a == cur + IgnoreFrames
             b == To
  <1>7. a \in Nat /\ stopFrame <= a
    BY <1>3, <1>6, Distances
  <1>8. b = IF a + CheckFrames <= Length - 1 THEN a + CheckFrames ELSE Length - 1
    <2>1. a + CheckFrames \in Int /\ last \in Int
      BY <1>3, <1>7, Distances
    <2>2. To = Min({a + CheckFrames, last})
      BY <1>2, Zenon DEF To
    <2> HIDE DEF a
    <2> QED
      BY <1>3, <2>1, <2>2, LeastOfTwo
  <1>9. Seen = Watched(check, a, b)
    BY <1>2, Zenon DEF Seen
  <1>10. /\ b \in Nat /\ b <= Length - 1 /\ cur < b /\ stopFrame <= b /\ b <= last
         /\ b \in 0..Length
    BY <1>3, <1>5, <1>6, Distances
  <1> HIDE DEF a, b
  <1>11. Undecided(Seen, k, N, b) \/ Decided(Seen, k, N, b)
    <2>1. CASE Knows(N, k, a)
      <3>1. PICK n \in Unsure : /\ check = Sure(k, n)
                                /\ N = Length => n = 0
                                /\ N < Length => /\ a < N => n = 0
                                                 /\ a + CheckFrames <= N + n + Stride
        BY <2>1 DEF Knows
      <3>2. SteadyOf(recording)
        BY DEF Steadily
      <3> QED
        BY <1>4, <1>6, <1>7, <1>8, <1>9, <3>1, <3>2, CoarseBatch
    <2>2. CASE AtFirst
      <3>1. PICK n \in Unsure : check = Sure("logo", n)
        BY <2>2 DEF AtFirst
      <3>2. stopFrame = 0 /\ a = IgnoreFrames
        BY <2>2, Distances DEF AtFirst, a
      <3>3. k = "none" /\ Other(k) = "logo"
        BY <1>6, <3>2 DEF Before, Other
      <3>4. b = a + CheckFrames
        BY <1>8, <3>2, LengthFacts
      <3>5. N < Length => b <= N + Stride
        BY <1>6, <3>2, <3>4, Distances
      <3>6. NotYet(Seen, k, N, b) \/ Now(Seen, k, N, b)
        BY <1>4, <1>6, <1>7, <1>9, <1>10, <3>1, <3>3, <3>4, <3>5, FirstBatch
      <3>7. CASE NotYet(Seen, k, N, b)
        <4> DEFINE m == IF b <= N THEN 0 ELSE b - N
        <4>1. Seen = Sure(k, m) /\ b <= N + Threshold
          BY <3>7 DEF NotYet
        <4>2. /\ m \in Unsure /\ (N = Length => m = 0) /\ b <= N + m /\ (b <= N => m = 0)
          BY <1>6, <1>10, <4>1, UnsureFacts, Distances
        <4> HIDE DEF m
        <4> QED
          BY <4>1, <4>2 DEF Undecided
      <3>8. CASE Now(Seen, k, N, b)
        <4>1. N < b /\ Seen = Sure(Other(k), 0)
          BY <3>8 DEF Now
        <4>2. N < Length /\ b <= N + Threshold + Stride /\ 0 \in Unsure
          BY <1>6, <1>10, <3>5, <4>1, UnsureFacts, Distances
        <4> QED
          BY <4>1, <4>2 DEF Decided
      <3> QED
        BY <3>6, <3>7, <3>8
    <2> QED
      BY <1>2, <2>1, <2>2 DEF a
  <1>12. ASSUME N = 0, Undecided(Seen, k, N, b)
         PROVE  FALSE
    <2>1. PICK m \in Unsure : N < Length => b <= N + m
      BY <1>12 DEF Undecided
    <2>2. 0 < Length /\ m \in Nat /\ m <= Threshold
      BY UnsureFacts, LengthFacts
    <2>3. b <= Threshold
      BY <1>10, <1>12, <2>1, <2>2, Distances
    <2>4. Stride + BigStep + SafetyLimit <= Length - 1
      BY <1>6, <1>12, <2>2, Distances
    <2> QED
      BY <1>7, <1>8, <1>10, <2>3, <2>4, Distances
  <1> QED
    BY <1>3, <1>10, <1>11, <1>12 DEF b

\* The search goes on with the next batch or ends with the recording.
LEMMA CoarseGoesOn ==
    ASSUME Steadily, at = "coarse", NEW N, NEW k, Facing(N, k), AtCoarse(N, k),
           call.running, cur # -1, NoChange, UNCHANGED svars,
           Undecided(Seen, k, N, To)
    PROVE  AtCoarse(N, k)'
  <1>1. Here(N, k) /\ Reach(k) /\ call.skip = BigStep /\ call.state = Num(k)
    BY DEF AtCoarse, CoarseOn
  <1>2. /\ To \in Nat /\ To <= last /\ cur < To /\ stopFrame <= To /\ N # 0
    BY CoarseSeen
  <1>3. /\ k \in Kinds /\ N \in Nat /\ stopFrame \in Nat /\ stopFrame <= N /\ N <= Length
        /\ N < Length => N + Stride + BigStep + SafetyLimit <= Length - 1
    BY AheadFacts
  <1>4. /\ last = Length - 1 /\ call.running = TRUE
        /\ call \in [running : BOOLEAN, state : Int, skip : Nat \ {0}, stable : Nat,
                     end : Int, ignore : Nat, result : Int]
    BY DEF Steadily, IInv, Loop
  <1>5. PICK m \in Unsure : /\ Seen = Sure(k, m)
                            /\ N = Length => m = 0
                            /\ N < Length => To <= N + m /\ (To <= N => m = 0)
    BY DEF Undecided
  <1>6. m \in Nat /\ m <= Threshold
    BY UnsureFacts
  <1>7. check' = Sure(k, m) /\ GoOn(To) /\ recording' = recording /\ last' = last
    BY <1>5 DEF NoChange
  <1>8. Here(N, k)'
    BY <1>1, <1>7 DEF Here, MarksAt, svars
  <1>9. /\ oldState' = Num(k) /\ state' = Num(k) /\ stopFrame' = stopFrame
        /\ oldState = Num(k)
    BY DEF AtCoarse, svars
  <1> DEFINE b == To
  <1>10. /\ b \in Nat /\ b <= last /\ stopFrame <= b /\ GoOn(b)
         /\ N < Length => b <= N + m /\ (b <= N => m = 0)
    BY <1>2, <1>5, <1>7
  <1>11. call.stable = 0 /\ call.ignore = IgnoreFrames
    BY DEF AtCoarse, CoarseOn
  <1> HIDE DEF b
  <1>12. CASE b + call.skip >= last /\ Return(call.state) /\ cur' = b
    <2>1. N = Length
      BY <1>1, <1>3, <1>4, <1>6, <1>10, <1>12, Distances
    <2>2. call' = [call EXCEPT !.running = FALSE, !.result = call.state]
      BY <1>12 DEF Return
    <2>3. /\ call'.running = FALSE /\ call'.result = Num(k) /\ call'.state = Num(k)
          /\ call'.skip = BigStep /\ call'.stable = 0
      BY <1>1, <1>4, <1>11, <2>2
    <2>4. check' = Sure(k, 0)
      BY <1>5, <1>7, <2>1
    <2>5. CoarseEnd(N, k)'
      BY <1>7, <1>9, <1>10, <1>12, <2>1, <2>3, <2>4 DEF CoarseEnd
    <2> QED
      BY <1>8, <1>9, <2>3, <2>5 DEF AtCoarse
  <1>13. CASE /\ b + call.skip < last /\ call.skip > 1
              /\ cur' = NextIFrame(b + call.skip)
              /\ call' = [call EXCEPT !.ignore = IgnoreFrames]
    <2>1. /\ call'.running = TRUE /\ call'.state = Num(k) /\ call'.end = call.end
          /\ call'.skip = BigStep /\ call'.stable = 0 /\ call'.ignore = IgnoreFrames
      BY <1>1, <1>4, <1>11, <1>13, Distances
    <2>2. cur' = NextIFrame(b + BigStep) /\ b + BigStep \in Nat
      BY <1>1, <1>10, <1>13, Distances
    <2> DEFINE x == NextIFrame(b + BigStep)
    <2>3. x = -1 \/ (x \in IFrames /\ b + BigStep < x /\ x < last)
      BY <1>4, <2>2, NextIFrameLemma
    <2>4. N < Length => x \in IFrames /\ b + BigStep < x /\ x <= b + BigStep + Gop
      <3> SUFFICES ASSUME N < Length
                   PROVE  x \in IFrames /\ b + BigStep < x /\ x <= b + BigStep + Gop
        OBVIOUS
      <3>1. b + BigStep + Gop < last - SafetyLimit
        BY <1>3, <1>4, <1>6, <1>10, Distances
      <3> QED
        BY <1>4, <2>2, <3>1, NextIFrameNear
    <2> HIDE DEF x
    <2>5. x # -1 => x \in Nat /\ b + BigStep < x /\ x < last
      BY <2>3, FramesAreNumbers
    <2>6. x = -1 => N = Length
      <3> SUFFICES ASSUME x = -1, N # Length
                   PROVE  FALSE
        OBVIOUS
      <3>1. N < Length
        BY <1>3, Distances
      <3>2. x \in Nat
        BY <2>4, <3>1, FramesAreNumbers
      <3> QED
        BY <3>2
    <2>7. ASSUME x # -1
          PROVE  Reach(k)' /\ Knows(N, k, cur + IgnoreFrames)'
      <3>1. x \in Nat /\ stopFrame <= x /\ x < last /\ b <= x
        BY <1>3, <1>10, <2>5, <2>7, Distances
      <3>2. N < Length => x <= b + BigStep + Gop
        BY <2>4
      <3>3. N < Length => x < N + Stride
        BY <1>3, <1>6, <1>10, <3>1, <3>2, Distances
      <3>4. x < call.end
        <4>1. call.end \in Int
          BY <1>4
        <4> QED
          BY <1>1, <1>2, <1>4, <3>1, <3>3, <4>1, ReachLemma
      <3>5. Reach(k)'
        <4>1. /\ cur' = x /\ stopFrame' = stopFrame /\ last' = last /\ call'.end = call.end
          BY <1>7, <1>9, <2>1, <2>2 DEF x
        <4>2. /\ k = "none" => stopFrame + SearchBreak <= call.end
              /\ k = "logo" => call.end = last
          BY <1>1 DEF Reach
        <4> QED
          BY <3>1, <3>4, <4>1, <4>2 DEF Reach
      <3>6. N < Length => /\ x + IgnoreFrames < N => m = 0
                          /\ x + IgnoreFrames + CheckFrames <= N + m + Stride
        BY <1>3, <1>6, <1>10, <3>1, <3>2, Distances
      <3>7. Knows(N, k, cur + IgnoreFrames)'
        <4>1. cur' + IgnoreFrames = x + IgnoreFrames
          BY <2>2 DEF x
        <4> QED
          BY <1>5, <1>7, <3>6, <4>1 DEF Knows
      <3> QED
        BY <3>5, <3>7
    <2>8. CoarseOn(N, k)'
      BY <2>1, <2>2, <2>6, <2>7 DEF CoarseOn, x
    <2> QED
      BY <1>8, <1>9, <2>1, <2>8 DEF AtCoarse
  <1>14. ~(call.skip <= 1)
    BY <1>1, Distances
  <1> QED
    BY <1>10, <1>12, <1>13, <1>14 DEF GoOn

LEMMA CoarseSearches ==
    ASSUME Steadily, at = "coarse", NEW N, NEW k, Facing(N, k), AtCoarse(N, k), Search
    PROVE  AtCoarse(N, k)'
  <1>1. SearchStep /\ UNCHANGED svars
    BY DEF Search
  <1>2. /\ k \in Kinds /\ Other(k) \in Kinds /\ call.state = Num(k) /\ call.stable = 0
        /\ call.skip = BigStep /\ Here(N, k) /\ oldState = Num(k) /\ state = Num(k)
    BY AheadFacts DEF AtCoarse
  <1>3. call.running
    BY <1>1 DEF SearchStep, NoChange, ChangeFound, StableChange, UnstableChange, GiveUp
  <1>4. CoarseOn(N, k)
    BY <1>3 DEF AtCoarse
  <1>5. /\ last = Length - 1 /\ call.running = TRUE /\ call.end \in Int
        /\ call \in [running : BOOLEAN, state : Int, skip : Nat \ {0}, stable : Nat,
                     end : Int, ignore : Nat, result : Int]
    BY <1>3 DEF Steadily, IInv, Loop
  <1>6. oldState' = Num(k) /\ state' = Num(k) /\ stopFrame' = stopFrame /\ marks' = marks
    BY <1>1, <1>2 DEF svars
  <1>7. /\ Num(k) # Num(Other(k))
        /\ \A m \in Unsure : Bit(Sure(k, m).isLogo) = Num(k)
        /\ \A m \in Unsure : Bit(Sure(Other(k), m).isLogo) = Num(Other(k))
    BY <1>2, SureFacts, UnsureFacts
  <1>8. CASE cur = -1
    <2>1. N = Length /\ ~InRange /\ call.end > -1
      <3>1. call.end > -1
        BY DEF Steadily, IInv, Within
      <3> QED
        BY <1>4, <1>8, <3>1 DEF CoarseOn, InRange
    <2>2. GiveUp /\ ~(cur >= call.end)
      <3>1. ~(cur >= call.end)
        BY <1>5, <1>8, <2>1
      <3> QED
        BY <1>1, <2>1, <3>1 DEF SearchStep, NoChange, ChangeFound, StableChange, UnstableChange
    <2>3. call' = [call EXCEPT !.running = FALSE, !.result = -1]
      BY <2>2 DEF GiveUp, Return
    <2>4. /\ call'.running = FALSE /\ call'.result = -1 /\ call'.state = Num(k)
          /\ call'.skip = BigStep /\ call'.stable = 0
      BY <1>2, <1>5, <2>3
    <2>5. recording' = recording
      BY <2>2 DEF GiveUp
    <2>6. Here(N, k)'
      BY <1>2, <1>6, <2>5 DEF Here, MarksAt
    <2> QED
      BY <1>6, <2>1, <2>4, <2>6 DEF AtCoarse, CoarseEnd
  <1>9. CASE cur # -1
    <2>1. Reach(k) /\ InRange
      BY <1>4, <1>9 DEF CoarseOn, Reach, InRange
    <2>2. /\ Undecided(Seen, k, N, To) \/ Decided(Seen, k, N, To)
          /\ To \in Nat /\ To <= last /\ stopFrame <= To
      BY <1>3, <1>9, CoarseSeen
    <2>3. CASE Undecided(Seen, k, N, To)
      <3>1. PICK m \in Unsure : Seen = Sure(k, m)
        BY <2>3 DEF Undecided
      <3>2. ~Changed
        BY <1>2, <1>7, <3>1 DEF Changed
      <3>3. NoChange
        BY <1>1, <2>1, <3>2 DEF SearchStep, ChangeFound, StableChange, UnstableChange, GiveUp
      <3> QED
        BY <1>1, <1>3, <1>9, <2>3, <3>3, CoarseGoesOn
    <2>4. CASE Decided(Seen, k, N, To)
      <3>1. PICK m \in Unsure : Seen = Sure(Other(k), m)
        BY <2>4 DEF Decided
      <3>2. Bit(Seen.isLogo) = Num(Other(k)) /\ Changed
        BY <1>2, <1>7, <3>1 DEF Changed
      <3>3. ChangeFound
        BY <1>1, <1>2, <2>1, <3>2
           DEF SearchStep, NoChange, StableChange, UnstableChange, GiveUp
      <3>4. /\ call' = [call EXCEPT !.running = FALSE, !.result = Num(Other(k))]
            /\ check' = Sure(Other(k), m) /\ cur' = To /\ recording' = recording
        BY <3>1, <3>2, <3>3 DEF ChangeFound, Return
      <3>5. /\ call'.running = FALSE /\ call'.result = Num(Other(k)) /\ call'.state = Num(k)
            /\ call'.skip = BigStep /\ call'.stable = 0
        BY <1>2, <1>5, <3>4
      <3>6. Here(N, k)'
        BY <1>2, <1>6, <3>4 DEF Here, MarksAt
      <3>7. N < Length /\ N < cur' /\ cur' <= N + Threshold + Stride /\ cur' \in Nat
        BY <2>2, <2>4, <3>4 DEF Decided
      <3>8. CoarseEnd(N, k)'
        BY <3>4, <3>5, <3>7 DEF CoarseEnd
      <3> QED
        BY <1>6, <3>5, <3>6, <3>8 DEF AtCoarse
    <2> QED
      BY <2>2, <2>3, <2>4
  <1> QED
    BY <1>8, <1>9

-----------------------------------------------------------------------------
(* The fine search.                                                        *)

\* What the batch of the fine search shows, and the I-frame before its end.
LEMMA FineSeen ==
    ASSUME Steadily, at = "fine", NEW N, NEW k, Facing(N, k), AtFine(N, k), call.running
    PROVE  /\ NotYet(Seen, k, N, To) \/ Now(Seen, k, N, To)
           /\ To \in Nat /\ 0 < To /\ To <= last /\ stopFrame <= To /\ To <= N + Delay
           /\ Passed = Preceding[To]
           /\ N < To => Near(Passed, N)
  <1>1. /\ Here(N, k) /\ N < Length /\ Reach(k)
        /\ FirstOn(N, k) \/ LaterOn(N, k)
    BY DEF AtFine
  <1>2. /\ last = Length - 1 /\ cur \in Nat /\ stopFrame <= cur /\ cur < last
        /\ cur < call.end
    BY <1>1 DEF Steadily, IInv, Loop, Reach
  <1>3. IInv /\ Searching /\ Known
    BY <1>2, KnownHolds DEF Steadily, Searching, InRange
  <1>4. To \in Int /\ cur < To /\ To <= last
    BY <1>3, BatchLemma
  <1>5. /\ k \in Kinds /\ N \in Nat /\ stopFrame \in Nat /\ stopFrame <= N
        /\ N + Stride + BigStep + SafetyLimit <= Length - 1
        /\ Turn(recording, k, stopFrame, N)
    BY <1>1, AheadFacts DEF Facing
  <1> DEFINE a == cur + call.ignore
             b == To
  <1>6. /\ a \in Nat /\ stopFrame <= a /\ a + CheckFrames <= N + Delay
    <2>1. call.ignore \in {0, IgnoreFrames} /\ (LaterOn(N, k) => call.ignore = 0)
      BY <1>1 DEF FirstOn, LaterOn
    <2>2. call.ignore \in Nat
      BY <2>1, Distances
    <2>3. CASE FirstOn(N, k)
      <3>1. call.ignore = IgnoreFrames /\ cur <= N + Threshold + Gop
        BY <2>3 DEF FirstOn
      <3> QED
        BY <1>2, <1>5, <3>1, Distances
    <2>4. CASE LaterOn(N, k)
      <3>1. call.ignore = 0 /\ cur <= N + Threshold
        BY <2>4 DEF LaterOn
      <3> QED
        BY <1>2, <1>5, <3>1, Distances
    <2> QED
      BY <1>1, <2>3, <2>4
  <1>7. b = a + CheckFrames
    <2>1. a + CheckFrames \in Int /\ last \in Int /\ a + CheckFrames <= last
      BY <1>2, <1>5, <1>6, Distances
    <2>2. To = Min({a + CheckFrames, last})
      BY Zenon DEF To
    <2> HIDE DEF a
    <2> QED
      BY <2>1, <2>2, LeastOfTwo
  <1>8. Seen = Watched(check, a, b)
    BY Zenon DEF Seen
  <1>9. /\ b \in Nat /\ 0 < b /\ b <= last /\ stopFrame <= b /\ b <= N + Delay
        /\ b \in 0..Length /\ cur < b /\ b <= N + Stride /\ b \in 1..(Length - 1)
    BY <1>2, <1>4, <1>5, <1>6, <1>7, Distances
  <1>10. IFrameAt(b - 1) = Preceding[b]
    <2>1. b - 1 + 1 = b
      BY <1>9
    <2> QED
      BY <2>1 DEF IFrameAt
  <1>11. Passed = IF Preceding[b] >= cur THEN Preceding[b] ELSE lastIFrame
    BY <1>10 DEF Passed
  <1> HIDE DEF a, b
  <1>12. /\ Preceding[b] \in IFrames /\ Preceding[b] < b /\ b - Gop <= Preceding[b]
         /\ Preceding[b] \in Nat
         /\ \A i \in IFrames : i < b => i <= Preceding[b]
    <2>1. b \in -1..Length
      BY <1>9
    <2> QED
      BY <1>9, <2>1, PrecedingNear, PrecedingLemma, FramesAreNumbers
  <1>13. N < b => Near(Preceding[b], N)
    BY <1>5, <1>9, <1>12, Distances DEF Near
  <1>14. CASE FirstOn(N, k)
    <2>1. PICK n \in Unsure : check = Sure(Other(k), n)
      BY <1>14 DEF FirstOn
    <2>2. NotYet(Seen, k, N, b) \/ Now(Seen, k, N, b)
      BY <1>3, <1>5, <1>6, <1>7, <1>8, <1>9, <2>1, FirstBatch DEF a
    <2>3. Passed = Preceding[b]
      <3>1. cur <= Preceding[b]
        BY <1>9, <1>12, <1>14 DEF FirstOn
      <3>2. Preceding[b] >= cur
        BY <1>2, <1>12, <3>1
      <3> QED
        BY <1>11, <3>2
    <2> QED
      BY <1>9, <1>13, <2>2, <2>3 DEF b
  <1>15. CASE LaterOn(N, k)
    <2> DEFINE n == IF cur <= N THEN 0 ELSE cur - N
    <2>1. /\ check = Sure(k, n) /\ 0 < N /\ 0 < cur /\ cur <= N + Threshold
          /\ lastIFrame = Preceding[cur] /\ a = cur
      <3>1. call.ignore = 0
        BY <1>15 DEF LaterOn
      <3> QED
        BY <1>2, <1>15, <3>1 DEF LaterOn, a
    <2>2. n \in Unsure /\ n = IF a <= N THEN 0 ELSE a - N
      BY <1>2, <1>5, <2>1, UnsureFacts, Distances
    <2> HIDE DEF n
    <2>3. NotYet(Seen, k, N, b) \/ Now(Seen, k, N, b)
      BY <1>3, <1>5, <1>6, <1>7, <1>8, <1>9, <2>1, <2>2, LaterBatch DEF a
    <2>4. Passed = Preceding[b]
      <3>1. CASE Preceding[b] >= cur
        BY <1>11, <3>1
      <3>2. CASE ~(Preceding[b] >= cur)
        <4>1. cur \in 1..(Length - 1) /\ cur \in -1..Length
          <5>1. 0 < cur /\ Length \in Nat
            BY <2>1, LengthFacts
          <5> QED
            BY <1>2, <5>1
        <4>2. /\ Preceding[cur] \in IFrames /\ Preceding[cur] < cur
              /\ \A i \in IFrames : i < cur => i <= Preceding[cur]
          BY <4>1, PrecedingNear, PrecedingLemma
        <4>3. Preceding[cur] \in Nat
          BY <4>2, FramesAreNumbers
        <4>4. Preceding[b] < cur /\ Preceding[cur] < b
          BY <1>2, <1>9, <1>12, <3>2, <4>2, <4>3
        <4>5. Preceding[b] <= Preceding[cur] /\ Preceding[cur] <= Preceding[b]
          BY <1>12, <4>2, <4>4
        <4> QED
          BY <1>11, <1>12, <2>1, <3>2, <4>3, <4>5
      <3> QED
        BY <3>1, <3>2
    <2> QED
      BY <1>9, <1>13, <2>3, <2>4 DEF b
  <1> QED
    BY <1>1, <1>14, <1>15

\* The change has not been seen yet.
LEMMA FineGoesOn ==
    ASSUME Steadily, at = "fine", NEW N, NEW k, Facing(N, k), AtFine(N, k), call.running,
           NoChange, UNCHANGED svars, NotYet(Seen, k, N, To)
    PROVE  AtFine(N, k)'
  <1>1. /\ Here(N, k) /\ N < Length /\ Reach(k) /\ call.skip = 1 /\ call.state = Num(k)
        /\ call.stable = IF k = "none" THEN StableTime ELSE 0
    BY DEF AtFine
  <1>2. /\ To \in Nat /\ 0 < To /\ To <= last /\ stopFrame <= To /\ Passed = Preceding[To]
    BY FineSeen
  <1>3. /\ k \in Kinds /\ N \in Nat /\ stopFrame \in Nat /\ stopFrame <= N
        /\ N + Stride + BigStep + SafetyLimit <= Length - 1
    BY <1>1, AheadFacts
  <1>4. /\ last = Length - 1 /\ call.running = TRUE /\ call.end \in Int
        /\ call \in [running : BOOLEAN, state : Int, skip : Nat \ {0}, stable : Nat,
                     end : Int, ignore : Nat, result : Int]
    BY DEF Steadily, IInv, Loop
  <1> DEFINE b == To
  <1>5. /\ 0 < N /\ b <= N + Threshold /\ Seen = Sure(k, IF b <= N THEN 0 ELSE b - N)
        /\ b \in Nat /\ 0 < b /\ b <= last /\ stopFrame <= b /\ Passed = Preceding[b]
    BY <1>2 DEF NotYet
  <1>6. check' = Seen /\ GoOn(b) /\ recording' = recording /\ last' = last
    BY DEF NoChange
  <1>7. Here(N, k)'
    BY <1>1, <1>6 DEF Here, MarksAt, svars
  <1>8. oldState' = Num(k) /\ stopFrame' = stopFrame
    BY DEF AtFine, svars
  <1> HIDE DEF b
  <1>9. b + 1 < last /\ b < N + Stride
    BY <1>3, <1>4, <1>5, Distances
  <1>10. cur' = b /\ lastIFrame' = Passed /\ call' = [call EXCEPT !.ignore = 0]
    <2>1. ~(b + 1 >= last)
      BY <1>4, <1>5, <1>9, LengthFacts
    <2>2. ~(1 > 1)
      OBVIOUS
    <2> QED
      BY <1>1, <1>6, <2>1, <2>2 DEF GoOn
  <1>11. /\ call'.running = TRUE /\ call'.state = Num(k) /\ call'.end = call.end
         /\ call'.skip = 1 /\ call'.ignore = 0
         /\ call'.stable = IF k = "none" THEN StableTime ELSE 0
    BY <1>1, <1>4, <1>10
  <1>12. b < last /\ b < call.end
    <2>1. b < last
      BY <1>4, <1>5, <1>9, LengthFacts
    <2>2. N # 0
      BY <1>5
    <2> QED
      BY <1>1, <1>4, <1>5, <1>9, <2>1, <2>2, ReachLemma
  <1>13. Reach(k)'
    <2>1. /\ k = "none" => stopFrame + SearchBreak <= call.end
          /\ k = "logo" => call.end = last
      BY <1>1 DEF Reach
    <2> QED
      BY <1>5, <1>6, <1>8, <1>10, <1>11, <1>12, <2>1 DEF Reach
  <1>14. LaterOn(N, k)'
    BY <1>5, <1>6, <1>10, <1>11 DEF LaterOn
  <1> QED
    BY <1>1, <1>7, <1>8, <1>11, <1>13, <1>14 DEF AtFine

\* The search ends with the batch that shows the change.
LEMMA FineFound ==
    ASSUME Steadily, at = "fine", NEW N, NEW k, Facing(N, k), AtFine(N, k), call.running,
           UNCHANGED svars, recording' = recording, Now(Seen, k, N, To),
           check' = Sure(Other(k), 0), cur' = To, lastIFrame' = Passed,
           call' = [call EXCEPT !.running = FALSE, !.result = Num(Other(k))]
    PROVE  AtFine(N, k)'
  <1>1. /\ Here(N, k) /\ N < Length /\ call.skip = 1 /\ call.state = Num(k)
        /\ call.stable = IF k = "none" THEN StableTime ELSE 0
    BY DEF AtFine
  <1>2. /\ To \in Nat /\ To <= N + Delay /\ N < To /\ Near(Passed, N)
    BY FineSeen DEF Now
  <1>3. /\ call \in [running : BOOLEAN, state : Int, skip : Nat \ {0}, stable : Nat,
                     end : Int, ignore : Nat, result : Int]
    BY DEF Steadily, IInv, Loop
  <1>4. Here(N, k)'
    BY <1>1 DEF Here, MarksAt, svars
  <1>5. oldState' = Num(k)
    BY DEF AtFine, svars
  <1>6. /\ call'.running = FALSE /\ call'.state = Num(k) /\ call'.result = Num(Other(k))
        /\ call'.skip = 1 /\ call'.stable = IF k = "none" THEN StableTime ELSE 0
    BY <1>1, <1>3
  <1>7. Near(lastIFrame', N)
    BY <1>2
  <1>8. FineEnd(N, k)'
    BY <1>2, <1>6, <1>7 DEF FineEnd, Near
  <1> QED
    BY <1>1, <1>4, <1>5, <1>6, <1>8 DEF AtFine

\* A logo that has just begun stays, so that checkLogoState finds nothing.
LEMMA StaysOn ==
    ASSUME Steadily, at = "fine", NEW N, NEW k, Facing(N, k), AtFine(N, k), call.running,
           k = "none", Now(Seen, k, N, To)
    PROVE  /\ Relapses = {}
           /\ Ahead # -1 => Watched(Seen, Ahead, AheadEnd) = Sure(Other(k), 0)
  <1>1. N < Length /\ call.stable = StableTime
    BY DEF AtFine
  <1>2. /\ To \in Nat /\ To <= N + Delay /\ To <= last /\ N < To /\ Seen = Sure(Other(k), 0)
    BY FineSeen DEF Now
  <1>3. /\ k \in Kinds /\ Other(k) \in Kinds /\ N \in Nat /\ Other(k) = "logo"
        /\ N + Staying(Other(k)) + BigStep + SafetyLimit <= Length - 1
        /\ Turn(recording, k, stopFrame, N)
    BY <1>1, AheadFacts DEF Facing, Other
  <1>4. Staying(Other(k)) = Stride + StableTime
    BY <1>3, KindFacts
  <1>5. last = Length - 1 /\ Known
    BY KnownHolds DEF Steadily, IInv, Loop
  <1>6. CASE Ahead = -1
    BY <1>6 DEF Relapses
  <1>7. CASE Ahead # -1
    <2>1. Ahead \in IFrames /\ To < Ahead /\ Ahead <= To + Gop
      <3>1. To + Gop < last - SafetyLimit
        BY <1>2, <1>3, <1>4, <1>5, Distances
      <3> QED
        BY <1>2, <1>5, <3>1, NextIFrameNear DEF Ahead
    <2>2. Ahead \in Nat
      BY <2>1, FramesAreNumbers
    <2> DEFINE x == Ahead
               e == AheadEnd
    <2>3. e = IF x + StableTime <= last THEN x + StableTime ELSE last
      <3>1. x + StableTime \in Int /\ last \in Int
        BY <1>5, <2>2, Distances
      <3>2. e = Min({x + StableTime, last})
        BY <1>1, Zenon DEF AheadEnd
      <3> HIDE DEF x, e
      <3> QED
        BY <3>1, <3>2, LeastOfTwo
    <2>4. x \in Nat /\ N < x /\ x <= N + Delay + Gop
      BY <1>2, <1>3, <2>1, <2>2, Distances
    <2> HIDE DEF x, e
    <2>5. /\ e \in Int /\ e <= Length - 1 /\ e <= N + Staying(Other(k)) /\ N <= x
          /\ x <= Length - 1
      BY <1>3, <1>4, <1>5, <2>3, <2>4, Distances
    <2>6. x <= e /\ e \in Nat
      BY <1>5, <2>3, <2>4, <2>5, Distances
    <2>7. ASSUME NEW f \in Nat, x <= f, f <= e
          PROVE  Watched(Seen, x, f) = Sure(Other(k), 0)
      <3>1. f <= N + Staying(Other(k)) /\ f \in 0..Length
        <4> DEFINE st == Staying(Other(k))
        <4>1. st \in Nat /\ e <= N + st
          BY <2>5, KindFacts
        <4> HIDE DEF st
        <4>2. f <= N + st /\ f \in 0..Length
          BY <1>3, <2>5, <2>6, <2>7, <4>1, LengthFacts
        <4> QED
          BY <4>2 DEF st
      <3>2. Run(x, f, Other(k))
        BY <1>1, <1>3, <2>4, <2>5, <3>1, TurnRuns
      <3>3. Watched(Sure(Other(k), 0), x, f) = Sure(Other(k), IF x < f THEN 0 ELSE 0)
        BY <1>3, <1>5, <2>4, <2>7, <3>1, <3>2, WatchedSame, UnsureFacts
      <3> QED
        BY <1>2, <3>3
    <2>8. ASSUME NEW f \in x..(e - 1)
          PROVE  Judged(Watched(Seen, x, f), Picture(f)).isLogo = Seen.isLogo
      <3>1. f \in Nat /\ x <= f /\ f <= e /\ f + 1 \in Nat
        BY <2>4, <2>6
      <3>2. Watched(Seen, x, f) = Sure(Other(k), 0)
        BY <2>7, <3>1
      <3>3. Run(x, e, Other(k))
        BY <1>1, <1>3, <2>4, <2>5, <2>6, TurnRuns
      <3>4. Picture(f) = Other(k)
        BY <3>3 DEF Run
      <3>5. Judged(Sure(Other(k), 0), Other(k)) = Sure(Other(k), 0)
        BY <1>3, JudgedSame, UnsureFacts
      <3> QED
        BY <1>2, <3>2, <3>4, <3>5
    <2>9. Relapses = {}
      <3>1. Relapses = {f \in x..(e - 1) :
                            Judged(Watched(Seen, x, f), Picture(f)).isLogo # Seen.isLogo}
        BY <1>7, Zenon DEF Relapses, x, e
      <3> QED
        BY <2>8, <3>1, Zenon
    <2>10. Watched(Seen, x, e) = Sure(Other(k), 0)
      BY <2>6, <2>7
    <2> QED
      BY <2>9, <2>10 DEF x, e
  <1> QED
    BY <1>6, <1>7

LEMMA FineSearches ==
    ASSUME Steadily, at = "fine", NEW N, NEW k, Facing(N, k), AtFine(N, k), Search
    PROVE  AtFine(N, k)'
  <1>1. SearchStep /\ UNCHANGED svars
    BY DEF Search
  <1>2. /\ k \in Kinds /\ Other(k) \in Kinds /\ call.state = Num(k)
        /\ call.stable = IF k = "none" THEN StableTime ELSE 0
        /\ k = "logo" \/ k = "none"
    BY AheadFacts DEF AtFine, Kinds
  <1>3. call.running
    BY <1>1 DEF SearchStep, NoChange, ChangeFound, StableChange, UnstableChange, GiveUp
  <1>4. InRange
    BY <1>3 DEF AtFine, Reach, InRange
  <1>5. /\ Num(k) # Num(Other(k))
        /\ \A m \in Unsure : Bit(Sure(k, m).isLogo) = Num(k)
        /\ \A m \in Unsure : Bit(Sure(Other(k), m).isLogo) = Num(Other(k))
    BY <1>2, SureFacts, UnsureFacts
  <1>6. NotYet(Seen, k, N, To) \/ Now(Seen, k, N, To)
    BY <1>3, FineSeen
  <1>7. CASE NotYet(Seen, k, N, To)
    <2> DEFINE m == IF To <= N THEN 0 ELSE To - N
    <2>1. Seen = Sure(k, m) /\ To <= N + Threshold
      BY <1>7 DEF NotYet
    <2>2. m \in Unsure
      <3>1. To \in Nat /\ N \in Nat
        BY <1>3, FineSeen, AheadFacts
      <3> QED
        BY <2>1, <3>1, UnsureFacts, Distances
    <2> HIDE DEF m
    <2>3. ~Changed
      BY <1>2, <1>5, <2>1, <2>2 DEF Changed
    <2>4. NoChange
      BY <1>1, <1>4, <2>3 DEF SearchStep, ChangeFound, StableChange, UnstableChange, GiveUp
    <2> QED
      BY <1>1, <1>3, <1>7, <2>4, FineGoesOn
  <1>8. CASE Now(Seen, k, N, To)
    <2>1. Seen = Sure(Other(k), 0) /\ 0 \in Unsure
      BY <1>8, UnsureFacts DEF Now
    <2>2. Bit(Seen.isLogo) = Num(Other(k)) /\ Changed
      BY <1>2, <1>5, <2>1 DEF Changed
    <2>3. CASE k = "logo"
      <3>1. call.stable = 0 /\ ~(0 > 0)
        BY <1>2, <2>3
      <3>2. ChangeFound
        BY <1>1, <1>4, <2>2, <3>1
           DEF SearchStep, NoChange, StableChange, UnstableChange, GiveUp
      <3>3. /\ call' = [call EXCEPT !.running = FALSE, !.result = Num(Other(k))]
            /\ check' = Sure(Other(k), 0) /\ cur' = To /\ lastIFrame' = Passed
            /\ recording' = recording
        BY <2>1, <2>2, <3>2 DEF ChangeFound, Return
      <3> QED
        BY <1>1, <1>3, <1>8, <3>3, FineFound
    <2>4. CASE k = "none"
      <3>1. /\ Relapses = {}
            /\ Ahead # -1 => Watched(Seen, Ahead, AheadEnd) = Sure(Other(k), 0)
        BY <1>3, <1>8, <2>4, StaysOn
      <3>2. call.stable # 0
        BY <1>2, <2>4, Distances
      <3>3. StableChange
        BY <1>1, <1>4, <2>2, <3>1, <3>2
           DEF SearchStep, NoChange, ChangeFound, UnstableChange, GiveUp
      <3>4. /\ call' = [call EXCEPT !.running = FALSE, !.result = Num(Other(k))]
            /\ check' = Sure(Other(k), 0) /\ cur' = To /\ lastIFrame' = Passed
            /\ recording' = recording
        BY <2>1, <2>2, <3>1, <3>3 DEF StableChange, Return
      <3> QED
        BY <1>1, <1>3, <1>8, <3>4, FineFound
    <2> QED
      BY <1>2, <2>3, <2>4
  <1> QED
    BY <1>6, <1>7, <1>8

-----------------------------------------------------------------------------
(* The loop of scanRecord in a steady recording.                           *)

\* A search that begins soon before the next change reaches an I-frame.
LEMMA IFrameForNear ==
    ASSUME Steadily, NEW N, NEW k, Facing(N, k), NEW f \in Nat, stopFrame <= f, f < last,
           N < Length => f <= N + Threshold
    PROVE  LET x == IFrameFor(f)
           IN  /\ x = -1 => N = Length
               /\ x # -1 => /\ x \in IFrames /\ x \in Nat /\ f <= x /\ x < last
                            /\ N < Length => x <= N + Threshold + Gop
                            /\ N < Length => x <= f + Gop
  <1> DEFINE x == IFrameFor(f)
  <1>1. last = Length - 1
    BY DEF Steadily, IInv, Loop
  <1>2. /\ N \in Nat /\ N <= Length
        /\ N < Length => N + Stride + BigStep + SafetyLimit <= Length - 1
    BY AheadFacts
  <1>3. CASE f \in IFrames
    <2>1. x = f
      BY <1>3 DEF IFrameFor
    <2> HIDE DEF x
    <2> QED
      BY <1>1, <1>2, <1>3, <2>1, Distances DEF x
  <1>4. CASE f \notin IFrames
    <2>1. x = NextIFrame(f)
      BY <1>4 DEF IFrameFor
    <2>2. x = -1 \/ (x \in IFrames /\ f < x /\ x < last)
      BY <1>1, <2>1, NextIFrameLemma
    <2>3. ASSUME N < Length
          PROVE  x \in IFrames /\ f < x /\ x <= f + Gop
      <3>1. f + Gop < last - SafetyLimit
        BY <1>1, <1>2, <2>3, Distances
      <3> QED
        BY <1>1, <2>1, <3>1, NextIFrameNear
    <2> HIDE DEF x
    <2>4. x # -1 => x \in Nat /\ f <= x
      BY <2>2, FramesAreNumbers
    <2>5. x = -1 => N = Length
      <3>1. -1 \notin IFrames
        BY FramesAreNumbers
      <3>2. x = -1 => ~(N < Length)
        BY <2>3, <3>1
      <3> QED
        BY <1>2, <3>2, Distances
    <2>6. N < Length => x <= N + Threshold + Gop /\ x <= f + Gop
      <3>1. N < Length => x \in Nat
        BY <2>3, FramesAreNumbers
      <3> QED
        BY <1>2, <2>3, <3>1, Distances
    <2> QED
      BY <2>2, <2>4, <2>5, <2>6 DEF x
  <1> QED
    BY <1>3, <1>4

LEMMA CoarseStarts ==
    ASSUME Steadily, NEW N, NEW k, Facing(N, k), AtScan(N, k), Coarse
    PROVE  AtCoarse(N, k)'
  <1>1. /\ at = "scan" /\ cur < last /\ 0 <= cur /\ state # -1
        /\ oldState' = state /\ startFrame' = cur /\ at' = "coarse"
        /\ FindLogoChange(state, cur, BigStep, 0)
        /\ UNCHANGED <<recording, last, check, state, stopFrame, restartFrame, marks>>
    BY DEF Coarse, Scanning
  <1>2. /\ Here(N, k) /\ cur = stopFrame /\ state = Num(k)
        /\ check = Sure(k, 0) \/ AtFirst
    BY <1>1 DEF AtScan
  <1>3. /\ k \in Kinds /\ N \in Nat /\ stopFrame \in Nat /\ stopFrame <= N /\ N <= Length
    BY AheadFacts
  <1>4. last = Length - 1 /\ last \in Nat
    BY LengthFacts DEF Steadily, IInv, Loop
  <1> DEFINE x == IFrameFor(stopFrame)
  <1>5. /\ x = -1 => N = Length
        /\ x # -1 => /\ x \in IFrames /\ x \in Nat /\ stopFrame <= x /\ x < last
                     /\ N < Length => x <= stopFrame + Gop
    <2>1. stopFrame <= N + Threshold /\ stopFrame < last
      BY <1>1, <1>2, <1>3, Distances
    <2> QED
      BY <1>3, <2>1, IFrameForNear
  <1>6. /\ cur' = x
        /\ call' = [running |-> TRUE, state |-> Num(k), skip |-> BigStep, stable |-> 0,
                    end |-> IF Num(k) = 0 THEN x + SearchBreak ELSE last,
                    ignore |-> IgnoreFrames, result |-> Num(k)]
    BY <1>1, <1>2, Zenon DEF FindLogoChange
  <1>7. Here(N, k)'
    BY <1>1, <1>2 DEF Here, MarksAt
  <1>8. AtFirst => x = 0
    BY LogoChangeAssumption DEF AtFirst, IFrameFor
  <1> HIDE DEF x
  <1>9. /\ call'.running = TRUE /\ call'.state = Num(k) /\ call'.skip = BigStep
        /\ call'.stable = 0 /\ call'.ignore = IgnoreFrames
        /\ call'.end = IF Num(k) = 0 THEN x + SearchBreak ELSE last
    BY <1>6
  <1>10. ASSUME x # -1
         PROVE  Reach(k)' /\ (AtFirst' \/ Knows(N, k, cur + IgnoreFrames)')
    <2>1. /\ k = "none" => call'.end = x + SearchBreak
          /\ k = "logo" => call'.end = last
          /\ k = "none" \/ k = "logo"
      BY <1>3, <1>9 DEF Num, Kinds
    <2>2. /\ x < call'.end
          /\ k = "none" => stopFrame + SearchBreak <= call'.end
          /\ k = "logo" => call'.end = last
      <3>1. SearchBreak > 0
        BY LogoChangeAssumption
      <3> QED
        BY <1>3, <1>4, <1>5, <1>10, <2>1, <3>1, Distances
    <2>3. Reach(k)'
      BY <1>1, <1>5, <1>6, <1>10, <2>2 DEF Reach
    <2>4. CASE AtFirst
      <3>1. PICK n \in Unsure : check = Sure("logo", n)
        BY <2>4 DEF AtFirst
      <3>2. stopFrame' = 0 /\ cur' = 0 /\ check' = Sure("logo", n)
        BY <1>1, <1>6, <1>8, <2>4, <3>1 DEF AtFirst
      <3> QED
        BY <2>3, <3>2 DEF AtFirst
    <2>5. CASE check = Sure(k, 0)
      <3>1. N < Length => x + IgnoreFrames + CheckFrames <= N + 0 + Stride
        BY <1>3, <1>5, <1>10, Distances
      <3>2. check' = Sure(k, 0) /\ 0 \in Unsure /\ cur' = x
        BY <1>1, <1>6, <2>5, UnsureFacts
      <3>3. cur' + IgnoreFrames = x + IgnoreFrames
        BY <3>2
      <3> DEFINE n == 0
      <3>4. /\ n \in Unsure /\ check' = Sure(k, n) /\ n = 0
            /\ N < Length => /\ x + IgnoreFrames < N => n = 0
                             /\ x + IgnoreFrames + CheckFrames <= N + n + Stride
        BY <3>1, <3>2
      <3> HIDE DEF n
      <3> QED
        BY <2>3, <3>3, <3>4 DEF Knows
    <2> QED
      BY <1>2, <2>3, <2>4, <2>5
  <1>11. CoarseOn(N, k)'
    BY <1>5, <1>6, <1>9, <1>10 DEF CoarseOn
  <1> QED
    BY <1>1, <1>2, <1>7, <1>9, <1>11 DEF AtCoarse

\* When there is no further change, all of them are past.
LEMMA PastAll ==
    ASSUME NEW r, NEW p \in 0..Length, NextOf(r, p) = Length, NEW q \in p..Length
    PROVE  /\ Past(r, p) = ChangesOf(r) /\ Past(r, q) = ChangesOf(r)
           /\ NextOf(r, q) = Length /\ Before(r, q) = Before(r, p)
  <1>0. p \in Nat /\ Length \in Nat /\ q \in Nat /\ p <= q /\ q \in 0..Length
    BY LengthFacts
  <1>1. Coming(r, p) = {} /\ ChangesOf(r) \in SUBSET Nat
    BY <1>0, NextFacts, ComingFacts
  <1>2. \A f \in ChangesOf(r) : ~(p <= f)
    BY <1>1 DEF Coming
  <1>3. \A f \in ChangesOf(r) : f < p /\ f < q /\ ~(q <= f)
    <2> SUFFICES ASSUME NEW f \in ChangesOf(r) PROVE f < p /\ f < q /\ ~(q <= f)
      OBVIOUS
    <2>1. f \in Nat /\ ~(p <= f)
      BY <1>1, <1>2
    <2> QED
      BY <1>0, <2>1
  <1>4. Past(r, p) = ChangesOf(r) /\ Past(r, q) = ChangesOf(r) /\ Coming(r, q) = {}
    BY <1>3 DEF Past, Coming
  <1>5. NextOf(r, q) = Length
    BY <1>0, <1>4, NextFacts
  <1>6. Before(r, q) = Before(r, p)
    <2>1. \A f \in ChangesOf(r) : ~(p <= f /\ f < q)
      BY <1>2
    <2>2. \A f \in p..q : Before(r, f) = Before(r, p)
      BY <2>1, QuietFacts
    <2>3. q \in p..q
      BY <1>0
    <2> QED
      BY <2>2, <2>3
  <1> QED
    BY <1>4, <1>5, <1>6

LEMMA NothingSteps ==
    ASSUME Steadily, NEW N, NEW k, Facing(N, k), AtCoarse(N, k), NothingFound
    PROVE  OnCourse'
  <1>1. /\ ~call.running /\ call.result \in {oldState, -1}
        /\ state' = call.result /\ cur' = cur + 1 /\ stopFrame' = cur + 1 /\ at' = "scan"
        /\ UNCHANGED <<recording, last, check, marks>>
    BY DEF NothingFound, Returned, StepOn
  <1>2. Here(N, k) /\ oldState = Num(k) /\ CoarseEnd(N, k)
    BY <1>1 DEF AtCoarse
  <1>3. /\ k \in Kinds /\ N \in Nat /\ stopFrame \in 0..Length
        /\ N = NextOf(recording, stopFrame) /\ k = Before(recording, stopFrame)
    BY AheadFacts DEF Facing
  <1>4. Num(Other(k)) # Num(k) /\ Num(k) \in {0, 1} /\ Num(Other(k)) \in {0, 1}
    BY <1>3, SureFacts, UnsureFacts, KindFacts
  <1>5. /\ N = Length
        /\ \/ call.result = -1
           \/ /\ call.result = Num(k) /\ check = Sure(k, 0)
              /\ cur \in Nat /\ stopFrame <= cur /\ cur <= last
    BY <1>1, <1>2, <1>4 DEF CoarseEnd
  <1>6. last = Length - 1 /\ Length \in Nat /\ stopFrame \in Nat /\ stopFrame <= Length
    BY <1>3, LengthFacts DEF Steadily, IInv, Loop
  <1>7. Past(recording, stopFrame) = ChangesOf(recording)
    <2>1. stopFrame \in stopFrame..Length
      BY <1>6
    <2> QED
      BY <1>3, <1>5, <2>1, PastAll
  <1>8. MarksAt(ChangesOf(recording))'
    BY <1>1, <1>2, <1>7 DEF Here, MarksAt
  <1>9. CASE call.result = -1
    <2>1. PICK M, l : M = NextOf(recording', stopFrame') /\ l = Before(recording', stopFrame')
      OBVIOUS
    <2>2. At(M, l)'
      BY <1>1, <1>8, <1>9 DEF At, AtScan
    <2> QED
      BY <2>1, <2>2 DEF OnCourse
  <1>10. CASE /\ call.result = Num(k) /\ check = Sure(k, 0)
              /\ cur \in Nat /\ stopFrame <= cur /\ cur <= last
    <2>1. cur + 1 \in stopFrame..Length /\ cur + 1 \in 0..Length /\ stopFrame <= cur + 1
      BY <1>6, <1>10
    <2>2. /\ Past(recording, cur + 1) = ChangesOf(recording)
          /\ NextOf(recording, cur + 1) = Length /\ Before(recording, cur + 1) = k
      BY <1>3, <1>5, <2>1, PastAll
    <2>3. k = "none" => InTime(N, cur + 1)
      <3>1. k = "none" => InTime(N, stopFrame)
        BY <1>2 DEF Here
      <3>2. InTime(N, stopFrame) => InTime(N, cur + 1)
        BY <1>5, <1>6, <1>10, Distances DEF InTime
      <3> QED
        BY <3>1, <3>2
    <2>4. MarksAt(Past(recording, stopFrame))'
      BY <1>1, <1>8, <2>2
    <2>5. Here(N, k)'
      BY <1>1, <2>1, <2>3, <2>4 DEF Here
    <2>6. state' # -1
      BY <1>1, <1>4, <1>10
    <2>7. At(N, k)'
      BY <1>1, <1>10, <2>5, <2>6 DEF At, AtScan
    <2>8. N = NextOf(recording', stopFrame') /\ k = Before(recording', stopFrame')
      BY <1>1, <1>5, <2>2
    <2> QED
      BY <2>7, <2>8 DEF OnCourse
  <1> QED
    BY <1>5, <1>9, <1>10

\* Nothing else can come of the search.
LEMMA NoLogoLost ==
    ASSUME NEW N, NEW k, Facing(N, k), AtCoarse(N, k), Returned("coarse")
    PROVE  ~SkipAhead /\ ~NewLogo /\ ~NoNewLogo
  <1>1. CoarseEnd(N, k) /\ oldState = Num(k)
    BY DEF AtCoarse, Returned
  <1>2. Num(k) \in {0, 1} /\ Num(Other(k)) \in {0, 1}
    BY DEF Num
  <1>3. call.result # -2
    BY <1>1, <1>2 DEF CoarseEnd
  <1> QED
    BY <1>3 DEF SkipAhead, NewLogo, NoNewLogo

\* The fine search begins before the picture that would show the change.
LEMMA FineStartNear ==
    ASSUME Steadily, NEW N, NEW k, Facing(N, k), N < Length,
           cur \in Nat, cur <= N + Threshold + Stride
    PROVE  FineStart \in Nat /\ stopFrame <= FineStart /\ FineStart <= N + Threshold
  <1> DEFINE back == cur - 2 * BigStep
             start == IF back < stopFrame THEN back + BigStep \div 2 ELSE back
  <1>1. N \in Nat /\ stopFrame \in Nat /\ stopFrame <= N
    BY AheadFacts
  <1>2. BigStep \div 2 \in Int /\ 2 * (BigStep \div 2) <= BigStep
    BY Distances
  <1>3. start \in Int /\ start <= N + Threshold
    BY <1>1, <1>2, Distances
  <1>4. FineStart = Max({stopFrame, start})
    BY DEF FineStart
  <1> HIDE DEF start
  <1>5. FineStart = IF stopFrame >= start THEN stopFrame ELSE start
    BY <1>1, <1>3, <1>4, GreatestOfTwo
  <1> QED
    BY <1>1, <1>3, <1>5, Distances

LEMMA FineStarts ==
    ASSUME Steadily, NEW N, NEW k, Facing(N, k), AtCoarse(N, k), Fine
    PROVE  AtFine(N, k)'
  <1>1. /\ at = "coarse" /\ ~call.running /\ call.result \in {0, 1} \ {oldState}
        /\ FindLogoChange(oldState, FineStart, 1, IF call.result = 1 THEN StableTime ELSE 0)
        /\ UNCHANGED <<recording, last, check, oldState, startFrame, stopFrame,
                       restartFrame, marks>>
    BY DEF Fine, Returned
  <1>2. Here(N, k) /\ oldState = Num(k) /\ CoarseEnd(N, k)
    BY <1>1 DEF AtCoarse
  <1>3. /\ k \in Kinds /\ N \in Nat /\ stopFrame \in Nat /\ stopFrame <= N
    BY AheadFacts
  <1>4. /\ N < Length /\ call.result = Num(Other(k))
        /\ cur \in Nat /\ cur <= N + Threshold + Stride
        /\ \E n \in Unsure : check = Sure(Other(k), n)
    BY <1>1, <1>2 DEF CoarseEnd
  <1>5. /\ last = Length - 1 /\ last \in Nat
        /\ N + Stride + BigStep + SafetyLimit <= Length - 1
    BY <1>4, LengthFacts, AheadFacts DEF Steadily, IInv, Loop
  <1>6. FineStart \in Nat /\ stopFrame <= FineStart /\ FineStart <= N + Threshold
    BY <1>4, FineStartNear
  <1> DEFINE x == IFrameFor(FineStart)
  <1>7. x \in IFrames /\ x \in Nat /\ FineStart <= x /\ x < last /\ x <= N + Threshold + Gop
    <2>1. FineStart < last
      BY <1>3, <1>5, <1>6, Distances
    <2>2. N # Length
      BY <1>3, <1>4, LengthFacts
    <2> HIDE DEF x
    <2>3. /\ x = -1 => N = Length
          /\ x # -1 => /\ x \in IFrames /\ x \in Nat /\ FineStart <= x /\ x < last
                       /\ N < Length => x <= N + Threshold + Gop
                       /\ N < Length => x <= FineStart + Gop
      BY <1>6, <2>1, IFrameForNear DEF x
    <2> QED
      BY <1>4, <2>2, <2>3
  <1>8. /\ k = "none" => oldState = 0 /\ call.result = 1
        /\ k = "logo" => oldState = 1 /\ call.result = 0
        /\ k = "none" \/ k = "logo"
    BY <1>2, <1>3, <1>4 DEF Num, Other, Kinds
  <1>9. /\ cur' = x /\ lastIFrame' = x
        /\ call' = [running |-> TRUE, state |-> Num(k), skip |-> 1,
                    stable |-> IF call.result = 1 THEN StableTime ELSE 0,
                    end |-> IF oldState = 0 THEN x + SearchBreak ELSE last,
                    ignore |-> IgnoreFrames, result |-> oldState]
    BY <1>1, <1>2, Zenon DEF FindLogoChange
  <1> HIDE DEF x
  <1>10. /\ call'.running = TRUE /\ call'.state = Num(k) /\ call'.skip = 1
         /\ call'.stable = (IF call.result = 1 THEN StableTime ELSE 0)
         /\ call'.ignore = IgnoreFrames
         /\ call'.end = (IF oldState = 0 THEN x + SearchBreak ELSE last)
    BY <1>9
  <1>11. /\ call'.stable = (IF k = "none" THEN StableTime ELSE 0)
         /\ k = "none" => call'.end = x + SearchBreak
         /\ k = "logo" => call'.end = last
    BY <1>8, <1>10
  <1>12. Here(N, k)' /\ oldState' = Num(k)
    BY <1>1, <1>2 DEF Here, MarksAt
  <1>13. Reach(k)'
    <2>1. /\ x < call'.end /\ stopFrame <= x
          /\ k = "none" => stopFrame + SearchBreak <= call'.end
          /\ k = "logo" => call'.end = last
      <3>1. SearchBreak > 0
        BY LogoChangeAssumption
      <3> QED
        BY <1>3, <1>5, <1>6, <1>7, <1>8, <1>11, <3>1, Distances
    <2> QED
      BY <1>1, <1>7, <1>9, <2>1 DEF Reach
  <1>14. FirstOn(N, k)'
    BY <1>1, <1>4, <1>7, <1>9, <1>10 DEF FirstOn
  <1> QED
    BY <1>4, <1>10, <1>11, <1>12, <1>13, <1>14 DEF AtFine

\* The next change is past from some frame behind it, and nothing else.
LEMMA PastNext ==
    ASSUME NEW r, SteadyOf(r), NEW p \in 0..Length, NEW N, N = NextOf(r, p), N < Length,
           NEW k, k = Before(r, p), NEW q \in Nat, N < q, q <= N + Stride
    PROVE  /\ q \in 0..Length /\ N \in Nat /\ N \notin Past(r, p)
           /\ Past(r, q) = Past(r, p) \cup {N}
           /\ \A f \in Past(r, p) : f \in Nat /\ f + Stride <= N
           /\ IsFiniteSet(Past(r, p))
           /\ Before(r, q) = Other(k)
           /\ Other(k) = "none" => InTime(NextOf(r, q), q)
  <1>1. /\ N \in Nat /\ p <= N /\ p \in Nat /\ Length \in Nat
        /\ \A f \in ChangesOf(r) : p <= f => N <= f
        /\ N \in ChangesOf(r) /\ ChangesOf(r) \in SUBSET Nat /\ k \in Kinds
    <2>1. N # Length /\ Length \in Nat /\ p \in Nat
      BY NextFacts, LengthFacts
    <2> QED
      BY <2>1, NextFacts, ComingFacts, BeforeKind
  <1>2. Before(r, N) = k
    <2>1. N \in p..Length /\ N \in p..N
      BY <1>1
    <2>2. \A f \in ChangesOf(r) : ~(p <= f /\ f < N)
      <3> SUFFICES ASSUME NEW f \in ChangesOf(r), p <= f, f < N
                   PROVE  FALSE
        OBVIOUS
      <3>1. f \in Nat /\ N <= f
        BY <1>1
      <3> QED
        BY <1>1, <3>1
    <2>3. \A f \in p..N : Before(r, f) = Before(r, p)
      BY <2>1, <2>2, QuietFacts
    <2> QED
      BY <2>1, <2>3
  <1> DEFINE st == Staying(Other(k))
  <1>3. /\ N + st + BigStep + SafetyLimit <= Length - 1
        /\ \A g \in ChangesOf(r) : N < g => N + st <= g
        /\ \A f \in (N + 1)..(N + st) : Before(r, f) = Other(k)
        /\ Shot(r, N) = Other(k)
    BY <1>1, <1>2, ChangeStays
  <1>4. st \in Nat /\ st >= Stride
    BY KindFacts
  <1> HIDE DEF st
  <1>5. q \in 0..Length /\ q \in (N + 1)..(N + st) /\ q <= N + st
    BY <1>1, <1>3, <1>4, Distances
  <1>6. \A f \in ChangesOf(r) : (f < q <=> (f < p \/ f = N)) /\ (q <= f <=> N + 1 <= f)
    <2> SUFFICES ASSUME NEW f \in ChangesOf(r)
                 PROVE  (f < q <=> (f < p \/ f = N)) /\ (q <= f <=> N + 1 <= f)
      OBVIOUS
    <2>1. f \in Nat /\ (p <= f => N <= f) /\ (N < f => N + st <= f)
      BY <1>1, <1>3
    <2> QED
      BY <1>1, <1>4, <1>5, <2>1
  <1>7. Past(r, q) = Past(r, p) \cup {N}
    BY <1>1, <1>6 DEF Past
  <1>8. N \notin Past(r, p)
    BY <1>1 DEF Past
  <1>9. \A f \in Past(r, p) : f \in Nat /\ f + Stride <= N
    <2> SUFFICES ASSUME NEW f \in ChangesOf(r), f < p
                 PROVE  f \in Nat /\ f + Stride <= N
      BY DEF Past
    <2>1. f \in Nat /\ f < N
      BY <1>1
    <2>2. f + Staying(Shot(r, f)) <= N
      BY <1>1, <2>1 DEF SteadyOf
    <2> DEFINE sf == Staying(Shot(r, f))
    <2>3. sf \in Nat /\ sf >= Stride
      BY KindFacts
    <2> HIDE DEF sf
    <2>4. f + sf <= N
      BY <2>2 DEF sf
    <2> QED
      BY <1>1, <2>1, <2>3, <2>4, Distances
  <1>10. IsFiniteSet(Past(r, p))
    <2>1. Past(r, p) \subseteq 0..Length
      BY <1>1 DEF Past, ChangesOf
    <2>2. IsFiniteSet(0..Length)
      BY <1>1, FS_Interval
    <2> QED
      BY <2>1, <2>2, FS_Subset
  <1>11. Before(r, q) = Other(k)
    BY <1>3, <1>5
  <1>12. ASSUME Other(k) = "none"
         PROVE  InTime(NextOf(r, q), q)
    <2>1. Coming(r, q) = Coming(r, N + 1) /\ NextOf(r, q) = NextOf(r, N + 1)
      <3>1. Coming(r, q) = Coming(r, N + 1)
        BY <1>6 DEF Coming
      <3> QED
        BY <3>1 DEF NextOf
    <2>2. /\ Coming(r, q) = {} => Length - 1 - N <= SearchBreak - Stride
          /\ Coming(r, q) # {} => NextOf(r, q) - N <= SearchBreak - Stride
      BY <1>1, <1>3, <1>12, <2>1 DEF SteadyOf
    <2> DEFINE M == NextOf(r, q)
    <2>3. M \in Nat /\ M <= Length /\ (M = Length <=> Coming(r, q) = {})
      BY <1>5, NextFacts
    <2>4. /\ M = Length => Length - 1 - N <= SearchBreak - Stride
          /\ M # Length => M - N <= SearchBreak - Stride
      BY <2>2, <2>3
    <2> HIDE DEF M
    <2>5. InTime(M, q)
      BY <1>1, <2>3, <2>4, Distances DEF InTime
    <2> QED
      BY <2>5 DEF M
  <1> QED
    BY <1>1, <1>5, <1>7, <1>8, <1>9, <1>10, <1>11, <1>12

\* The mark of a change is not near the earlier ones.
LEMMA MarkAdded ==
    ASSUME NEW D, IsFiniteSet(D), MarksAt(D), NEW N \in Nat, N \notin D,
           \A f \in D : f \in Nat /\ f + Stride <= N,
           \A x \in marks : x \in Nat,
           NEW m \in Nat, Near(m, N), m \notin marks, marks' = marks \cup {m}
    PROVE  MarksAt(D \cup {N})'
  <1> DEFINE E == D \cup {N}
  <1>1. /\ IsFiniteSet(marks) /\ Cardinality(marks) = Cardinality(D)
        /\ \A f \in D : \E x \in marks : Near(x, f)
        /\ \A x \in marks : \E f \in D : Near(x, f)
        /\ \A f \in D : \A x, o \in marks : Near(x, f) /\ Near(o, f) => x = o
    BY DEF MarksAt
  <1>2. /\ IsFiniteSet(marks') /\ Cardinality(marks') = Cardinality(marks) + 1
        /\ Cardinality(E) = Cardinality(D) + 1
    BY <1>1, FS_AddElement
  <1>3. ASSUME NEW f \in D
        PROVE  ~Near(m, f)
    <2>1. f \in Nat /\ f + Stride <= N
      OBVIOUS
    <2> QED
      BY <2>1, Distances DEF Near
  <1>4. ASSUME NEW x \in marks
        PROVE  ~Near(x, N)
    <2>1. PICK f \in D : Near(x, f)
      BY <1>1
    <2>2. f \in Nat /\ f + Stride <= N /\ x \in Nat
      OBVIOUS
    <2> QED
      BY <2>1, <2>2, Distances DEF Near
  <1>5. \A f \in E : \E x \in marks' : Near(x, f)
    BY <1>1
  <1>6. \A x \in marks' : \E f \in E : Near(x, f)
    BY <1>1
  <1>7. \A f \in E : \A x, o \in marks' : Near(x, f) /\ Near(o, f) => x = o
    <2>1. \A f \in E : f \in D \/ f = N
      OBVIOUS
    <2>2. \A x \in marks' : x \in marks \/ x = m
      OBVIOUS
    <2> HIDE DEF E
    <2> QED
      BY <1>1, <1>3, <1>4, <2>1, <2>2
  <1>8. Cardinality(marks') = Cardinality(E)
    BY <1>1, <1>2
  <1> HIDE DEF E
  <1>9. /\ IsFiniteSet(marks') /\ Cardinality(marks') = Cardinality(E)
        /\ \A f \in E : \E x \in marks' : Near(x, f)
        /\ \A x \in marks' : \E f \in E : Near(x, f)
        /\ \A f \in E : \A x, o \in marks' : Near(x, f) /\ Near(o, f) => x = o
    BY <1>2, <1>5, <1>6, <1>7, <1>8
  <1> QED
    BY <1>9, Zenon DEF MarksAt, E

LEMMA RefinedSteps ==
    ASSUME Steadily, NEW N, NEW k, Facing(N, k), AtFine(N, k), Refined
    PROVE  OnCourse'
  <1>1. /\ at = "fine" /\ ~call.running /\ state' = call.result
        /\ call.result \in {0, 1} \ {oldState} => Toggle(lastIFrame)
        /\ cur' = cur + 1 /\ stopFrame' = cur + 1 /\ at' = "scan"
        /\ UNCHANGED <<recording, last, check, lastIFrame, call,
                       oldState, startFrame, restartFrame>>
    BY DEF Refined, Returned, StepOn
  <1>2. /\ Here(N, k) /\ N < Length /\ oldState = Num(k) /\ call.result = Num(Other(k))
        /\ cur \in Nat /\ N < cur /\ cur <= N + Delay
        /\ Near(lastIFrame, N) /\ check = Sure(Other(k), 0)
    BY <1>1 DEF AtFine, FineEnd
  <1>3. /\ k \in Kinds /\ N \in Nat /\ stopFrame \in 0..Length /\ stopFrame \in Nat
        /\ N = NextOf(recording, stopFrame) /\ k = Before(recording, stopFrame)
        /\ SteadyOf(recording)
    BY AheadFacts DEF Facing, Steadily
  <1>4. Num(Other(k)) # Num(k) /\ Num(k) \in {0, 1} /\ Num(Other(k)) \in {0, 1}
    BY <1>3, SureFacts, UnsureFacts, KindFacts
  <1>5. /\ \A m \in marks : m \in Nat /\ m < stopFrame
        /\ lastIFrame \in Nat /\ lastIFrame \notin marks
    <2>1. /\ \A m \in marks : m \in Nat /\ m < stopFrame
          /\ lastIFrame \in IFrames /\ stopFrame <= lastIFrame
      <3>1. cur # -1
        BY <1>2
      <3> QED
        BY <1>1, <3>1, FramesAreNumbers DEF Steadily, IInv, Loop, Within, Settled
    <2>2. lastIFrame \in Nat
      BY <2>1, FramesAreNumbers
    <2> QED
      BY <1>3, <2>1, <2>2
  <1>6. marks' = marks \cup {lastIFrame}
    BY <1>1, <1>2, <1>4, <1>5 DEF Toggle
  <1>0. PICK D : D = Past(recording, stopFrame)
    OBVIOUS
  <1> DEFINE q == cur + 1
  <1>7. q \in Nat /\ N < q /\ q <= N + Stride
    BY <1>2, <1>3, Distances
  <1> HIDE DEF q
  <1>8. /\ q \in 0..Length /\ N \notin D
        /\ Past(recording, q) = D \cup {N}
        /\ \A f \in D : f \in Nat /\ f + Stride <= N
        /\ IsFiniteSet(D)
        /\ Before(recording, q) = Other(k)
        /\ Other(k) = "none" => InTime(NextOf(recording, q), q)
    BY <1>0, <1>2, <1>3, <1>7, PastNext
  <1>9. MarksAt(D)
    BY <1>0, <1>2 DEF Here
  <1>10. MarksAt(D \cup {N})'
    <2>1. \A x \in marks : x \in Nat
      BY <1>5
    <2> QED
      BY <1>2, <1>3, <1>5, <1>6, <1>8, <1>9, <2>1, MarkAdded
  <1>11. PICK M, l : M = NextOf(recording, q) /\ l = Other(k)
    OBVIOUS
  <1>12. stopFrame' = q /\ cur' = q /\ recording' = recording
    BY <1>1 DEF q
  <1>13. Here(M, l)'
    BY <1>8, <1>10, <1>11, <1>12 DEF Here
  <1>14. AtScan(M, l)' /\ at' = "scan"
    BY <1>1, <1>2, <1>4, <1>11, <1>12, <1>13 DEF AtScan
  <1>15. At(M, l)'
    BY <1>14 DEF At
  <1>16. M = NextOf(recording', stopFrame') /\ l = Before(recording', stopFrame')
    BY <1>8, <1>11, <1>12
  <1> QED
    BY <1>15, <1>16 DEF OnCourse

\* The closing mark is behind all that may be near a change.
LEMMA ClosingMark ==
    ASSUME last = Length - 1, NEW r, SteadyOf(r), NEW f \in ChangesOf(r)
    PROVE  ~Near(PrevIFrame(last), f)
  <1>1. last \in 1..(Length - 1) /\ last \in -1..last
    BY LengthFacts
  <1>2. PrevIFrame(last) = Preceding[last]
    BY <1>1 DEF PrevIFrame
  <1> DEFINE e == PrevIFrame(last)
  <1>3. e \in IFrames /\ last - Gop <= e
    BY <1>1, <1>2, PrecedingNear
  <1>4. e \in Nat
    BY <1>3, FramesAreNumbers
  <1> DEFINE st == Staying(Shot(r, f))
  <1>5. f + st + BigStep + SafetyLimit <= Length - 1 /\ st \in Nat /\ st >= Stride
    BY KindFacts DEF SteadyOf
  <1>6. f \in Nat
    BY LengthFacts DEF ChangesOf
  <1> HIDE DEF e, st
  <1>7. ~(e <= f + Delay)
    BY <1>3, <1>4, <1>5, <1>6, Distances
  <1> QED
    BY <1>7 DEF Near, e

\* The scan has come to the end of the recording.
LEMMA AllPast ==
    ASSUME Steadily, NEW N, NEW k, Facing(N, k), AtScan(N, k), ~Scanning
    PROVE  MarksAt(ChangesOf(recording))
  <1>1. CASE state = -1
    BY <1>1 DEF AtScan
  <1>2. CASE state # -1
    <2>1. Here(N, k) /\ cur = stopFrame
      BY <1>2 DEF AtScan
    <2>2. /\ N \in Nat /\ stopFrame \in Nat /\ stopFrame <= N /\ N <= Length
          /\ N < Length => N + Stride + BigStep + SafetyLimit <= Length - 1
          /\ stopFrame \in 0..Length /\ N = NextOf(recording, stopFrame)
      BY AheadFacts DEF Facing
    <2>3. last = Length - 1 /\ ~(cur < last)
      BY <1>2, <2>1, <2>2 DEF Scanning, Steadily, IInv, Loop
    <2>4. N = Length /\ stopFrame \in stopFrame..Length
      BY <2>1, <2>2, <2>3, Distances
    <2>5. Past(recording, stopFrame) = ChangesOf(recording)
      BY <2>2, <2>4, PastAll
    <2> QED
      BY <2>1, <2>5 DEF Here
  <1> QED
    BY <1>1, <1>2

LEMMA FinishSteps ==
    ASSUME Steadily, MarksAt(ChangesOf(recording)), Finish
    PROVE  OnCourse'
  <1>1. /\ at' = "done" /\ recording' = recording /\ last' = last
        /\ marks' = IF Cardinality(marks) % 2 = 1 THEN marks \cup {PrevIFrame(last)}
                    ELSE marks
    BY DEF Finish, lvars
  <1>3. PICK C : C = ChangesOf(recording)
    OBVIOUS
  <1>4. PICK e : e = PrevIFrame(last)
    OBVIOUS
  <1>5. \A f \in C : ~Near(e, f)
    BY <1>3, <1>4, ClosingMark DEF Steadily, IInv, Loop
  <1>6. /\ Cardinality(marks) = Cardinality(C)
        /\ \A f \in C : \E m \in marks : Near(m, f)
        /\ \A m \in marks : \E f \in C : Near(m, f)
        /\ \A f \in C : \A m, o \in marks : Near(m, f) /\ Near(o, f) => m = o
    BY <1>3 DEF MarksAt
  <1>7. /\ \A m \in marks' : m \in marks \/ (m = e /\ Cardinality(C) % 2 = 1)
        /\ \A m \in marks : m \in marks'
    <2> DEFINE odd == Cardinality(C) % 2 = 1
    <2>1. marks' = IF odd THEN marks \cup {e} ELSE marks
      BY <1>1, <1>4, <1>6
    <2> HIDE DEF odd
    <2>2. /\ \A m \in marks' : m \in marks \/ (m = e /\ odd)
          /\ \A m \in marks : m \in marks'
      BY <2>1
    <2> QED
      BY <2>2 DEF odd
  <1>8. ASSUME NEW f \in C
        PROVE  Cardinality({m \in marks' : Near(m, f)}) = 1
    <2>1. PICK m \in marks : Near(m, f)
      BY <1>6
    <2>2. \A o \in marks' : Near(o, f) <=> o = m
      BY <1>5, <1>6, <1>7, <2>1
    <2>3. m \in marks'
      BY <1>7
    <2>4. {o \in marks' : Near(o, f)} = {m}
      BY <2>2, <2>3
    <2> QED
      BY <2>4, FS_Singleton
  <1>9. \A m \in marks' : (\E f \in C : Near(m, f)) \/ (m = e /\ Cardinality(C) % 2 = 1)
    BY <1>6, <1>7
  <1>10. ChangesOf(recording') = C /\ PrevIFrame(last)' = e
    BY <1>1, <1>3, <1>4 DEF PrevIFrame
  <1>11. Marked'
    BY <1>8, <1>9, <1>10 DEF Marked
  <1>12. PICK M, l : M = NextOf(recording', stopFrame') /\ l = Before(recording', stopFrame')
    OBVIOUS
  <1>13. At(M, l)'
    BY <1>1, <1>11 DEF At
  <1> QED
    BY <1>12, <1>13 DEF OnCourse

LEMMA CourseInit ==
    ASSUME Init, SteadyOf(recording)
    PROVE  OnCourse
  <1>1. /\ check \in Detected /\ cur = 0 /\ stopFrame = 0 /\ at = "scan" /\ state = 0
        /\ marks = {} /\ recording \in Recording
    BY DEF Init
  <1> DEFINE r == recording
             N == NextOf(r, 0)
  <1>2. Before(r, 0) = "none" /\ Num("none") = 0
    BY DEF Before, Num
  <1>3. N \in Nat /\ N <= Length /\ (N = Length <=> Coming(r, 0) = {}) /\ 0 \in 0..Length
    BY LengthFacts, NextFacts
  <1>4. PICK n \in Unsure : check = Sure("logo", n)
    <2>1. /\ check = [isLogo |-> TRUE, seen |-> Threshold + 1, missed |-> check.missed]
          /\ check.missed \in Unsure
      BY <1>1 DEF Detected, Unsure
    <2> QED
      BY <2>1 DEF Sure
  <1>5. AtFirst
    BY <1>1, <1>4 DEF AtFirst
  <1>6. MarksAt(Past(r, 0))
    <2>1. Past(r, 0) = {}
      <3>1. \A f \in ChangesOf(r) : ~(f < 0)
        BY LengthFacts DEF ChangesOf
      <3> QED
        BY <3>1 DEF Past
    <2> QED
      BY <1>1, <2>1, FS_EmptySet DEF MarksAt
  <1>7. InTime(N, 0)
    <2>1. CASE 0 \in ChangesOf(r)
      <3>1. N <= 0
        BY <1>3, <2>1, NextFacts
      <3> HIDE DEF N
      <3> QED
        BY <1>3, <3>1 DEF InTime
    <2>2. CASE 0 \notin ChangesOf(r)
      <3>1. Shot(r, 0) = "none"
        BY <1>2, <2>2, LengthFacts DEF ChangesOf
      <3>2. Coming(r, 1) = Coming(r, 0)
        <4>1. \A f \in ChangesOf(r) : 1 <= f <=> 0 <= f
          <5> SUFFICES ASSUME NEW f \in ChangesOf(r) PROVE 1 <= f <=> 0 <= f
            OBVIOUS
          <5>1. f \in Nat /\ f # 0
            BY <2>2, LengthFacts DEF ChangesOf
          <5> QED
            BY <5>1
        <4> QED
          BY <4>1 DEF Coming
      <3>3. NextOf(r, 1) = N
        BY <3>2 DEF NextOf
      <3>4. 0 + 1 = 1 /\ 0 \in {0} \cup ChangesOf(r)
        OBVIOUS
      <3>5. /\ Coming(r, 0 + 1) = {} => Length - 1 - 0 <= SearchBreak - Stride
            /\ Coming(r, 0 + 1) # {} => NextOf(r, 0 + 1) - 0 <= SearchBreak - Stride
        BY <3>1, <3>4, Zenon DEF SteadyOf
      <3>6. /\ Coming(r, 0) = {} => Length - 1 - 0 <= SearchBreak - Stride
            /\ Coming(r, 0) # {} => N - 0 <= SearchBreak - Stride
        BY <3>2, <3>3, <3>4, <3>5
      <3> HIDE DEF N
      <3> QED
        BY <1>3, <3>6, Distances DEF InTime
    <2> QED
      BY <2>1, <2>2
  <1>8. Here(N, "none")
    BY <1>1, <1>3, <1>6, <1>7 DEF Here
  <1> HIDE DEF N
  <1>9. At(N, "none")
    <2>1. state # -1
      BY <1>1
    <2> QED
      BY <1>1, <1>2, <1>5, <1>8, <2>1 DEF At, AtScan
  <1>10. N = NextOf(recording, stopFrame) /\ "none" = Before(recording, stopFrame)
    BY <1>1, <1>2 DEF N
  <1> QED
    BY <1>9, <1>10 DEF OnCourse

-----------------------------------------------------------------------------
(***************************************************************************)
(* The whole scan.  While restartFrame is 0 no other logo has been taken   *)
(* and the recording is the one the scan began with: once it is set, every *)
(* search begins behind frame 0, so that it never is 0 again.              *)
(***************************************************************************)

Early ==
    /\ at \in {"coarse", "fine"} => 0 <= startFrame
    /\ restartFrame # 0 =>
          /\ at = "scan" /\ state # -1 => 1 <= cur
          /\ at \in {"coarse", "fine"} => 1 <= startFrame

CourseInv ==
    /\ IInv /\ recording \in Recording /\ Early
    /\ SteadyOf(recording) /\ restartFrame = 0 => OnCourse

\* Only another logo makes it another recording, and it is remembered.
LEMMA SameRecording ==
    ASSUME IInv, Early, Next
    PROVE  \/ /\ NewLogo /\ restartFrame' = startFrame /\ 1 <= startFrame
              /\ at' = "scan" /\ cur' = startFrame
           \/ recording' = recording /\ restartFrame' = restartFrame
  <1>1. CASE NewLogo
    <2>1. /\ at = "coarse" /\ restartFrame # startFrame
          /\ at' = "scan" /\ cur' = startFrame /\ restartFrame' = startFrame
      BY <1>1 DEF NewLogo, Returned
    <2>2. startFrame \in Int /\ 0 <= startFrame
      BY <2>1 DEF IInv, Loop, Early
    <2>3. 1 <= startFrame
      <3>1. CASE restartFrame = 0
        BY <2>1, <2>2, <3>1
      <3>2. CASE restartFrame # 0
        BY <2>1, <3>2 DEF Early
      <3> QED
        BY <3>1, <3>2
    <2> QED
      BY <1>1, <2>1, <2>3
  <1>2. CASE ~NewLogo
    <2>1. CASE Search
      BY <2>1 DEF Search, SearchStep, NoChange, ChangeFound, StableChange, UnstableChange,
                  GiveUp, svars
    <2>2. CASE ~Search
      BY <1>2, <2>2 DEF Next, Coarse, Fine, Refined, Finish, NothingFound, SkipAhead,
                        NoNewLogo, lvars
    <2> QED
      BY <2>1, <2>2
  <1> QED
    BY <1>1, <1>2

\* Where the search has returned, it stands on a frame or gives up.
LEMMA ReturnsOn ==
    ASSUME IInv, at \in {"coarse", "fine"}, ~call.running, call.result # -1
    PROVE  1 <= cur + 1
  <1>1. cur # -1 /\ lastIFrame \in IFrames /\ lastIFrame <= cur /\ cur \in Int
    BY DEF IInv, Loop, Within
  <1>2. lastIFrame \in Nat
    BY <1>1, FramesAreNumbers
  <1> QED
    BY <1>1, <1>2

LEMMA EarlyStep ==
    ASSUME IInv, Early, Next
    PROVE  Early'
  <1>0. cur \in Int /\ startFrame \in Int
    BY DEF IInv, Loop
  <1>1. CASE Coarse
    <2>1. /\ at = "scan" /\ state # -1 /\ 0 <= cur /\ at' = "coarse" /\ startFrame' = cur
          /\ restartFrame' = restartFrame
      BY <1>1 DEF Coarse, Scanning
    <2> QED
      BY <2>1 DEF Early
  <1>2. CASE Search
    BY <1>2 DEF Search, svars, Early
  <1>3. CASE Fine
    <2>1. /\ at = "coarse" /\ at' = "fine" /\ startFrame' = startFrame
          /\ restartFrame' = restartFrame
      BY <1>3 DEF Fine, Returned
    <2> QED
      BY <2>1 DEF Early
  <1>4. CASE Refined \/ NothingFound
    <2>1. /\ at \in {"coarse", "fine"} /\ ~call.running /\ state' = call.result
          /\ at' = "scan" /\ cur' = cur + 1
      BY <1>4 DEF Refined, NothingFound, Returned, StepOn
    <2>2. state' # -1 => 1 <= cur'
      BY <2>1, ReturnsOn
    <2> QED
      BY <2>1, <2>2 DEF Early
  <1>5. CASE SkipAhead
    <2>1. /\ at = "coarse" /\ at' = "scan" /\ cur' = startFrame + SearchBreak + 1
      BY <1>5 DEF SkipAhead, Returned, StepOn
    <2>2. 0 <= startFrame
      BY <2>1 DEF Early
    <2>3. 1 <= cur'
      BY <1>0, <2>1, <2>2, Numbers
    <2> QED
      BY <2>1, <2>3 DEF Early
  <1>6. CASE NewLogo
    <2>1. at' = "scan" /\ cur' = startFrame /\ 1 <= startFrame
      <3>1. at = "coarse" /\ restartFrame # startFrame /\ at' = "scan" /\ cur' = startFrame
        BY <1>6 DEF NewLogo, Returned
      <3>2. 0 <= startFrame /\ (restartFrame # 0 => 1 <= startFrame)
        BY <3>1 DEF Early
      <3>3. 1 <= startFrame
        BY <1>0, <3>1, <3>2
      <3> QED
        BY <3>1, <3>3
    <2> QED
      BY <2>1 DEF Early
  <1>7. CASE NoNewLogo
    <2>1. at' = "scan" /\ state' = -1
      BY <1>7 DEF NoNewLogo, StepOn
    <2> QED
      BY <2>1 DEF Early
  <1>8. CASE Finish
    <2>1. at' = "done"
      BY <1>8 DEF Finish
    <2> QED
      BY <2>1 DEF Early
  <1> QED
    BY <1>1, <1>2, <1>3, <1>4, <1>5, <1>6, <1>7, <1>8 DEF Next

\* The loop of a steady recording, step by step.
LEMMA CourseStep ==
    ASSUME Steadily, OnCourse, Next, ~NewLogo, recording' = recording
    PROVE  OnCourse'
  <1>1. PICK N, k : /\ N = NextOf(recording, stopFrame) /\ k = Before(recording, stopFrame)
                    /\ At(N, k)
    BY DEF OnCourse
  <1>2. CASE at = "scan" /\ state = -1
    <2>1. Finish
      BY <1>2 DEF Next, Coarse, Scanning, Search, Fine, Refined, NothingFound, SkipAhead,
                  NewLogo, NoNewLogo, Returned
    <2>2. MarksAt(ChangesOf(recording))
      BY <1>1, <1>2 DEF At, AtScan
    <2> QED
      BY <2>1, <2>2, FinishSteps
  <1>3. CASE at = "scan" /\ state # -1
    <2>1. AtScan(N, k)
      BY <1>1, <1>3 DEF At
    <2>2. Here(N, k)
      BY <1>3, <2>1 DEF AtScan
    <2>3. Facing(N, k)
      BY <1>1, <2>2, AheadHolds DEF Here
    <2>4. Coarse \/ Finish
      BY <1>3 DEF Next, Search, Fine, Refined, NothingFound, SkipAhead, NewLogo, NoNewLogo,
                  Returned
    <2>5. CASE Coarse
      <3>1. AtCoarse(N, k)' /\ at' = "coarse" /\ stopFrame' = stopFrame
        BY <2>1, <2>3, <2>5, CoarseStarts DEF Coarse
      <3>2. At(N, k)'
        BY <3>1 DEF At
      <3>3. N = NextOf(recording', stopFrame') /\ k = Before(recording', stopFrame')
        BY <1>1, <3>1
      <3> QED
        BY <3>2, <3>3 DEF OnCourse
    <2>6. CASE Finish
      <3>1. ~Scanning
        BY <2>6 DEF Finish
      <3>2. MarksAt(ChangesOf(recording))
        BY <2>1, <2>3, <3>1, AllPast
      <3> QED
        BY <2>6, <3>2, FinishSteps
    <2> QED
      BY <2>4, <2>5, <2>6
  <1>4. CASE at = "coarse"
    <2>1. AtCoarse(N, k)
      BY <1>1, <1>4 DEF At
    <2>2. Facing(N, k)
      BY <1>1, <2>1, AheadHolds DEF AtCoarse, Here
    <2>3. CASE Search
      <3>1. AtCoarse(N, k)' /\ at' = "coarse" /\ stopFrame' = stopFrame
        BY <1>4, <2>1, <2>2, <2>3, CoarseSearches DEF Search, svars
      <3>2. At(N, k)'
        BY <3>1 DEF At
      <3>3. N = NextOf(recording', stopFrame') /\ k = Before(recording', stopFrame')
        BY <1>1, <3>1
      <3> QED
        BY <3>2, <3>3 DEF OnCourse
    <2>4. CASE Fine
      <3>1. AtFine(N, k)' /\ at' = "fine" /\ stopFrame' = stopFrame
        BY <2>1, <2>2, <2>4, FineStarts DEF Fine
      <3>2. At(N, k)'
        BY <3>1 DEF At
      <3>3. N = NextOf(recording', stopFrame') /\ k = Before(recording', stopFrame')
        BY <1>1, <3>1
      <3> QED
        BY <3>2, <3>3 DEF OnCourse
    <2>5. CASE NothingFound
      BY <2>1, <2>2, <2>5, NothingSteps
    <2>6. ~SkipAhead /\ ~NoNewLogo
      <3>1. Returned("coarse") => ~SkipAhead /\ ~NoNewLogo
        BY <2>1, <2>2, NoLogoLost
      <3> QED
        BY <3>1 DEF SkipAhead, NoNewLogo
    <2>7. ~Coarse /\ ~Refined /\ ~Finish
      BY <1>4 DEF Coarse, Refined, Finish, Returned
    <2> QED
      BY <2>3, <2>4, <2>5, <2>6, <2>7 DEF Next
  <1>5. CASE at = "fine"
    <2>1. AtFine(N, k)
      BY <1>1, <1>5 DEF At
    <2>2. Facing(N, k)
      BY <1>1, <2>1, AheadHolds DEF AtFine, Here
    <2>3. CASE Search
      <3>1. AtFine(N, k)' /\ at' = "fine" /\ stopFrame' = stopFrame
        BY <1>5, <2>1, <2>2, <2>3, FineSearches DEF Search, svars
      <3>2. At(N, k)'
        BY <3>1 DEF At
      <3>3. N = NextOf(recording', stopFrame') /\ k = Before(recording', stopFrame')
        BY <1>1, <3>1
      <3> QED
        BY <3>2, <3>3 DEF OnCourse
    <2>4. CASE Refined
      BY <2>1, <2>2, <2>4, RefinedSteps
    <2>5. ~Coarse /\ ~Fine /\ ~Finish /\ ~NothingFound /\ ~SkipAhead /\ ~NoNewLogo
      BY <1>5 DEF Coarse, Fine, Finish, NothingFound, SkipAhead, NoNewLogo, Returned
    <2> QED
      BY <2>3, <2>4, <2>5 DEF Next
  <1>6. at # "done"
    BY DEF Next, Coarse, Search, Fine, Refined, Finish, NothingFound, SkipAhead, NewLogo,
           NoNewLogo, Returned
  <1>7. at \in {"scan", "coarse", "fine", "done"}
    BY DEF Steadily, IInv, Loop
  <1> QED
    BY <1>2, <1>3, <1>4, <1>5, <1>6, <1>7

LEMMA CourseInvInit == Init => CourseInv
  <1> SUFFICES ASSUME Init PROVE CourseInv
    OBVIOUS
  <1>1. IInv
    BY InitInv
  <1>2. recording \in Recording /\ Early
    BY DEF Init, Early
  <1> QED
    BY <1>1, <1>2, CourseInit DEF CourseInv

LEMMA CourseInvStep == CourseInv /\ [Next]_vars => CourseInv'
  <1>1. ASSUME CourseInv, Next PROVE CourseInv'
    <2>1. IInv /\ Early /\ recording \in Recording
      BY <1>1 DEF CourseInv
    <2>2. IInv' /\ Early'
      BY <1>1, <2>1, StepInv, EarlyStep
    <2>3. recording' \in Recording
      <3>1. NewLogo => recording' \in Recording
        BY LogoChangeAssumption DEF NewLogo
      <3> QED
        BY <1>1, <2>1, <3>1, SameRecording
    <2>4. ASSUME SteadyOf(recording'), restartFrame' = 0
          PROVE  OnCourse'
      <3>1. ~NewLogo /\ recording' = recording /\ restartFrame' = restartFrame
        <4>1. ~(1 <= 0)
          OBVIOUS
        <4>2. \/ restartFrame' = startFrame /\ 1 <= startFrame
              \/ recording' = recording /\ restartFrame' = restartFrame
          BY <1>1, <2>1, SameRecording
        <4>3. recording' = recording /\ restartFrame' = restartFrame
          BY <2>4, <4>1, <4>2
        <4>4. ~NewLogo
          <5>1. NewLogo => restartFrame' = startFrame /\ restartFrame # startFrame
            BY DEF NewLogo
          <5> QED
            BY <4>3, <5>1
        <4> QED
          BY <4>3, <4>4
      <3>2. Steadily /\ OnCourse
        BY <1>1, <2>1, <2>4, <3>1 DEF CourseInv, Steadily
      <3> QED
        BY <1>1, <3>1, <3>2, CourseStep
    <2> QED
      BY <2>2, <2>3, <2>4 DEF CourseInv
  <1>2. ASSUME CourseInv, UNCHANGED vars PROVE CourseInv'
    <2>1. IInv'
      BY <1>2, StutterInv DEF CourseInv
    <2>2. (recording \in Recording /\ Early)'
      BY <1>2 DEF CourseInv, Early, vars, svars, lvars
    <2>3. ASSUME SteadyOf(recording'), restartFrame' = 0
          PROVE  OnCourse'
      <3>1. OnCourse
        BY <1>2, <2>3 DEF CourseInv, vars, svars, lvars
      <3>2. OnCourse' <=> OnCourse
        BY <1>2 DEF OnCourse, At, AtScan, AtCoarse, AtFine, AtFirst, Marked, Here, MarksAt,
           CoarseOn, CoarseEnd, FirstOn, LaterOn, FineEnd, Reach, Knows, PrevIFrame,
           vars, svars, lvars
      <3> QED
        BY <3>1, <3>2
    <2> QED
      BY <2>1, <2>2, <2>3 DEF CourseInv
  <1> QED
    BY <1>1, <1>2

LEMMA CourseInvHolds == Spec => []CourseInv
  BY CourseInvInit, CourseInvStep, PTL DEF Spec

\* Whatever a steady recording shows, wherever its I-frames are and whatever the
\* parameters of the scan, as long as its jumps are long against the batches and
\* the distances of the I-frames: when scanRecord is done, every change of the
\* logo has exactly one mark near it, and every mark is near a change, but for
\* the one that closes an open end (noad.cpp, 1710-1779).
THEOREM AccurateHolds == Spec => []Accurate
  <1>1. CourseInv => Accurate
    <2> SUFFICES ASSUME CourseInv, at = "done", Steady, restartFrame = 0
                 PROVE  /\ \A f \in Changes : Cardinality({m \in marks : Near(m, f)}) = 1
                        /\ \A m \in marks :
                              \/ \E f \in Changes : Near(m, f)
                              \/ m = PrevIFrame(last) /\ Cardinality(Changes) % 2 = 1
      BY DEF Accurate
    <2>1. SteadyOf(recording)
      BY SteadyIs DEF CourseInv, IInv, Loop
    <2>2. Marked
      BY <2>1 DEF CourseInv, OnCourse, At
    <2> QED
      BY <2>2, ChangesAre DEF Marked
  <1> QED
    BY <1>1, CourseInvHolds, PTL

===============================================================================
