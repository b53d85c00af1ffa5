--------------------------- MODULE Ac3SearchProofs ---------------------------
(***************************************************************************)
(* Theorems about the marks by the sound.  The demuxer never looks at      *)
(* whether the index has the frame that it is asked for                    *)
(* (src/mpeg_decoder.cpp, 741), so each loop over the frames has to stay   *)
(* within the index by itself: first what one frame does to the demuxer,   *)
(* then what each of the four loops returns, and with that the steps.      *)
(* The second part is about the marks: of a recording in which every frame *)
(* is heard, each sample tells the changes since the one before, and each  *)
(* change that is told gets its mark.                                      *)
(***************************************************************************)
EXTENDS Ac3Search, NumberTheorems

-----------------------------------------------------------------------------
(* One frame.                                                              *)

\* The index of a recording that is known.
Open == rec \in Recordings /\ last \in Lengths

LEMMA OpenRecording ==
    ASSUME Open
    PROVE  /\ last \in Nat
           /\ rec.cut \subseteq Nat /\ rec.left \in 1..2
           /\ \A f \in 0..(last - 1) : Sound(f) \in Modes
  <1>1. Lengths \in SUBSET Nat /\ last \in Lengths /\ last \in Nat
    BY Ac3SearchAssumption DEF Open
  <1>2. PICK n \in Nat : Lengths \in SUBSET (0..n)
    BY <1>1, Ac3SearchAssumption, FiniteIsBounded
  <1>3. Max(Lengths) \in Lengths /\ last <= Max(Lengths)
    BY <1>1, <1>2, GreatestElement
  <1>4. \A f \in 0..(last - 1) : f \in 0..Max(Lengths)
    <2>1. Max(Lengths) \in Nat
      BY <1>1, <1>3
    <2> HIDE DEF Max
    <2> QED
      BY <1>1, <1>3, <2>1
  <1>5. Sounds[rec] \in [0..Max(Lengths) -> Modes]
    BY RecordingsAssumption DEF Open
  <1>6. \A f \in 0..(last - 1) : Sound(f) \in Modes
    BY <1>4, <1>5, Zenon DEF Sound
  <1>7. rec.cut \subseteq Nat /\ rec.left \in 1..2
    BY RecordingsAssumption DEF Open, Recorded
  <1> QED
    BY <1>1, <1>6, <1>7

\* The frame can be heard: it is not silent and does not end early.
Clear(f) == Sound(f) # "none" /\ f \notin rec.cut

\* The frame is heard: the mode of the demuxer is the sound that it has.
Hears(y, f) == Clear(f) /\ y.mode = Sound(f) /\ y.decoded /\ y.apts = f - Lag

\* A frame that the index has leaves the demuxer without a frame out of it;
\* it is heard unless it is silent, ends early, or the rest of the frame
\* before is to be skipped.
LEMMA DemuxLemma ==
    ASSUME Open, NEW e \in Demuxed, NEW f \in 0..(last - 1)
    PROVE  /\ DemuxFrame(e, f) \in Demuxed
           /\ DemuxFrame(e, f).lost = e.lost
           /\ DemuxFrame(e, f).left = IF f \in rec.cut THEN rec.left ELSE 0
           /\ \/ DemuxFrame(e, f).mode = e.mode
              \/ Hears(DemuxFrame(e, f), f)
           /\ e.left <= 1 /\ Clear(f) => Hears(DemuxFrame(e, f), f)
           /\ e.left = 0 => DemuxFrame(e, f).vpts = f
  <1> DEFINE v == VideoPacket(e, f)
             p == PrivateStream(v, f)
             y == [p EXCEPT !.left = IF f \in rec.cut THEN rec.left ELSE 0]
  <1>0. f \in Int /\ Lag \in Int
    BY OpenRecording, Ac3SearchAssumption
  <1>1. Sound(f) \in Modes /\ rec.left \in 0..2
    BY OpenRecording
  <1>2. /\ v \in Demuxed /\ v.lost = e.lost /\ v.left = e.left
        /\ v.mode = e.mode /\ (e.left = 0 => v.vpts = f)
    BY <1>0 DEF VideoPacket, Demuxed
  <1> HIDE DEF v
  <1>3. /\ p \in Demuxed /\ p.lost = v.lost
        /\ p.mode = v.mode \/ Hears(p, f)
        /\ v.left <= 1 /\ Clear(f) => Hears(p, f)
        /\ p.vpts = v.vpts
    <2>1. CASE v.left > 1 \/ f \in rec.cut \/ Sound(f) = "none"
      <3>1. p = v
        BY <2>1 DEF PrivateStream
      <3>2. v.left \in 0..2
        BY <1>2 DEF Demuxed
      <3>3. ~(v.left <= 1 /\ Clear(f))
        BY <2>1, <3>2 DEF Clear
      <3> HIDE DEF p
      <3> QED
        BY <1>2, <3>1, <3>3
    <2>2. CASE ~(v.left > 1 \/ f \in rec.cut \/ Sound(f) = "none")
      <3>1. p = [v EXCEPT !.mode = Sound(f), !.decoded = TRUE, !.apts = f - Lag]
        BY <2>2 DEF PrivateStream
      <3> HIDE DEF p, Sound
      <3>2. v = [left |-> v.left, mode |-> v.mode, decoded |-> v.decoded,
                 vpts |-> v.vpts, apts |-> v.apts, lost |-> v.lost]
        BY <1>2 DEF Demuxed
      <3>3. p = [left |-> v.left, mode |-> Sound(f), decoded |-> TRUE,
                 vpts |-> v.vpts, apts |-> f - Lag, lost |-> v.lost]
        BY <3>1, <3>2
      <3>4. f - Lag \in Int
        BY <1>0
      <3>5. /\ p \in Demuxed /\ p.lost = v.lost /\ p.mode = Sound(f)
            /\ p.decoded = TRUE /\ p.apts = f - Lag /\ p.vpts = v.vpts
        BY <1>1, <1>2, <3>3, <3>4 DEF Demuxed
      <3> QED
        BY <2>2, <3>5 DEF Hears, Clear
    <2> QED
      BY <2>1, <2>2
  <1> HIDE DEF p
  <1>4. /\ y \in Demuxed /\ y.lost = p.lost /\ y.mode = p.mode /\ y.decoded = p.decoded
        /\ y.left = IF f \in rec.cut THEN rec.left ELSE 0
        /\ y.apts = p.apts /\ y.vpts = p.vpts
    BY <1>1, <1>3 DEF Demuxed
  <1>5. DemuxFrame(e, f) = y
    BY DEF DemuxFrame, DemuxPES, y, p, v
  <1> HIDE DEF y
  <1>6. Hears(p, f) => Hears(y, f)
    BY <1>4 DEF Hears
  <1> QED
    BY <1>2, <1>3, <1>4, <1>5, <1>6

\* A frame that the index does not have.
LEMMA DemuxOutside ==
    ASSUME NEW e \in Demuxed, NEW f \in Int, f \notin 0..(last - 1)
    PROVE  DemuxFrame(e, f) \in Demuxed /\ DemuxFrame(e, f).lost = f
  BY DEF DemuxFrame, Demuxed

LEMMA ResetTyped ==
    ASSUME NEW e \in Demuxed
    PROVE  /\ Reset(e) \in Demuxed /\ Reset(e).lost = e.lost
           /\ Reset(e).mode = e.mode /\ Reset(e).left = 0
  BY DEF Reset, Demuxed

LEMMA DemuxTyped ==
    ASSUME Open, NEW e \in Demuxed, NEW f \in Int
    PROVE  DemuxFrame(e, f) \in Demuxed
  BY DemuxLemma, DemuxOutside

-----------------------------------------------------------------------------
(* The loops over the frames.                                              *)

\* FirstSound stays between a and b.  It has not changed the sound that is
\* known, or has stopped before b at a frame that is heard; at once if the
\* first frame can be heard.
Sampled(e, a, b, r) ==
    /\ r \in Reading /\ r.at \in a..b /\ r.d.lost = e.lost
    /\ r.d.mode = e.mode \/ (r.at < b /\ Hears(r.d, r.at))
    /\ a < b /\ e.left = 0 /\ Clear(a) => r.at = a /\ Hears(r.d, a) /\ r.d.left = 0

LEMMA FirstSoundLemma ==
    ASSUME Open, NEW e \in Demuxed, NEW b \in 0..last, NEW a \in 0..b
    PROVE  Sampled(e, a, b, FirstSound(e, a, b))
  <1> DEFINE y(r) == DemuxFrame(r.d, r.at)
             Stop == {r \in Reading : r.at >= b \/ y(r).decoded}
             Out == [r \in Reading |-> IF r.at >= b THEN r ELSE [r EXCEPT !.d = y(r)]]
             Del == [r \in Reading |-> [d |-> y(r), at |-> r.at + 1]]
             mu == [r \in Reading |-> last + 1 - r.at]
             F(g) == [r \in Reading |->
                         IF r.at >= b THEN r
                         ELSE IF y(r).decoded THEN [r EXCEPT !.d = y(r)]
                              ELSE g[[d |-> y(r), at |-> r.at + 1]]]
             go == CHOOSE g : g = F(g)
             r0 == [d |-> [e EXCEPT !.decoded = FALSE], at |-> a]
             Sure == a < b /\ e.left = 0 /\ Clear(a)
             Kept == {r \in Reading : /\ r.at \in a..b /\ r.d.lost = e.lost
                                      /\ r.d.mode = e.mode
                                      /\ Sure => r.at = a /\ r.d.left = 0}
             Post == {r \in Reading : Sampled(e, a, b, r)}
  <1>0. FirstSound(e, a, b) = go[r0]
    BY DEF FirstSound
  <1>1. last \in Nat /\ a \in Nat /\ b \in Nat /\ a <= b /\ b <= last
    BY OpenRecording
  <1>2. \A r \in Reading : r.at \in 0..(last + 1) /\ r.d \in Demuxed
    BY DEF Reading
  <1>3. ASSUME NEW r \in Reading, ~(r.at >= b)
        PROVE  /\ r.at \in 0..(last - 1) /\ r.at + 1 \in 0..(last + 1)
               /\ y(r) \in Demuxed /\ y(r).lost = r.d.lost
               /\ y(r).mode = r.d.mode \/ Hears(y(r), r.at)
               /\ r.d.left = 0 /\ Clear(r.at)
                  => Hears(y(r), r.at) /\ y(r).decoded /\ y(r).left = 0
               /\ [r EXCEPT !.d = y(r)] = [d |-> y(r), at |-> r.at]
               /\ [d |-> y(r), at |-> r.at] \in Reading
               /\ [d |-> y(r), at |-> r.at + 1] \in Reading
    <2>1. r.at \in 0..(last - 1) /\ r.at + 1 \in 0..(last + 1)
      BY <1>1, <1>2, <1>3
    <2>2. /\ y(r) \in Demuxed /\ y(r).lost = r.d.lost
          /\ y(r).mode = r.d.mode \/ Hears(y(r), r.at)
          /\ y(r).left = IF r.at \in rec.cut THEN rec.left ELSE 0
          /\ r.d.left <= 1 /\ Clear(r.at) => Hears(y(r), r.at)
      BY <1>2, <2>1, DemuxLemma
    <2>3. r.d.left = 0 /\ Clear(r.at) => Hears(y(r), r.at) /\ y(r).decoded /\ y(r).left = 0
      <3> HIDE DEF y
      <3> QED
        BY <2>2 DEF Hears, Clear
    <2> HIDE DEF y
    <2> QED
      BY <1>2, <2>1, <2>2, <2>3 DEF Reading
  <1>4. Falls(Reading, Stop, Del, last + 1, mu)
    <2>1. mu \in [Reading -> 0..(last + 1)]
      <3> SUFFICES ASSUME NEW r \in Reading PROVE last + 1 - r.at \in 0..(last + 1)
        BY Zenon
      <3> QED
        BY <1>1, <1>2
    <2>2. ASSUME NEW r \in Reading, r \notin Stop
          PROVE  Del[r] \in Reading /\ mu[Del[r]] < mu[r]
      <3>1. ~(r.at >= b)
        BY <2>2
      <3>2. Del[r] = [d |-> y(r), at |-> r.at + 1]
        BY Zenon
      <3>3. Del[r] \in Reading /\ Del[r].at = r.at + 1
        BY <1>3, <3>1, <3>2
      <3> HIDE DEF Del
      <3>4. mu[Del[r]] = last + 1 - (r.at + 1) /\ mu[r] = last + 1 - r.at
        BY <3>3
      <3> QED
        BY <1>1, <1>2, <3>3, <3>4
    <2>3. last + 1 \in Nat
      BY <1>1
    <2> HIDE DEF Stop, Del, mu
    <2> QED
      BY <2>1, <2>2, <2>3 DEF Falls
  <1>5. go = CHOOSE g : Iteration(Reading, Stop, Out, Del, g)
    <2>1. ASSUME NEW g
          PROVE  [r \in Reading |-> IF r \in Stop THEN Out[r] ELSE g[Del[r]]] = F(g)
      <3> SUFFICES ASSUME NEW r \in Reading
                   PROVE  (IF r \in Stop THEN Out[r] ELSE g[Del[r]])
                            = IF r.at >= b THEN r
                              ELSE IF y(r).decoded THEN [r EXCEPT !.d = y(r)]
                              ELSE g[[d |-> y(r), at |-> r.at + 1]]
        BY Zenon
      <3>1. /\ Del[r] = [d |-> y(r), at |-> r.at + 1]
            /\ Out[r] = IF r.at >= b THEN r ELSE [r EXCEPT !.d = y(r)]
        BY Zenon
      <3>2. r \in Stop <=> r.at >= b \/ y(r).decoded
        BY Zenon
      <3> HIDE DEF Del, Out, Stop, y
      <3> QED
        BY <3>1, <3>2, Zenon
    <2> HIDE DEF Stop, Out, Del, F
    <2>2. \A g : Iteration(Reading, Stop, Out, Del, g) <=> g = F(g)
      BY <2>1 DEF Iteration
    <2> QED
      BY <2>2
  <1>6. Keeps(Reading, Stop, Del, Kept)
    <2> SUFFICES ASSUME NEW r \in Reading, r \in Kept, r \notin Stop
                 PROVE  Del[r] \in Kept
      BY Zenon DEF Keeps
    <2>1. ~(r.at >= b) /\ ~y(r).decoded
      BY Zenon
    <2>2. Del[r] = [d |-> y(r), at |-> r.at + 1]
      BY Zenon
    <2>3. /\ r.at \in a..b /\ r.d.lost = e.lost /\ r.d.mode = e.mode
          /\ Sure => r.at = a /\ r.d.left = 0
      BY Zenon
    <2> HIDE DEF y
    <2>4. y(r).mode = r.d.mode /\ y(r).lost = r.d.lost /\ ~Sure
      <3>1. ~Hears(y(r), r.at)
        BY <2>1 DEF Hears
      <3> QED
        BY <1>3, <2>1, <2>3, <3>1
    <2>5. Del[r] \in Reading /\ Del[r].at = r.at + 1 /\ Del[r].d = y(r)
      BY <1>3, <2>1, <2>2
    <2>6. r.at + 1 \in a..b
      BY <1>1, <2>1, <2>3
    <2> HIDE DEF Del, Sure
    <2> QED
      BY <2>3, <2>4, <2>5, <2>6
  <1>7. Gives(Reading, Stop, Out, Kept, Post)
    <2> SUFFICES ASSUME NEW r \in Reading, r \in Kept
                 PROVE  Out[r] \in Post
      BY Zenon DEF Gives
    <2>1. Out[r] = IF r.at >= b THEN r ELSE [r EXCEPT !.d = y(r)]
      BY Zenon
    <2>0. /\ r.at \in a..b /\ r.d.lost = e.lost /\ r.d.mode = e.mode
          /\ Sure => r.at = a /\ r.d.left = 0
      BY Zenon
    <2> HIDE DEF y, Out
    <2>2. CASE r.at >= b
      <3>1. ~Sure
        BY <1>1, <2>0, <2>2
      <3> QED
        BY <2>0, <2>1, <2>2, <3>1 DEF Sampled
    <2>3. CASE ~(r.at >= b)
      <3>1. Out[r] = [r EXCEPT !.d = y(r)]
        BY <2>1, <2>3, Zenon
      <3>2. Out[r] \in Reading /\ Out[r].d = y(r) /\ Out[r].at = r.at
        BY <1>3, <2>3, <3>1
      <3>3. r.at < b
        BY <1>1, <1>2, <2>3
      <3>4. /\ y(r).lost = r.d.lost
            /\ y(r).mode = r.d.mode \/ Hears(y(r), r.at)
            /\ Sure => r.at = a /\ Hears(y(r), a) /\ y(r).left = 0
        BY <1>3, <2>0, <2>3
      <3> HIDE DEF Kept
      <3>5. Sampled(e, a, b, Out[r])
        BY <2>0, <3>2, <3>3, <3>4 DEF Sampled
      <3> QED
        BY <3>2, <3>5
    <2> QED
      BY <2>2, <2>3
  <1>8. r0 \in Reading /\ r0 \in Kept
    <2> DEFINE e0 == [e EXCEPT !.decoded = FALSE]
    <2>1. e0 \in Demuxed /\ e0.lost = e.lost /\ e0.mode = e.mode /\ e0.left = e.left
      BY DEF Demuxed
    <2>2. r0.at = a /\ r0.d = e0 /\ a \in 0..(last + 1) /\ a \in a..b
      BY <1>1
    <2> HIDE DEF e0
    <2> QED
      BY <2>1, <2>2 DEF Reading
  <1>9. Leads(Reading, go, Kept, Post)
    <2> HIDE DEF Stop, Out, Del, Kept, Post, go, mu
    <2> QED
      BY <1>4, <1>5, <1>6, <1>7, LoopEnds
  <1>10. go[r0] \in Post
    <2> HIDE DEF go, Kept, Post, r0
    <2> QED
      BY <1>8, <1>9 DEF Leads
  <1> HIDE DEF go, r0
  <1> QED
    BY <1>0, <1>10, Zenon

\* What the demuxer was asked for outside of the index, if anything.
InIndexOf(y) == y.lost # -1 => y.lost - 2 \in rec.cut

\* The first frame behind f with the sound that is looked for, which is g, and
\* all on the way there can be heard.
Meets(f, g) ==
    /\ rec.cut = {} /\ f < g /\ g <= hi + 1 /\ g < last
    /\ \A x \in (f + 1)..g : Sound(x) # "none" /\ (Sound(x) = help <=> x = g)

\* The frames from f on, one by one, to the first with the sound that is looked
\* for.  A frame behind the index is only reached
\* when the last frame of the recording was not heard although it has the sound
\* that is looked for: then the rest of the frame before was to be skipped.
LEMMA WalkLemma ==
    ASSUME Open, NEW e \in Demuxed, InIndexOf(e), help \in Modes, help # "none",
           NEW f \in Nat, hi \in Nat, f <= hi, hi < last,
           f < hi \/ hi < last - 1,
           hi = last - 1 => Sound(hi) = help /\ hi \notin rec.cut,
           NEW g \in Nat
    PROVE  /\ Walk(e, f) \in Reading
           /\ Walk(e, f).at \in (f + 1)..(hi + 1)
           /\ InIndexOf(Walk(e, f).d)
           /\ Meets(f, g) => Walk(e, f).at = g /\ Hears(Walk(e, f).d, g)
  <1> DEFINE x(r) == [r.d EXCEPT !.mode = "none"]
             y(r) == DemuxFrame(x(r), r.at + 1)
             Stop == {r \in Reading : r.at > hi \/ r.d.mode = help}
             Out == [r \in Reading |-> r]
             Del == [r \in Reading |-> [d |-> y(r), at |-> r.at + 1]]
             mu == [r \in Reading |-> last + 1 - r.at]
             F(h) == [r \in Reading |->
                         IF r.at > hi \/ r.d.mode = help THEN r
                         ELSE h[[d |-> y(r), at |-> r.at + 1]]]
             go == CHOOSE h : h = F(h)
             r0 == [d |-> [Reset(e) EXCEPT !.mode = "none"], at |-> f]
             Rest(r) == r.d.left = 0 \/ r.at \in rec.cut
             Skips(r) == r.at = last - 1 /\ r.d.mode # help => r.at - 1 \in rec.cut
             Onto(r) == /\ r.at <= g /\ r.d.left = 0
                        /\ r.at = g => Hears(r.d, g)
                        /\ r.at < g => r.d.mode # help
             Kept == {r \in Reading :
                         /\ r.at \in f..(hi + 1) /\ InIndexOf(r.d)
                         /\ r.at = f => r.d.mode = "none"
                         /\ r.at <= hi => Rest(r) /\ Skips(r)
                         /\ Meets(f, g) => Onto(r)}
             Post == {r \in Reading : /\ r.at \in (f + 1)..(hi + 1) /\ InIndexOf(r.d)
                                      /\ Meets(f, g) => r.at = g /\ Hears(r.d, g)}
  <1>0. Walk(e, f) = go[r0]
    BY DEF Walk
  <1>1. last \in Nat /\ hi \in Nat
    BY OpenRecording
  <1>2. \A r \in Reading : r.at \in 0..(last + 1) /\ r.d \in Demuxed
    BY DEF Reading
  <1>3. ASSUME NEW r \in Reading
        PROVE  x(r) \in Demuxed /\ x(r).lost = r.d.lost /\ x(r).left = r.d.left
    BY <1>2 DEF Demuxed, Modes
  <1>4. ASSUME NEW r \in Reading, ~(r.at > hi)
        PROVE  /\ r.at + 1 \in 0..last /\ y(r) \in Demuxed
               /\ [d |-> y(r), at |-> r.at + 1] \in Reading
    <2>1. r.at + 1 \in 0..last /\ r.at + 1 \in 0..(last + 1) /\ r.at + 1 \in Int
      BY <1>1, <1>2, <1>4
    <2> HIDE DEF x
    <2>2. y(r) \in Demuxed
      BY <1>3, <2>1, DemuxTyped
    <2> HIDE DEF y
    <2> QED
      BY <2>1, <2>2 DEF Reading
  <1>5. Falls(Reading, Stop, Del, last + 1, mu)
    <2>1. mu \in [Reading -> 0..(last + 1)]
      <3> SUFFICES ASSUME NEW r \in Reading PROVE last + 1 - r.at \in 0..(last + 1)
        BY Zenon
      <3> QED
        BY <1>1, <1>2
    <2>2. ASSUME NEW r \in Reading, r \notin Stop
          PROVE  Del[r] \in Reading /\ mu[Del[r]] < mu[r]
      <3>1. ~(r.at > hi)
        BY <2>2
      <3>2. Del[r] = [d |-> y(r), at |-> r.at + 1]
        BY Zenon
      <3> HIDE DEF y
      <3>3. Del[r] \in Reading /\ Del[r].at = r.at + 1
        BY <1>4, <3>1, <3>2
      <3> HIDE DEF Del
      <3>4. mu[Del[r]] = last + 1 - (r.at + 1) /\ mu[r] = last + 1 - r.at
        BY <3>3
      <3> QED
        BY <1>1, <1>2, <3>3, <3>4
    <2>3. last + 1 \in Nat
      BY <1>1
    <2> HIDE DEF Stop, Del, mu
    <2> QED
      BY <2>1, <2>2, <2>3 DEF Falls
  <1>6. go = CHOOSE h : Iteration(Reading, Stop, Out, Del, h)
    <2>1. ASSUME NEW h
          PROVE  [r \in Reading |-> IF r \in Stop THEN Out[r] ELSE h[Del[r]]] = F(h)
      <3> SUFFICES ASSUME NEW r \in Reading
                   PROVE  (IF r \in Stop THEN Out[r] ELSE h[Del[r]])
                            = IF r.at > hi \/ r.d.mode = help THEN r
                              ELSE h[[d |-> y(r), at |-> r.at + 1]]
        BY Zenon
      <3>1. Del[r] = [d |-> y(r), at |-> r.at + 1] /\ Out[r] = r
        BY Zenon
      <3>2. r \in Stop <=> r.at > hi \/ r.d.mode = help
        BY Zenon
      <3> HIDE DEF Del, Out, Stop, y
      <3> QED
        BY <3>1, <3>2, Zenon
    <2> HIDE DEF Stop, Out, Del, F
    <2>2. \A h : Iteration(Reading, Stop, Out, Del, h) <=> h = F(h)
      BY <2>1 DEF Iteration
    <2> QED
      BY <2>2
  <1>7. Keeps(Reading, Stop, Del, Kept)
    <2> SUFFICES ASSUME NEW r \in Reading, r \in Kept, r \notin Stop
                 PROVE  Del[r] \in Kept
      BY Zenon DEF Keeps
    <2>1. ~(r.at > hi) /\ r.d.mode # help
      BY Zenon
    <2>2. Del[r] = [d |-> y(r), at |-> r.at + 1]
      BY Zenon
    <2>3. /\ r.at \in f..(hi + 1) /\ InIndexOf(r.d)
          /\ r.at <= hi => Rest(r) /\ Skips(r)
          /\ Meets(f, g) => Onto(r)
      BY Zenon
    <2>4. r.at \in Nat /\ r.at <= hi /\ r.at >= f /\ Rest(r) /\ Skips(r)
      <3>1. r.at <= hi
        BY <1>1, <2>1, <2>3
      <3>2. Rest(r) /\ Skips(r)
        BY <2>3, <3>1
      <3> HIDE DEF Rest, Skips
      <3> QED
        BY <1>1, <2>3, <3>1, <3>2
    <2> DEFINE t == [d |-> y(r), at |-> r.at + 1]
    <2>5. t \in Reading /\ t.at = r.at + 1 /\ t.d = y(r)
      <3> HIDE DEF y
      <3> QED
        BY <1>4, <2>1
    <2>8. Meets(f, g) => r.at < g /\ r.d.left = 0
      <3> SUFFICES ASSUME Meets(f, g) PROVE r.at < g /\ r.d.left = 0
        OBVIOUS
      <3>1. r.at <= g /\ r.d.left = 0 /\ (r.at = g => Hears(r.d, g))
        BY <2>3
      <3>2. Sound(g) = help
        BY DEF Meets
      <3>3. r.at # g
        BY <2>1, <3>1, <3>2 DEF Hears
      <3> QED
        BY <2>4, <3>1, <3>3
    <2>6. CASE r.at + 1 = last
      <3>1. r.at = last - 1 /\ r.at = hi
        BY <1>1, <2>4, <2>6
      <3>2. r.at - 1 \in rec.cut
        BY <2>1, <2>4, <3>1
      <3>3. y(r).lost = last
        <4>1. r.at + 1 \notin 0..(last - 1) /\ r.at + 1 \in Int
          BY <1>1, <2>6
        <4> HIDE DEF x
        <4> QED
          BY <1>3, <2>6, <4>1, DemuxOutside
      <3>4. last - 2 = r.at - 1
        BY <1>1, <3>1
      <3> HIDE DEF y
      <3>5. InIndexOf(t.d)
        BY <2>5, <3>2, <3>3, <3>4 DEF InIndexOf
      <3> HIDE DEF t
      <3>6. t.at \in f..(hi + 1) /\ t.at # f /\ ~(t.at <= hi)
        BY <1>1, <2>4, <2>5, <3>1
      <3>8. ~Meets(f, g)
        BY <1>1, <2>4, <2>6, <2>8 DEF Meets
      <3>7. t \in Kept
        BY <2>5, <3>5, <3>6, <3>8, Zenon
      <3> QED
        BY <2>2, <3>7 DEF t
    <2>7. CASE r.at + 1 # last
      <3>1. r.at + 1 \in 0..(last - 1)
        BY <1>1, <1>4, <2>1, <2>7
      <3>2. /\ y(r).lost = r.d.lost
            /\ y(r).left = IF r.at + 1 \in rec.cut THEN rec.left ELSE 0
            /\ r.d.left <= 1 /\ Clear(r.at + 1) => Hears(y(r), r.at + 1)
        <4> HIDE DEF x
        <4> QED
          BY <1>3, <3>1, DemuxLemma
      <3> HIDE DEF y
      <3>3. InIndexOf(t.d)
        BY <2>3, <2>5, <3>2 DEF InIndexOf
      <3>4. Rest(t)
        BY <2>5, <3>2
      <3>5. t.at <= hi => Skips(t)
        <4> SUFFICES ASSUME t.at <= hi, t.at = last - 1, t.d.mode # help
                     PROVE  t.at - 1 \in rec.cut
          OBVIOUS
        <4> HIDE DEF t
        <4>1. hi = last - 1 /\ hi = r.at + 1 /\ t.at - 1 = r.at
          BY <1>1, <2>4, <2>5
        <4>2. Sound(r.at + 1) = help /\ r.at + 1 \notin rec.cut
          BY <4>1
        <4>3. ~(r.d.left <= 1)
          BY <2>5, <3>2, <4>2 DEF Hears, Clear
        <4>4. r.d.left # 0
          BY <4>3
        <4> QED
          BY <2>4, <4>1, <4>4
      <3>8. Meets(f, g) => Onto(t)
        <4> SUFFICES ASSUME Meets(f, g) PROVE Onto(t)
          OBVIOUS
        <4>1. r.at < g /\ r.d.left = 0
          BY <2>8
        <4>2. r.at + 1 \in (f + 1)..g /\ r.at + 1 \in Nat
          BY <2>4, <4>1
        <4>3. Clear(r.at + 1) /\ (Sound(r.at + 1) = help <=> r.at + 1 = g)
          BY <4>2 DEF Meets, Clear
        <4>4. Hears(y(r), r.at + 1) /\ y(r).left = 0
          BY <3>2, <4>1, <4>3 DEF Clear
        <4> HIDE DEF t
        <4>5. t.at <= g /\ t.d.left = 0 /\ Hears(t.d, t.at)
          BY <2>5, <4>2, <4>4
        <4>6. t.at < g => t.d.mode # help
          BY <2>5, <4>3, <4>4 DEF Hears
        <4> QED
          BY <4>5, <4>6
      <3> HIDE DEF t, Rest, Skips, Onto
      <3>6. t.at \in f..(hi + 1) /\ t.at # f
        BY <1>1, <2>4, <2>5
      <3>7. t \in Kept
        BY <2>5, <3>3, <3>4, <3>5, <3>6, <3>8, Zenon
      <3> QED
        BY <2>2, <3>7 DEF t
    <2> QED
      BY <2>6, <2>7
  <1>8. Gives(Reading, Stop, Out, Kept, Post)
    <2> SUFFICES ASSUME NEW r \in Reading, r \in Kept, r \in Stop
                 PROVE  Out[r] \in Post
      BY Zenon DEF Gives
    <2>1. /\ r.at \in f..(hi + 1) /\ InIndexOf(r.d)
          /\ r.at = f => r.d.mode = "none"
          /\ r.at > hi \/ r.d.mode = help
          /\ Meets(f, g) => Onto(r)
      BY Zenon
    <2>2. r.at # f
      BY <1>1, <2>1
    <2>3. r.at \in (f + 1)..(hi + 1)
      BY <1>1, <2>1, <2>2
    <2>5. Meets(f, g) => r.at = g /\ Hears(r.d, g)
      BY <1>1, <2>1 DEF Meets
    <2>4. r \in Post
      <3> HIDE DEF Kept, Stop, Onto
      <3> QED
        BY <2>1, <2>3, <2>5, Zenon
    <2> QED
      BY <2>4, Zenon
  <1>9. r0 \in Reading /\ r0 \in Kept
    <2> DEFINE e0 == [Reset(e) EXCEPT !.mode = "none"]
    <2>0. Reset(e) \in Demuxed /\ Reset(e).lost = e.lost /\ Reset(e).left = 0
      BY ResetTyped
    <2>1. e0 \in Demuxed /\ e0.lost = e.lost /\ e0.mode = "none" /\ e0.left = 0
      BY <2>0 DEF Demuxed, Modes
    <2>2. r0.at = f /\ r0.d = e0 /\ f \in 0..(last + 1) /\ f \in f..(hi + 1) /\ f # last - 1
      BY <1>1
    <2> HIDE DEF e0
    <2>3. r0 \in Reading
      BY <2>1, <2>2 DEF Reading
    <2>4. InIndexOf(r0.d) /\ Rest(r0) /\ Skips(r0)
      BY <2>1, <2>2 DEF InIndexOf
    <2>5. Meets(f, g) => Onto(r0)
      BY <2>1, <2>2 DEF Meets
    <2> HIDE DEF r0, Rest, Skips, Onto
    <2> QED
      BY <2>1, <2>2, <2>3, <2>4, <2>5, Zenon
  <1>10. Leads(Reading, go, Kept, Post)
    <2> HIDE DEF Stop, Out, Del, Kept, Post, go, mu
    <2> QED
      BY <1>5, <1>6, <1>7, <1>8, LoopEnds
  <1>11. go[r0] \in Post
    <2> HIDE DEF go, Kept, Post, r0
    <2> QED
      BY <1>9, <1>10 DEF Leads
  <1> HIDE DEF go, r0
  <1> QED
    BY <1>0, <1>11, Zenon

\* InARow stays within the recording and counts no more frames than it passes.
LEMMA InARowLemma ==
    ASSUME Open, NEW e \in Demuxed, NEW a \in 0..(last - 1), NEW k \in 0..a
    PROVE  /\ InARow(e, a, k).d \in Demuxed /\ InARow(e, a, k).d.lost = e.lost
           /\ InARow(e, a, k).at \in a..last
           /\ InARow(e, a, k).n \in Nat
           /\ InARow(e, a, k).n <= InARow(e, a, k).at /\ InARow(e, a, k).n < last
  <1> DEFINE Row == [d : Demuxed, at : 0..last, n : Nat]
             y(r) == DemuxFrame(r.d, r.at + 1)
             n(r) == IF y(r).mode = "surround" THEN r.n + 1 ELSE r.n
             Over(r) == ~(Detecting(r.at, r.n) /\ r.d.mode = "surround")
             next(r) == [d |-> y(r), at |-> r.at + 1, n |-> n(r)]
             Stop == {r \in Row : Over(r) \/ r.at + 1 = last}
             Out == [r \in Row |-> IF Over(r) THEN r ELSE [r EXCEPT !.at = last]]
             Del == [r \in Row |-> next(r)]
             mu == [r \in Row |-> last - r.at]
             F(g) == [r \in Row |-> IF Over(r) THEN r
                                    ELSE IF r.at + 1 = last THEN [r EXCEPT !.at = last]
                                    ELSE g[next(r)]]
             go == CHOOSE g : g = F(g)
             r0 == [d |-> e, at |-> a, n |-> k]
             Good(r) == /\ r \in Row /\ r.d.lost = e.lost /\ r.at \in a..last
                        /\ r.n <= r.at /\ r.n < last
             Kept == {r \in Row : Good(r)}
  <1>0. InARow(e, a, k) = go[r0]
    BY DEF InARow
  <1>1. last \in Nat
    BY OpenRecording
  <1>2. \A r \in Row : r.at \in 0..last /\ r.d \in Demuxed /\ r.n \in Nat
    OBVIOUS
  <1>3. ASSUME NEW r \in Row, ~Over(r), r.at + 1 # last
        PROVE  /\ r.at + 1 \in 0..(last - 1)
               /\ n(r) \in Nat /\ n(r) <= r.n + 1
               /\ y(r).lost = r.d.lost
               /\ next(r) \in Row
               /\ next(r).d = y(r) /\ next(r).at = r.at + 1 /\ next(r).n = n(r)
    <2>0. r.at < last
      BY <1>3 DEF Detecting
    <2>1. r.at + 1 \in 0..(last - 1) /\ r.at + 1 \in 0..last
      BY <1>1, <1>2, <1>3, <2>0
    <2>2. y(r) \in Demuxed /\ y(r).lost = r.d.lost
      BY <1>2, <2>1, DemuxLemma
    <2> HIDE DEF y
    <2>3. n(r) \in Nat /\ n(r) <= r.n + 1
      BY <1>2
    <2> HIDE DEF n
    <2> QED
      BY <2>1, <2>2, <2>3
  <1>4. Falls(Row, Stop, Del, last, mu)
    <2>1. mu \in [Row -> 0..last]
      <3> SUFFICES ASSUME NEW r \in Row PROVE last - r.at \in 0..last
        BY Zenon
      <3> QED
        BY <1>1, <1>2
    <2>2. ASSUME NEW r \in Row, r \notin Stop
          PROVE  Del[r] \in Row /\ mu[Del[r]] < mu[r]
      <3>1. ~Over(r) /\ r.at + 1 # last
        BY <2>2, Zenon
      <3>2. Del[r] = next(r)
        BY Zenon
      <3>3. Del[r] \in Row /\ Del[r].at = r.at + 1
        BY <1>3, <3>1, <3>2, Zenon
      <3> HIDE DEF Del
      <3>4. mu[Del[r]] = last - (r.at + 1) /\ mu[r] = last - r.at
        BY <3>3
      <3> HIDE DEF mu
      <3> QED
        BY <1>1, <1>2, <3>3, <3>4
    <2> HIDE DEF Stop, Del, mu, Row
    <2> QED
      BY <1>1, <2>1, <2>2 DEF Falls
  <1>5. go = CHOOSE g : Iteration(Row, Stop, Out, Del, g)
    <2>1. ASSUME NEW g
          PROVE  [r \in Row |-> IF r \in Stop THEN Out[r] ELSE g[Del[r]]] = F(g)
      <3> SUFFICES ASSUME NEW r \in Row
                   PROVE  (IF r \in Stop THEN Out[r] ELSE g[Del[r]])
                            = IF Over(r) THEN r
                              ELSE IF r.at + 1 = last THEN [r EXCEPT !.at = last]
                              ELSE g[next(r)]
        BY Zenon
      <3>1. Del[r] = next(r) /\ Out[r] = IF Over(r) THEN r ELSE [r EXCEPT !.at = last]
        BY Zenon
      <3>2. r \in Stop <=> Over(r) \/ r.at + 1 = last
        BY Zenon
      <3> HIDE DEF Del, Out, Stop, Over, next
      <3> QED
        BY <3>1, <3>2, Zenon
    <2> HIDE DEF Stop, Out, Del, F, Row
    <2>2. \A g : Iteration(Row, Stop, Out, Del, g) <=> g = F(g)
      BY <2>1 DEF Iteration
    <2> QED
      BY <2>2
  <1>6. Keeps(Row, Stop, Del, Kept)
    <2> SUFFICES ASSUME NEW r \in Row, r \in Kept, r \notin Stop
                 PROVE  Del[r] \in Kept
      BY Zenon DEF Keeps
    <2>1. ~Over(r) /\ r.at + 1 # last /\ Good(r)
      BY Zenon
    <2>2. Del[r] = next(r)
      BY Zenon
    <2> HIDE DEF Over, next, y, n, Row
    <2>3. /\ next(r).d.lost = e.lost /\ next(r).at \in a..last
          /\ next(r).n <= next(r).at /\ next(r).n < last
      BY <1>1, <1>2, <1>3, <2>1
    <2>4. next(r) \in Row
      BY <1>3, <2>1
    <2> QED
      BY <2>2, <2>3, <2>4, Zenon
  <1>7. Gives(Row, Stop, Out, Kept, Kept)
    <2> SUFFICES ASSUME NEW r \in Row, r \in Kept, r \in Stop
                 PROVE  Out[r] \in Kept
      BY Zenon DEF Gives
    <2>1. Out[r] = IF Over(r) THEN r ELSE [r EXCEPT !.at = last]
      BY Zenon
    <2>2. Good(r)
      BY Zenon
    <2>3. CASE Over(r)
      BY <2>1, <2>3, Zenon
    <2>4. CASE ~Over(r)
      <3>1. r.at + 1 = last
        BY <2>4, Zenon
      <3> HIDE DEF Over
      <3>2. Out[r] = [r EXCEPT !.at = last]
        BY <2>1, <2>4, Zenon
      <3>3. last \in 0..last /\ last \in a..last /\ r.n <= last
        BY <1>1, <1>2, <2>2, <3>1
      <3>4. Out[r] \in Row /\ Out[r].at = last /\ Out[r].d = r.d /\ Out[r].n = r.n
        <4> HIDE DEF Out, Kept, Good
        <4> QED
          BY <3>2, <3>3
      <3> HIDE DEF Out, Row
      <3> QED
        BY <2>2, <3>3, <3>4
    <2> QED
      BY <2>3, <2>4
  <1>8. r0 \in Row /\ r0 \in Kept
    <2>1. a \in 0..last /\ k \in Nat /\ k <= a /\ k < last /\ a \in a..last
      BY <1>1
    <2>2. r0 \in Row /\ r0.d = e /\ r0.at = a /\ r0.n = k
      BY <2>1
    <2> HIDE DEF r0, Row
    <2> QED
      BY <2>1, <2>2
  <1>9. Leads(Row, go, Kept, Kept)
    <2> HIDE DEF Stop, Out, Del, Kept, go, mu, Row
    <2> QED
      BY <1>4, <1>5, <1>6, <1>7, LoopEnds
  <1>10. go[r0] \in Kept
    <2> HIDE DEF go, Kept, r0, Row
    <2> QED
      BY <1>8, <1>9 DEF Leads
  <1>11. Good(go[r0])
    <2> HIDE DEF go, r0, Good
    <2> QED
      BY <1>10
  <1> HIDE DEF go, r0
  <1>12. go[r0] \in Row
    BY <1>11
  <1>13. go[r0].d \in Demuxed /\ go[r0].n \in Nat
    BY <1>2, <1>12
  <1> HIDE DEF Row
  <1> QED
    BY <1>0, <1>11, <1>13, Zenon

\* VideoByPTS goes back from f, and ends at a frame before it, but not before the
\* sound if no data end early.
LEMMA VideoByPTSLemma ==
    ASSUME Open, NEW e \in Demuxed, NEW f \in 0..(last - 1)
    PROVE  /\ VideoByPTS(e, f).d \in Demuxed /\ VideoByPTS(e, f).d.lost = e.lost
           /\ VideoByPTS(e, f).at \in 0..f
           /\ rec.cut = {} => VideoByPTS(e, f).at = f \/ VideoByPTS(e, f).at >= e.apts
  <1> DEFINE y(r) == DemuxFrame(r.d, r.at)
             Early(r) == r.at - 1 > 0 /\ y(r).vpts > e.apts
             Stop == {r \in Reading : ~Early(r)}
             Out == [r \in Reading |-> [r EXCEPT !.d = y(r)]]
             Del == [r \in Reading |-> [d |-> y(r), at |-> r.at - 1]]
             mu == [r \in Reading |-> r.at]
             F(g) == [r \in Reading |-> IF Early(r) THEN g[[d |-> y(r), at |-> r.at - 1]]
                                        ELSE [r EXCEPT !.d = y(r)]]
             go == CHOOSE g : g = F(g)
             r0 == [d |-> Reset(e), at |-> f]
             Timed(r) == r.d.left = 0 /\ (r.at = f \/ r.at >= e.apts)
             Kept == {r \in Reading : /\ r.at \in 0..f /\ r.d.lost = e.lost
                                      /\ rec.cut = {} => Timed(r)}
  <1>0. VideoByPTS(e, f) = go[r0]
    BY DEF VideoByPTS
  <1>1. last \in Nat
    BY OpenRecording
  <1>2. \A r \in Reading : r.at \in 0..(last + 1) /\ r.d \in Demuxed
    BY DEF Reading
  <1>3. \A r \in Reading : y(r) \in Demuxed
    <2> SUFFICES ASSUME NEW r \in Reading PROVE y(r) \in Demuxed
      OBVIOUS
    <2>1. r.at \in Int /\ r.d \in Demuxed
      BY <1>2
    <2> QED
      BY <2>1, DemuxTyped
  <1>4. ASSUME NEW r \in Reading, Early(r)
        PROVE  /\ r.at - 1 \in 0..(last + 1)
               /\ [d |-> y(r), at |-> r.at - 1] \in Reading
    <2>1. r.at - 1 > 0
      BY <1>4
    <2>2. r.at - 1 \in 0..(last + 1)
      BY <1>1, <1>2, <2>1
    <2> HIDE DEF y
    <2> QED
      BY <1>3, <2>2 DEF Reading
  <1>5. ASSUME NEW r \in Reading
        PROVE  /\ [r EXCEPT !.d = y(r)] \in Reading
               /\ [r EXCEPT !.d = y(r)] = [d |-> y(r), at |-> r.at]
    <2> HIDE DEF y
    <2> QED
      BY <1>3 DEF Reading
  <1>6. ASSUME NEW r \in Reading, r \in Kept
        PROVE  /\ y(r).lost = e.lost
               /\ rec.cut = {} => y(r).left = 0 /\ y(r).vpts = r.at
    <2>1. r.at \in 0..(last - 1) /\ r.d.lost = e.lost /\ (rec.cut = {} => r.d.left = 0)
      BY <1>1, <1>6
    <2>2. /\ y(r).lost = r.d.lost
          /\ y(r).left = IF r.at \in rec.cut THEN rec.left ELSE 0
          /\ r.d.left = 0 => y(r).vpts = r.at
      BY <1>2, <2>1, DemuxLemma
    <2> HIDE DEF y
    <2> QED
      BY <2>1, <2>2
  <1>7. Falls(Reading, Stop, Del, last + 1, mu)
    <2>1. mu \in [Reading -> 0..(last + 1)]
      BY <1>2, Zenon
    <2>2. ASSUME NEW r \in Reading, r \notin Stop
          PROVE  Del[r] \in Reading /\ mu[Del[r]] < mu[r]
      <3>1. Early(r)
        BY <2>2, Zenon
      <3>2. Del[r] = [d |-> y(r), at |-> r.at - 1]
        BY Zenon
      <3> HIDE DEF y, Early
      <3>3. Del[r] \in Reading /\ Del[r].at = r.at - 1
        BY <1>4, <3>1, <3>2
      <3> HIDE DEF Del
      <3>4. mu[Del[r]] = r.at - 1 /\ mu[r] = r.at
        BY <3>3
      <3> HIDE DEF mu
      <3> QED
        BY <1>2, <3>3, <3>4
    <2>3. last + 1 \in Nat
      BY <1>1
    <2> HIDE DEF Stop, Del, mu
    <2> QED
      BY <2>1, <2>2, <2>3 DEF Falls
  <1>8. go = CHOOSE g : Iteration(Reading, Stop, Out, Del, g)
    <2>1. ASSUME NEW g
          PROVE  [r \in Reading |-> IF r \in Stop THEN Out[r] ELSE g[Del[r]]] = F(g)
      <3> SUFFICES ASSUME NEW r \in Reading
                   PROVE  (IF r \in Stop THEN Out[r] ELSE g[Del[r]])
                            = IF Early(r) THEN g[[d |-> y(r), at |-> r.at - 1]]
                              ELSE [r EXCEPT !.d = y(r)]
        BY Zenon
      <3>1. /\ Del[r] = [d |-> y(r), at |-> r.at - 1]
            /\ Out[r] = [r EXCEPT !.d = y(r)]
        BY Zenon
      <3>2. r \in Stop <=> ~Early(r)
        BY Zenon
      <3> HIDE DEF Del, Out, Stop, y, Early
      <3> QED
        BY <3>1, <3>2, Zenon
    <2> HIDE DEF Stop, Out, Del, F
    <2>2. \A g : Iteration(Reading, Stop, Out, Del, g) <=> g = F(g)
      BY <2>1 DEF Iteration
    <2> QED
      BY <2>2
  <1>9. Keeps(Reading, Stop, Del, Kept)
    <2> SUFFICES ASSUME NEW r \in Reading, r \in Kept, r \notin Stop
                 PROVE  Del[r] \in Kept
      BY Zenon DEF Keeps
    <2>1. Early(r) /\ r.at \in 0..f
      BY Zenon
    <2>2. Del[r] = [d |-> y(r), at |-> r.at - 1]
      BY Zenon
    <2>3. r.at - 1 > 0 /\ y(r).lost = e.lost /\ y(r).vpts > e.apts
      BY <1>6, <2>1
    <2>6. e.apts \in Int
      BY DEF Demuxed
    <2>7. rec.cut = {} => y(r).left = 0 /\ r.at - 1 >= e.apts
      <3>1. rec.cut = {} => y(r).left = 0 /\ y(r).vpts = r.at
        BY <1>6
      <3> HIDE DEF y
      <3> QED
        BY <2>1, <2>3, <2>6, <3>1
    <2> HIDE DEF y, Early
    <2>4. Del[r] \in Reading /\ Del[r].at = r.at - 1 /\ Del[r].d = y(r)
      BY <1>4, <2>1, <2>2
    <2>5. r.at - 1 \in 0..f
      BY <2>1, <2>3
    <2> HIDE DEF Del
    <2> QED
      BY <2>3, <2>4, <2>5, <2>7
  <1>10. Gives(Reading, Stop, Out, Kept, Kept)
    <2> SUFFICES ASSUME NEW r \in Reading, r \in Kept
                 PROVE  Out[r] \in Kept
      BY Zenon DEF Gives
    <2>1. Out[r] = [r EXCEPT !.d = y(r)]
      BY Zenon
    <2>2. /\ y(r).lost = e.lost /\ r.at \in 0..f
          /\ rec.cut = {} => y(r).left = 0 /\ (r.at = f \/ r.at >= e.apts)
      BY <1>6
    <2> HIDE DEF y
    <2>3. Out[r] = [d |-> y(r), at |-> r.at] /\ Out[r] \in Reading
      <3> HIDE DEF Out
      <3> QED
        BY <1>5, <2>1
    <2>4. Out[r].d = y(r) /\ Out[r].at = r.at
      <3> HIDE DEF Out
      <3> QED
        BY <2>3
    <2> HIDE DEF Out
    <2> QED
      BY <2>2, <2>3, <2>4
  <1>11. r0 \in Reading /\ r0 \in Kept
    <2>1. Reset(e) \in Demuxed /\ Reset(e).lost = e.lost /\ Reset(e).left = 0
      BY ResetTyped
    <2>2. f \in 0..(last + 1) /\ f \in 0..f
      BY <1>1
    <2> QED
      BY <2>1, <2>2 DEF Reading
  <1>12. Leads(Reading, go, Kept, Kept)
    <2> HIDE DEF Stop, Out, Del, Kept, go, mu
    <2> QED
      BY <1>7, <1>8, <1>9, <1>10, LoopEnds
  <1>13. go[r0] \in Kept
    <2> HIDE DEF go, Kept, r0
    <2> QED
      BY <1>11, <1>12 DEF Leads
  <1> HIDE DEF go, r0
  <1>14. /\ go[r0] \in Reading /\ go[r0].at \in 0..f /\ go[r0].d.lost = e.lost
         /\ rec.cut = {} => go[r0].at = f \/ go[r0].at >= e.apts
    BY <1>13
  <1> QED
    BY <1>0, <1>2, <1>14

-----------------------------------------------------------------------------
(* The invariant.                                                          *)

Scanning == {"scan", "halve", "back", "mark", "next"}

TypeInv ==
    /\ Open /\ online \in BOOLEAN /\ haveAC3 \in BOOLEAN
    /\ d \in Demuxed /\ old \in Modes /\ help \in Modes
    /\ cur \in Nat /\ at \in Nat /\ from \in Nat /\ count \in Nat
    /\ lo \in Nat /\ hi \in Nat /\ cframe \in Nat
    /\ mark \in Int /\ (online => mark >= 0) /\ lastPos \in Nat

\* The detection has not counted more frames than it has passed, so that a
\* recording in which it finds enough of them is not a very short one; the scan
\* goes on from a sound that is not a change, and ac3Pass1 never looks at the
\* frame 0.
LoopInv ==
    /\ pc \in {"wait", "clean"} => online
    /\ pc = "detect" => count <= at /\ (count = 0 \/ count < last)
    /\ haveAC3 => last >= 3
    /\ pc \in Scanning => haveAC3 /\ cframe < last /\ (~online => cur >= 1)
    /\ pc = "scan" => ~Changed(d.mode)

\* The search for the change keeps within its interval.  It ends at a frame of
\* the recording, and at the last one only if that was heard; an interval of one
\* frame does not begin with the last one.
FindInv ==
    pc = "halve" =>
        /\ help # "none" /\ hi < last
        /\ lo < hi \/ (lo = hi /\ hi < last - 1)
        /\ hi = last - 1 => Sound(hi) = help /\ hi \notin rec.cut

IInv == TypeInv /\ LoopInv /\ FindInv /\ InIndexOf(d)

LEMMA ConstantFacts ==
    /\ Lengths \subseteq Nat
    /\ Skip \in Nat /\ Skip >= 1 /\ Gop \in Nat /\ Gop >= 1
    /\ Few \in Nat /\ ResetSkip \in Nat /\ Limit \in Nat
    /\ Near \in Nat /\ Near >= 2 /\ DetectCount \in Nat /\ DetectCount >= 2
  BY Ac3SearchAssumption

\* The demuxer gets another mode to go on with.
LEMMA ModeSet ==
    ASSUME NEW e \in Demuxed, NEW m \in Modes
    PROVE  /\ [e EXCEPT !.mode = m] \in Demuxed
           /\ [e EXCEPT !.mode = m].mode = m /\ [e EXCEPT !.mode = m].lost = e.lost
  BY DEF Demuxed

LEMMA IInvInit == Init => IInv
  <1> SUFFICES ASSUME Init
               PROVE  IInv
    OBVIOUS
  <1>1. d \in Demuxed /\ d.lost = -1
    BY DEF Init, Demuxed, Modes
  <1>2. TypeInv
    <2>1. /\ old \in Modes /\ help \in Modes /\ cur \in Nat /\ at \in Nat /\ from \in Nat
          /\ count \in Nat /\ lo \in Nat /\ hi \in Nat /\ cframe \in Nat
          /\ mark \in Int /\ mark >= 0 /\ lastPos \in Nat
      BY DEF Init, Modes
    <2>2. Open /\ online \in BOOLEAN /\ haveAC3 \in BOOLEAN
      BY DEF Init, Open
    <2> QED
      BY <1>1, <2>1, <2>2 DEF TypeInv
  <1>3. /\ pc = IF online THEN "wait" ELSE "detect"
        /\ count = 0 /\ at = 0 /\ haveAC3 = FALSE
    BY DEF Init
  <1>4. LoopInv /\ FindInv
    BY <1>3 DEF LoopInv, FindInv, Scanning
  <1> QED
    BY <1>1, <1>2, <1>4 DEF IInv, InIndexOf

LEMMA WaitKeeps == IInv /\ Wait => IInv'
  <1> SUFFICES ASSUME IInv, Wait
               PROVE  IInv'
    OBVIOUS
  <1> USE DEF IInv, TypeInv
  <1>1. last' \in Lengths /\ last \in Nat /\ last' \in Nat /\ last <= last'
    <2>1. last \in Lengths /\ last \in Nat /\ Lengths \subseteq Nat
      BY ConstantFacts, OpenRecording DEF Open
    <2>2. last' = last \/ (last' \in Lengths /\ last <= last')
      BY DEF Wait
    <2>3. CASE last' = last
      BY <2>1, <2>3
    <2>4. CASE last' \in Lengths /\ last <= last'
      BY <2>1, <2>4
    <2> QED
      BY <2>2, <2>3, <2>4
  <1>2. rec' = rec /\ online' = online /\ haveAC3' = haveAC3 /\ old' = old /\ help' = help
    BY DEF Wait, fixed
  <1>3. CASE haveAC3
    <2>1. /\ pc' = "scan" /\ d' = [d EXCEPT !.mode = old] /\ mark' = 0 /\ cframe' = 0
          /\ UNCHANGED <<at, count, cur, from, lo, hi, lastPos>>
      BY <1>3 DEF Wait
    <2>2. d' \in Demuxed /\ d'.mode = old /\ d'.lost = d.lost
      BY <2>1, ModeSet
    <2>3. TypeInv'
      BY <1>1, <1>2, <2>1, <2>2 DEF Open
    <2>4. LoopInv'
      <3>1. last' >= 3
        BY <1>1, <1>3 DEF LoopInv
      <3>2. online
        BY DEF Wait, LoopInv
      <3>3. ~Changed(d.mode)'
        BY <1>2, <2>2 DEF Changed
      <3>4. cframe' < last'
        BY <1>1, <2>1, <3>1
      <3> QED
        BY <1>2, <1>3, <2>1, <3>1, <3>2, <3>3, <3>4 DEF LoopInv
    <2>5. FindInv' /\ InIndexOf(d)'
      BY <1>2, <2>1, <2>2 DEF FindInv, InIndexOf
    <2> QED
      BY <2>3, <2>4, <2>5
  <1>4. CASE ~haveAC3
    <2>1. /\ pc' = "detect" /\ d' = [d EXCEPT !.mode = "none"] /\ at' = from /\ count' = 0
          /\ UNCHANGED <<mark, cframe, cur, from, lo, hi, lastPos>>
      BY <1>4 DEF Wait
    <2>2. d' \in Demuxed /\ d'.lost = d.lost
      BY <2>1, ModeSet DEF Modes
    <2>3. TypeInv'
      BY <1>1, <1>2, <2>1, <2>2 DEF Open
    <2>4. LoopInv'
      <3>1. 0 <= at'
        BY <2>1
      <3> QED
        BY <1>2, <1>4, <2>1, <3>1 DEF LoopInv, Scanning
    <2>5. FindInv' /\ InIndexOf(d)'
      BY <1>2, <2>1, <2>2 DEF FindInv, InIndexOf
    <2> QED
      BY <2>3, <2>4, <2>5
  <1> QED
    BY <1>3, <1>4

LEMMA DetectKeeps == IInv /\ Detect => IInv'
  <1> SUFFICES ASSUME IInv, Detect
               PROVE  IInv'
    OBVIOUS
  <1> USE DEF IInv, TypeInv
  <1>0. Open /\ last \in Nat /\ Skip \in Nat /\ Skip >= 1
    BY OpenRecording, ConstantFacts
  <1>1. /\ pc = "detect" /\ at < last /\ at \in 0..(last - 1)
        /\ count \in 0..at
    <2>1. pc = "detect" /\ at < last
      BY DEF Detect, Detecting
    <2> QED
      BY <1>0, <2>1 DEF LoopInv
  <1> DEFINE e == DemuxFrame(Reset(d), at)
             r == InARow(e, at, count)
  <1>2. e \in Demuxed /\ e.lost = d.lost
    BY <1>0, <1>1, ResetTyped, DemuxLemma
  <1>3. /\ r.d \in Demuxed /\ r.d.lost = d.lost
        /\ r.at \in at..last /\ r.n \in Nat /\ r.n <= r.at /\ r.n < last
    <2> HIDE DEF e
    <2> QED
      BY <1>0, <1>1, <1>2, InARowLemma
  <1>4. \/ d' = r.d /\ count' = r.n /\ at' = r.at + Skip
        \/ d' = e /\ count' = 0 /\ at' = at + Skip
    BY DEF Detect
  <1>5. UNCHANGED <<rec, online, last, pc, cur, old, help, from, lo, hi, cframe, mark, haveAC3,
                    lastPos>>
    BY DEF Detect, fixed, find, loop
  <1> HIDE DEF e, r
  <1>6. /\ d' \in Demuxed /\ d'.lost = d.lost /\ count' \in Nat /\ at' \in Nat
        /\ count' <= at' /\ (count' = 0 \/ count' < last)
    <2>1. CASE d' = r.d /\ count' = r.n /\ at' = r.at + Skip
      BY <1>0, <1>3, <2>1
    <2>2. CASE d' = e /\ count' = 0 /\ at' = at + Skip
      BY <1>0, <1>2, <2>2
    <2> QED
      BY <1>4, <2>1, <2>2
  <1>7. TypeInv'
    BY <1>5, <1>6 DEF Open
  <1>8. LoopInv'
    BY <1>1, <1>5, <1>6 DEF LoopInv, Scanning
  <1>9. FindInv' /\ InIndexOf(d)'
    BY <1>1, <1>5, <1>6 DEF FindInv, InIndexOf
  <1> QED
    BY <1>7, <1>8, <1>9

LEMMA DetectedKeeps == IInv /\ Detected => IInv'
  <1> SUFFICES ASSUME IInv, Detected
               PROVE  IInv'
    OBVIOUS
  <1> USE DEF IInv, TypeInv
  <1>0. Open /\ last \in Nat /\ DetectCount \in Nat /\ DetectCount >= 2
    BY OpenRecording, ConstantFacts
  <1> DEFINE found == count >= DetectCount
  <1>1. /\ pc = "detect" /\ haveAC3' = found
        /\ pc' = IF found THEN "scan" ELSE IF online THEN "clean" ELSE "done"
        /\ cur' = IF online THEN cur ELSE 1
        /\ d' = [d EXCEPT !.mode = old]
        /\ from' = IF online THEN last ELSE from
        /\ mark' = 0 /\ cframe' = 0
    BY DEF Detected
  <1>2. UNCHANGED <<rec, online, last, old, help, at, count, lo, hi,
                    lastPos>>
    BY DEF Detected, fixed
  <1>3. found => last >= 3
    BY <1>0, <1>1 DEF LoopInv
  <1>4. d' \in Demuxed /\ d'.mode = old /\ d'.lost = d.lost
    BY <1>1, ModeSet
  <1>5. cur' \in Nat /\ from' \in Nat /\ (~online => cur' >= 1)
    BY <1>0, <1>1
  <1>6. found \in BOOLEAN
    OBVIOUS
  <1> HIDE DEF found
  <1>7. TypeInv'
    BY <1>1, <1>2, <1>4, <1>5, <1>6 DEF Open
  <1>8. ~Changed(d.mode)'
    BY <1>2, <1>4 DEF Changed
  <1>9. LoopInv'
    <2>1. found => 0 < last
      BY <1>0, <1>3
    <2>2. CASE found
      BY <1>1, <1>2, <1>3, <1>5, <1>8, <2>1, <2>2 DEF LoopInv, Scanning
    <2>3. CASE ~found
      BY <1>1, <1>2, <2>3 DEF LoopInv, Scanning
    <2> QED
      BY <2>2, <2>3
  <1>10. FindInv' /\ InIndexOf(d)'
    BY <1>1, <1>2, <1>4 DEF FindInv, InIndexOf
  <1> QED
    BY <1>7, <1>9, <1>10

\* A sample that is a change is a frame that is heard, and the search goes back
\* from it: only for a change at the first frame it has no frame to go back to.
LEMMA SampleKeeps == IInv /\ Sample => IInv'
  <1> SUFFICES ASSUME IInv, Sample
               PROVE  IInv'
    OBVIOUS
  <1> USE DEF IInv, TypeInv
  <1>0. /\ Open /\ last \in Nat /\ Skip \in Nat /\ Skip >= 1 /\ Few \in Nat
        /\ pc = "scan" /\ cur < last /\ cur \in 0..last /\ last \in 0..last
    <2>1. Open /\ last \in Nat /\ Skip \in Nat /\ Skip >= 1 /\ Few \in Nat
      BY OpenRecording, ConstantFacts
    <2>2. pc = "scan" /\ cur < last
      BY DEF Sample
    <2> QED
      BY <2>1, <2>2
  <1>1. haveAC3 /\ last >= 3 /\ cframe < last /\ (~online => cur >= 1) /\ ~Changed(d.mode)
    BY <1>0 DEF LoopInv, Scanning
  <1> DEFINE r == FirstSound(Reset(d), cur, last)
  <1>2. /\ Reset(d) \in Demuxed /\ Reset(d).lost = d.lost /\ Reset(d).mode = d.mode
    BY ResetTyped
  <1>3. Sampled(Reset(d), cur, last, r)
    BY <1>0, <1>2, FirstSoundLemma
  <1>4. /\ d' = r.d
        /\ Changed(r.d.mode) =>
              /\ cur' = r.at /\ help' = r.d.mode
              /\ lo' = Max({r.at - Skip, IF online THEN 0 ELSE 1}) /\ hi' = r.at /\ at' = 0
              /\ pc' = IF online /\ hi' - lo' <= Few THEN "back" ELSE "halve"
        /\ ~Changed(r.d.mode) =>
              cur' = r.at + Skip /\ UNCHANGED <<help, lo, hi, at, pc>>
        /\ lastPos' \in {lastPos, r.at}
    BY DEF Sample
  <1>5. UNCHANGED <<rec, online, last, old, from, count, cframe, mark, haveAC3>>
    BY DEF Sample, fixed, detect, loop
  <1> HIDE DEF r
  <1>6. /\ r.d \in Demuxed /\ r.d.lost = d.lost /\ r.at \in cur..last
        /\ r.d.mode = d.mode \/ (r.at < last /\ Hears(r.d, r.at))
    BY <1>2, <1>3 DEF Sampled, Reading
  <1>7. r.d.mode \in Modes /\ r.at \in Nat /\ r.at >= cur /\ lastPos' \in Nat
    <2>1. r.at \in Nat /\ r.at >= cur
      BY <1>0, <1>6
    <2> QED
      BY <1>4, <1>6, <2>1 DEF Demuxed
  <1>8. CASE ~Changed(r.d.mode)
    <2>1. /\ d' = r.d /\ cur' = r.at + Skip /\ UNCHANGED <<help, lo, hi, at, pc>>
      BY <1>4, <1>8
    <2>2. cur' \in Nat /\ (~online => cur' >= 1)
      BY <1>0, <1>1, <1>7, <2>1
    <2>3. TypeInv'
      BY <1>5, <1>6, <1>7, <2>1, <2>2 DEF Open
    <2>4. ~Changed(d.mode)'
      BY <1>5, <1>8, <2>1 DEF Changed
    <2>5. LoopInv'
      BY <1>0, <1>1, <1>5, <2>1, <2>2, <2>4 DEF LoopInv, Scanning
    <2>6. FindInv' /\ InIndexOf(d)'
      BY <1>0, <1>5, <1>6, <2>1 DEF FindInv, InIndexOf
    <2> QED
      BY <2>3, <2>5, <2>6
  <1>9. CASE Changed(r.d.mode)
    <2>1. r.at < last /\ Hears(r.d, r.at)
      BY <1>1, <1>6, <1>9 DEF Changed
    <2> DEFINE first == IF online THEN 0 ELSE 1
    <2>2. /\ d' = r.d /\ cur' = r.at /\ help' = r.d.mode
          /\ lo' = Max({r.at - Skip, first}) /\ hi' = r.at /\ at' = 0
          /\ pc' = IF online /\ hi' - lo' <= Few THEN "back" ELSE "halve"
      BY <1>4, <1>9
    <2>3. /\ first \in 0..1 /\ (~online => first = 1) /\ first <= r.at
      BY <1>1, <1>7
    <2> HIDE DEF first
    <2>4. lo' = IF r.at - Skip >= first THEN r.at - Skip ELSE first
      <3>1. r.at - Skip \in Int /\ first \in Int
        BY <1>0, <1>7, <2>3
      <3>2. Max({r.at - Skip, first}) = IF r.at - Skip >= first THEN r.at - Skip ELSE first
        BY <3>1, GreatestOfTwo
      <3> QED
        BY <2>2, <3>2
    <2>5. lo' \in Nat /\ lo' <= hi' /\ (lo' = hi' => hi' = first)
      <3>1. /\ r.at \in Nat /\ hi' = r.at /\ Skip \in Nat /\ Skip >= 1
            /\ first \in Nat /\ first <= r.at
        BY <1>0, <1>7, <2>2, <2>3
      <3> QED
        BY <2>4, <3>1
    <2>6. cur' \in Nat /\ (~online => cur' >= 1)
      BY <1>1, <1>7, <2>2
    <2>7. TypeInv'
      BY <1>5, <1>6, <1>7, <2>2, <2>5, <2>6 DEF Open
    <2>8. LoopInv'
      <3>1. pc' \in {"back", "halve"}
        BY <2>2
      <3> QED
        BY <1>1, <1>5, <2>6, <3>1 DEF LoopInv, Scanning
    <2>9. FindInv'
      <3> SUFFICES ASSUME pc' = "halve"
                   PROVE  /\ help' # "none" /\ hi' < last
                          /\ lo' < hi' \/ (lo' = hi' /\ hi' < last - 1)
                          /\ Sound(hi)' = help' /\ hi' \notin rec.cut
        BY <1>5 DEF FindInv
      <3>1. help' # "none" /\ Sound(hi)' = help' /\ hi' \notin rec.cut /\ hi' < last
        BY <1>5, <2>1, <2>2 DEF Hears, Clear, Sound
      <3>2. lo' = hi' => hi' < last - 1
        BY <1>0, <1>1, <2>3, <2>5
      <3> QED
        BY <1>0, <2>2, <2>5, <3>1, <3>2, <1>7
    <2>10. InIndexOf(d)'
      BY <1>5, <1>6, <2>2 DEF InIndexOf
    <2> QED
      BY <2>7, <2>8, <2>9, <2>10
  <1> QED
    BY <1>8, <1>9

\* The middle of the interval and the frame where the search stops are within
\* the interval, and so it becomes shorter.
LEMMA HalveKeeps == IInv /\ Halve => IInv'
  <1> SUFFICES ASSUME IInv, Halve
               PROVE  IInv'
    OBVIOUS
  <1> USE DEF IInv, TypeInv
  <1>0. Open /\ last \in Nat /\ Near \in Nat /\ Near >= 2
    BY OpenRecording, ConstantFacts
  <1>1. pc = "halve" /\ hi - lo >= 3
    <2>1. pc = "halve" /\ hi - lo > Near
      BY DEF Halve
    <2> QED
      BY <1>0, <2>1
  <1>2. /\ help # "none" /\ hi < last
        /\ hi = last - 1 => Sound(hi) = help /\ hi \notin rec.cut
    BY <1>1 DEF FindInv
  <1> DEFINE middle == lo + (hi - lo + 1) \div 2
             e == IF at = 0 THEN Reset(d) ELSE d
             start == IF middle = at THEN middle - 1 ELSE middle
             r == FirstSound(e, start, hi)
  <1>3. middle \in Int /\ lo + 2 <= middle /\ middle < hi
    <2> DEFINE m == (hi - lo + 1) \div 2
    <2>1. m \in Int /\ 2 * m <= hi - lo + 1 /\ hi - lo + 1 < 2 * m + 2
      BY Z3
    <2> HIDE DEF m
    <2>2. 2 <= m /\ m < hi - lo
      BY <1>1, <2>1
    <2>3. middle = lo + m
      BY DEF m
    <2> HIDE DEF middle
    <2> QED
      BY <2>1, <2>2, <2>3
  <1> HIDE DEF middle
  <1>4. start \in 0..hi /\ lo < start /\ hi \in 0..last
    BY <1>0, <1>2, <1>3
  <1> HIDE DEF start
  <1>5. e \in Demuxed /\ e.lost = d.lost
    BY ResetTyped
  <1> HIDE DEF e
  <1>6. Sampled(e, start, hi, r)
    BY <1>0, <1>4, <1>5, FirstSoundLemma
  <1>7. /\ d' = r.d /\ at' = Min({r.at, hi - 1})
        /\ (hi' = at' /\ lo' = lo) \/ (lo' = at' /\ hi' = hi)
    BY DEF Halve, middle, e, start
  <1> HIDE DEF r
  <1>8. r.d \in Demuxed /\ r.d.lost = d.lost /\ r.at \in start..hi
    BY <1>5, <1>6 DEF Sampled, Reading
  <1>9. at' \in Nat /\ lo < at' /\ at' < hi
    <2>1. r.at \in Int /\ hi - 1 \in Int
      BY <1>4, <1>8
    <2>2. Min({r.at, hi - 1}) = IF r.at <= hi - 1 THEN r.at ELSE hi - 1
      BY <2>1, LeastOfTwo
    <2>3. at' = IF r.at <= hi - 1 THEN r.at ELSE hi - 1
      BY <1>7, <2>2
    <2> QED
      BY <1>1, <1>4, <1>8, <2>3
  <1>10. UNCHANGED <<rec, online, last, pc, cur, old, help, from, count, cframe, mark, haveAC3,
                    lastPos>>
    BY DEF Halve, fixed, detect, loop
  <1>11. TypeInv'
    BY <1>7, <1>8, <1>9, <1>10 DEF Open
  <1>12. LoopInv'
    BY <1>1, <1>10 DEF LoopInv, Scanning
  <1>13. FindInv'
    <2>1. CASE hi' = at' /\ lo' = lo
      <3>1. hi' < last - 1 /\ hi' < last /\ lo' < hi' /\ hi' # last - 1
        BY <1>0, <1>2, <1>9, <2>1
      <3>2. help' = help /\ last' = last
        BY <1>10
      <3> QED
        BY <1>2, <3>1, <3>2 DEF FindInv
    <2>2. CASE lo' = at' /\ hi' = hi
      <3>1. lo' < hi'
        BY <1>9, <2>2
      <3> QED
        BY <1>2, <1>10, <2>2, <3>1 DEF FindInv, Sound
    <2> QED
      BY <1>7, <2>1, <2>2
  <1>14. InIndexOf(d)'
    BY <1>7, <1>8, <1>10 DEF InIndexOf
  <1> QED
    BY <1>11, <1>12, <1>13, <1>14

LEMMA FoundKeeps == IInv /\ Found => IInv'
  <1> SUFFICES ASSUME IInv, Found
               PROVE  IInv'
    OBVIOUS
  <1> USE DEF IInv, TypeInv
  <1>0. Open /\ last \in Nat
    BY OpenRecording
  <1>1. pc = "halve"
    BY DEF Found
  <1>2. /\ help # "none" /\ hi < last 
        /\ lo < hi \/ hi < last - 1
        /\ hi = last - 1 => Sound(hi) = help /\ hi \notin rec.cut
    BY <1>1 DEF FindInv
  <1>3. lo <= hi
    BY <1>1 DEF FindInv
  <1> DEFINE r == Walk(d, lo)
  <1>4. r \in Reading /\ r.at \in (lo + 1)..(hi + 1) /\ InIndexOf(r.d)
    BY <1>0, <1>2, <1>3, WalkLemma, 0 \in Nat
  <1>5. /\ d' = r.d /\ at' = r.at /\ cframe' = r.at - 1
        /\ pc' \in {"back", "next"}
    BY DEF Found
  <1> HIDE DEF r
  <1>6. r.d \in Demuxed
    BY <1>4 DEF Reading
  <1>7. at' \in Nat /\ cframe' \in Nat /\ cframe' < last
    BY <1>0, <1>2, <1>4, <1>5
  <1>8. UNCHANGED <<rec, online, last, cur, old, help, from, count, lo, hi, mark, haveAC3,
                    lastPos>>
    BY DEF Found, fixed, detect, loop
  <1>9. TypeInv'
    BY <1>5, <1>6, <1>7, <1>8 DEF Open
  <1>10. LoopInv'
    BY <1>1, <1>5, <1>7, <1>8 DEF LoopInv, Scanning
  <1>11. FindInv' /\ InIndexOf(d)'
    BY <1>4, <1>5, <1>8 DEF FindInv, InIndexOf
  <1> QED
    BY <1>9, <1>10, <1>11

LEMMA BackKeeps == IInv /\ Back => IInv'
  <1> SUFFICES ASSUME IInv, Back
               PROVE  IInv'
    OBVIOUS
  <1> USE DEF IInv, TypeInv
  <1>0. Open /\ last \in Nat
    BY OpenRecording
  <1>1. pc = "back" /\ pc' = "mark"
    BY DEF Back
  <1>2. cframe \in 0..(last - 1)
    BY <1>0, <1>1 DEF LoopInv, Scanning
  <1> DEFINE r == VideoByPTS(d, cframe)
  <1>3. r.d \in Demuxed /\ r.d.lost = d.lost /\ r.at \in 0..cframe
    BY <1>0, <1>2, VideoByPTSLemma
  <1>4. d' = r.d /\ cframe' = r.at
    BY DEF Back
  <1> HIDE DEF r
  <1>5. cframe' \in Nat /\ cframe' < last
    BY <1>0, <1>2, <1>3, <1>4
  <1>6. UNCHANGED <<rec, online, last, cur, old, help, at, from, count, lo, hi, mark, haveAC3,
                    lastPos>>
    BY DEF Back, fixed, detect, loop
  <1>7. TypeInv'
    BY <1>3, <1>4, <1>5, <1>6 DEF Open
  <1>8. LoopInv'
    BY <1>1, <1>5, <1>6 DEF LoopInv, Scanning
  <1>9. FindInv' /\ InIndexOf(d)'
    BY <1>1, <1>3, <1>4, <1>6 DEF FindInv, InIndexOf
  <1> QED
    BY <1>7, <1>8, <1>9

\* What GetNextIFrame returns is a number, and not negative where scanLoop
\* has looked at it.
LEMMA ToggleKeeps == IInv /\ Toggle => IInv'
  <1> SUFFICES ASSUME IInv, Toggle
               PROVE  IInv'
    OBVIOUS
  <1> USE DEF IInv, TypeInv
  <1>0. Open /\ last \in Nat /\ Gop \in Nat /\ Gop >= 1
    BY OpenRecording, ConstantFacts
  <1>1. pc = "mark"
    BY DEF Toggle
  <1> DEFINE p == IF help = "surround" THEN NextI(cframe) ELSE PrevI(cframe)
  <1>2. p \in Int
    <2>1. cframe \div Gop \in Int /\ (cframe - 1) \div Gop \in Int
      BY <1>0, Z3
    <2>2. \A x \in Int : Gop * x \in Int
      BY <1>0
    <2>3. Gop * (cframe \div Gop + 1) \in Int /\ Gop * ((cframe - 1) \div Gop) \in Int
      <3> DEFINE j == cframe \div Gop
      <3>1. j + 1 \in Int
        BY <2>1
      <3> HIDE DEF j
      <3>2. Gop * (j + 1) \in Int
        BY <2>2, <3>1
      <3> QED
        BY <2>1, <2>2, <3>2 DEF j
    <2> QED
      BY <2>3 DEF NextI, PrevI
  <1>3. \/ online /\ p <= 0 /\ cur' = mark /\ pc' = "clean" /\ mark' = mark
        \/ ~(online /\ p <= 0) /\ mark' = p /\ pc' = "next" /\ cur' = cur
    BY DEF Toggle
  <1>4. UNCHANGED <<rec, online, last, d, old, help, at, from, count, lo, hi, cframe, haveAC3,
                    lastPos>>
    BY DEF Toggle, fixed, detect, find, loop
  <1> HIDE DEF p
  <1>5. CASE online /\ p <= 0 /\ cur' = mark /\ pc' = "clean" /\ mark' = mark
    <2>1. cur' \in Nat
      BY <1>5
    <2>2. TypeInv'
      BY <1>4, <1>5, <2>1 DEF Open
    <2>3. LoopInv'
      BY <1>1, <1>4, <1>5 DEF LoopInv, Scanning
    <2>4. FindInv' /\ InIndexOf(d)'
      BY <1>4, <1>5 DEF FindInv, InIndexOf
    <2> QED
      BY <2>2, <2>3, <2>4
  <1>6. CASE ~(online /\ p <= 0) /\ mark' = p /\ pc' = "next" /\ cur' = cur
    <2>1. mark' \in Int /\ (online => mark' >= 0)
      BY <1>2, <1>6
    <2>2. TypeInv'
      BY <1>4, <1>6, <2>1 DEF Open
    <2>3. LoopInv'
      BY <1>1, <1>4, <1>6 DEF LoopInv, Scanning
    <2>4. FindInv' /\ InIndexOf(d)'
      BY <1>4, <1>6 DEF FindInv, InIndexOf
    <2> QED
      BY <2>2, <2>3, <2>4
  <1> QED
    BY <1>3, <1>5, <1>6

LEMMA ProceedKeeps == IInv /\ Proceed => IInv'
  <1> SUFFICES ASSUME IInv, Proceed
               PROVE  IInv'
    OBVIOUS
  <1> USE DEF IInv, TypeInv
  <1>0. Skip \in Nat /\ Skip >= 1
    BY ConstantFacts
  <1>1. /\ pc = "next" /\ pc' = "scan" /\ old' = help /\ d' = [d EXCEPT !.mode = help]
        /\ cur' = cur + Skip /\ lastPos' \in {lastPos, cur}
        /\ UNCHANGED <<rec, online, last, help, at, from, count, lo, hi, cframe, mark, haveAC3>>
    BY DEF Proceed, fixed, detect, find, loop
  <1>2. d' \in Demuxed /\ d'.mode = help /\ d'.lost = d.lost
    BY <1>1, ModeSet
  <1>3. cur' \in Nat /\ (~online => cur' >= 1)
    BY <1>0, <1>1
  <1>4. TypeInv'
    BY <1>1, <1>2, <1>3 DEF Open
  <1>5. ~Changed(d.mode)'
    BY <1>1, <1>2 DEF Changed
  <1>6. LoopInv'
    BY <1>1, <1>3, <1>5 DEF LoopInv, Scanning
  <1>7. FindInv' /\ InIndexOf(d)'
    BY <1>1, <1>2 DEF FindInv, InIndexOf
  <1> QED
    BY <1>4, <1>6, <1>7

LEMMA EndKeeps == IInv /\ (PassDone \/ RoundDone \/ Clean) => IInv'
  <1> SUFFICES ASSUME IInv, PassDone \/ RoundDone \/ Clean
               PROVE  IInv'
    OBVIOUS
  <1> USE DEF IInv, TypeInv
  <1>1. CASE PassDone \/ RoundDone
    <2>1. /\ pc' = "done" \/ (pc' = "clean" /\ online)
          /\ UNCHANGED <<rec, online, last, d, cur, old, help, at, from, count, lo, hi, cframe,
                         mark, haveAC3, lastPos>>
      BY <1>1 DEF PassDone, RoundDone, fixed, detect, find, loop
    <2>2. TypeInv'
      BY <2>1 DEF Open
    <2>3. LoopInv'
      BY <2>1 DEF LoopInv, Scanning
    <2>4. FindInv' /\ InIndexOf(d)'
      BY <2>1 DEF FindInv, InIndexOf
    <2> QED
      BY <2>2, <2>3, <2>4
  <1>2. CASE Clean
    <2>1. /\ pc = "clean" /\ pc' \in {"done", "wait"}
          /\ \/ haveAC3' = FALSE /\ from' = lastPos + ResetSkip
             \/ haveAC3' = haveAC3 /\ from' = from
          /\ UNCHANGED <<rec, online, last, d, cur, old, help, at, count, lo, hi, cframe, mark,
                         lastPos>>
      BY <1>2 DEF Clean, fixed, find
    <2>2. from' \in Nat
      BY <2>1, ConstantFacts
    <2>3. TypeInv'
      BY <2>1, <2>2 DEF Open
    <2>4. LoopInv'
      BY <2>1 DEF LoopInv, Scanning
    <2>5. FindInv' /\ InIndexOf(d)'
      BY <2>1 DEF FindInv, InIndexOf
    <2> QED
      BY <2>3, <2>4, <2>5
  <1> QED
    BY <1>1, <1>2

LEMMA StutterKeeps == IInv /\ UNCHANGED vars => IInv'
  <1> SUFFICES ASSUME IInv, UNCHANGED vars
               PROVE  IInv'
    OBVIOUS
  <1>1. UNCHANGED <<rec, online, last, d, pc, cur, old, help, at, from, count, lo, hi, cframe,
                    mark, haveAC3, lastPos>>
    BY DEF vars, fixed, detect, find, loop
  <1> QED
    BY <1>1 DEF IInv, TypeInv, Open, LoopInv, Changed, FindInv, Sound, InIndexOf

-----------------------------------------------------------------------------
LEMMA IInvStep == IInv /\ [Next]_vars => IInv'
  BY WaitKeeps, DetectKeeps, DetectedKeeps, SampleKeeps, HalveKeeps, FoundKeeps, BackKeeps,
     ToggleKeeps, ProceedKeeps, EndKeeps, StutterKeeps DEF Next

\* The inductive invariant: the interval of the search stays within the
\* recording (mpeg_decoder.cpp, 262-303), and it is a recording of some length,
\* because the detection has counted so many frames in 5.1 (mpeg_decoder.cpp,
\* 161-194).
THEOREM Invariant == Spec => []IInv
  <1>1. Init => IInv
    BY IInvInit
  <1>2. IInv /\ [Next]_vars => IInv'
    BY IInvStep
  <1> QED
    BY <1>1, <1>2, PTL DEF Spec

\* In every recording, with silent and broken frames anywhere, the demuxer is
\* only asked for frames that the index has (mpeg_decoder.cpp, 741); but for one
\* case, the last frames of a recording whose last frame but one ends early.
THEOREM InIndexHolds == Spec => []InIndex
  <1>1. IInv => InIndex
    BY DEF IInv, InIndexOf, InIndex
  <1> QED
    BY <1>1, Invariant, PTL

-----------------------------------------------------------------------------
(* The marks of a recording in which every frame is heard.                 *)

\* No frame is silent, and no data end early.
Whole == rec.cut = {} /\ \A f \in 0..(last - 1) : Sound(f) # "none"

\* The sound of the frame is in 5.1; there is none in front of the recording.
Surround(f) == f >= 0 /\ Sound(f) = "surround"

\* The frames where that changes, those up to the frame s, and how far they are
\* apart.
Turns == {f \in 0..(last - 1) : ~(Surround(f) <=> Surround(f - 1))}
Passed(s) == {f \in Turns : f <= s}
Far ==
    \A f \in Turns :
        /\ f > 0 => f - 1 > Wide + 2 * Slack
        /\ \A g \in Turns : g < f => f - 1 - g > Wide + 2 * Slack

Plain == Whole /\ Far /\ ~restarted

\* A mark for the change at f.
Marked(m, f) ==
    \/ m >= 0 /\ f - 1 - Slack <= m /\ m <= f + Slack
    \/ m = -1 /\ ~online /\ f >= last - Limit - Slack

\* Each of the changes F has one mark, and there are no others.
Fits(M, F) ==
    /\ \A m \in M : m \in Int /\ \E f \in F : Marked(m, f)
    /\ \A f \in F : \E m \in M : Marked(m, f)
    /\ \A f \in F : \A m, n \in M : Marked(m, f) /\ Marked(n, f) => m = n

\* The first sample, and the last one whose change has its mark.
First == IF online THEN 0 ELSE 1
Settled == IF pc = "next" THEN cur ELSE cur - Skip

\* The samples follow one another, and the sound to compare with is that of the
\* one before.
SamplesInv ==
    /\ pc \in Scanning \/ online => cur = First \/ cur >= First + Skip
    /\ pc = "detect" /\ ~online => cur = 0
    /\ pc = "scan" /\ cur = 0 => cframe = 0
    /\ cur < last + Skip
    /\ old = "surround" <=> (cur - Skip >= First /\ Surround(cur - Skip))

\* The change at f is behind the sample before and not behind this one, and the
\* search is about to find it; one at the frame 0 is met by the first sample.
Hunted(f) ==
    /\ f \in Turns /\ cur - Skip < f /\ f <= cur /\ cur < last
    /\ help = Sound(cur) /\ ~(help = "surround" <=> old = "surround")
    /\ pc = "halve" =>
        /\ d.left = 0 /\ cur - Skip <= lo /\ hi <= cur
        /\ (lo < f /\ f <= hi) \/ (f = 0 /\ lo = 1 /\ hi = 1 /\ cur = 1)
    /\ pc = "back" =>
        /\ d.apts >= cframe - Lag
        /\ f - 1 <= cframe /\ cframe <= f + 1 /\ (f > 0 => cframe < f)
    /\ pc = "mark" =>
        /\ f - 1 - Lag <= cframe /\ cframe <= f + 1 /\ (f > 0 => cframe < f)

HuntInv == pc \in {"halve", "back", "mark", "next"} => \E f \in Turns : Hunted(f)

FitInv == pc # "done" => Fits(marks, Passed(Settled))

MarksInv == Plain => SamplesInv /\ HuntInv /\ FitInv

\* The bounds of the search, and how far the step of the scan exceeds them.
LEMMA StepFacts ==
    /\ Skip \in Nat /\ Slack \in Nat /\ Few \in Nat /\ Limit \in Nat
    /\ Lag \in Nat /\ Gop \in Nat /\ Gop >= 1
    /\ Slack = Gop + Lag + 1 /\ Few < Skip /\ Limit + Slack <= Skip /\ Skip >= 2
  BY Ac3SearchAssumption, Ac3StepsAssumption DEF Slack

LEMMA WideFacts ==
    /\ Wide \in Nat /\ Wide >= Skip
    /\ online => Wide >= MinMark /\ Wide >= MinActiveMark
  <1>1. Skip \in Nat /\ MinMark \in Nat /\ MinActiveMark \in Nat
    BY StepFacts, MarkCleanupAssumption
  <1>2. Max({Skip, MinMark, MinActiveMark}) \in {Skip, MinMark, MinActiveMark}
        /\ \A x \in {Skip, MinMark, MinActiveMark} : Max({Skip, MinMark, MinActiveMark}) >= x
    <2>1. \E x \in {Skip, MinMark, MinActiveMark} :
              \A y \in {Skip, MinMark, MinActiveMark} : x >= y
      BY <1>1
    <2> QED
      BY <2>1 DEF Max
  <1> HIDE DEF Max
  <1> QED
    BY <1>1, <1>2 DEF Wide

\* Between two frames without a change the sound stays what it is.
LEMMA NoTurn ==
    ASSUME last \in Nat, NEW a \in 0..(last - 1), NEW b \in a..(last - 1),
           \A f \in Turns : f <= a \/ b < f
    PROVE  \A x \in a..b : Surround(x) <=> Surround(a)
  <1> DEFINE S == {i \in 0..(b - a) : Surround(a + i) <=> Surround(a)}
  <1>1. a \in Nat /\ b \in Nat /\ a <= b /\ b <= last - 1 /\ b - a \in Nat
    OBVIOUS
  <1>2. 0 \in S
    BY <1>1
  <1>3. ASSUME NEW i \in 1..(b - a), i - 1 \in S
        PROVE  i \in S
    <2>1. a + i \in 0..(last - 1) /\ a + i > a /\ a + i <= b /\ i \in 0..(b - a)
      BY <1>1, <1>3
    <2>2. a + i \notin Turns
      BY <1>1, <2>1
    <2>3. Surround(a + i) <=> Surround(a + i - 1)
      BY <2>1, <2>2 DEF Turns
    <2>4. a + i - 1 = a + (i - 1)
      BY <1>1, <2>1
    <2>5. Surround(a + (i - 1)) <=> Surround(a)
      BY <1>3
    <2> HIDE DEF Surround
    <2> QED
      BY <2>1, <2>3, <2>4, <2>5
  <1>4. \A i \in 0..(b - a) : i \in S
    <2> HIDE DEF S
    <2> QED
      BY <1>1, <1>2, <1>3, InductionUpTo
  <1> SUFFICES ASSUME NEW x \in a..b
               PROVE  Surround(x) <=> Surround(a)
    OBVIOUS
  <1>5. x - a \in 0..(b - a) /\ a + (x - a) = x
    BY <1>1
  <1> HIDE DEF Surround
  <1> QED
    BY <1>4, <1>5

\* Within a step of the scan there is at most one change, which the samples at
\* its ends tell.
LEMMA OneTurn ==
    ASSUME last \in Nat, Far, NEW a \in 0..(last - 1), NEW b \in a..(last - 1),
           b - a <= Skip
    PROVE  /\ ~(Surround(a) <=> Surround(b)) => \E f \in Turns : a < f /\ f <= b
           /\ \A f \in Turns : a < f /\ f <= b =>
                 /\ \A x \in f..b : Surround(x) <=> Surround(f)
                 /\ \A x \in a..(f - 1) : Surround(x) <=> ~Surround(f)
                 /\ \A g \in Turns : a < g /\ g <= b => g = f
  <1>0. /\ a \in Nat /\ b \in Nat /\ a <= b /\ b <= last - 1
        /\ Skip \in Nat /\ Slack \in Nat /\ Wide \in Nat /\ Wide >= Skip
    BY StepFacts, WideFacts
  <1> HIDE DEF Wide, Slack
  <1>1. ~(Surround(a) <=> Surround(b)) => \E f \in Turns : a < f /\ f <= b
    <2> SUFFICES ASSUME \A f \in Turns : ~(a < f /\ f <= b)
                 PROVE  Surround(a) <=> Surround(b)
      BY Zenon
    <2>1. \A f \in Turns : f \in Int
      BY <1>0 DEF Turns
    <2>2. \A f \in Turns : f <= a \/ b < f
      BY <1>0, <2>1
    <2>3. b \in a..b
      BY <1>0
    <2> HIDE DEF Surround, Turns
    <2>4. Surround(b) <=> Surround(a)
      BY <1>0, <2>2, <2>3, NoTurn
    <2> QED
      BY <2>4
  <1>2. ASSUME NEW f \in Turns, a < f, f <= b
        PROVE  /\ \A x \in f..b : Surround(x) <=> Surround(f)
               /\ \A x \in a..(f - 1) : Surround(x) <=> ~Surround(f)
               /\ \A g \in Turns : a < g /\ g <= b => g = f
    <2>1. \A g \in Turns : g \in 0..(last - 1) /\ g \in Int
      BY <1>0 DEF Turns
    <2>2. \A g \in Turns : a < g /\ g <= b => g = f
      <3> SUFFICES ASSUME NEW g \in Turns, a < g, g <= b PROVE g = f
        OBVIOUS
      <3>1. g < f => f - 1 - g > Wide + 2 * Slack
        BY DEF Far
      <3>2. f < g => g - 1 - f > Wide + 2 * Slack
        BY DEF Far
      <3> QED
        BY <1>0, <1>2, <2>1, <3>1, <3>2
    <2>3. \A x \in f..b : Surround(x) <=> Surround(f)
      <3>1. \A g \in Turns : g <= f \/ b < g
        BY <1>0, <1>2, <2>1, <2>2
      <3>2. f \in 0..(last - 1) /\ b \in f..(last - 1)
        BY <1>0, <1>2, <2>1
      <3> HIDE DEF Surround, Turns
      <3> QED
        BY <1>0, <3>1, <3>2, NoTurn
    <2>4. \A x \in a..(f - 1) : Surround(x) <=> Surround(a)
      <3>1. \A g \in Turns : g <= a \/ f - 1 < g
        BY <1>0, <1>2, <2>1, <2>2
      <3>2. f - 1 \in a..(last - 1)
        BY <1>0, <1>2, <2>1
      <3> HIDE DEF Surround, Turns
      <3> QED
        BY <1>0, <3>1, <3>2, NoTurn
    <2>5. f - 1 \in a..(f - 1)
      BY <1>0, <1>2, <2>1
    <2>6. ~(Surround(f) <=> Surround(f - 1))
      BY DEF Turns
    <2>7. Surround(f - 1) <=> Surround(a)
      BY <2>4, <2>5
    <2>8. \A x \in a..(f - 1) : Surround(x) <=> ~Surround(f)
      <3> HIDE DEF Surround
      <3> QED
        BY <2>4, <2>6, <2>7
    <2> HIDE DEF Surround
    <2> QED
      BY <2>2, <2>3, <2>8
  <1> QED
    BY <1>1, <1>2


LEMMA Steady ==
    ASSUME UNCHANGED <<rec, online, last>>
    PROVE  /\ Whole' <=> Whole
           /\ Far' <=> Far
           /\ Turns' = Turns /\ First' = First
           /\ \A f : Surround(f)' <=> Surround(f)
           /\ \A m, f : Marked(m, f)' <=> Marked(m, f)
           /\ \A s : Passed(s)' = Passed(s)
  <1>1. \A f : Surround(f)' <=> Surround(f)
    BY DEF Surround, Sound
  <1>2. Turns' = Turns
    BY DEF Turns, Surround, Sound
  <1>3. Far' <=> Far
    BY <1>2 DEF Far, Wide
  <1>4. \A m, f : Marked(m, f)' <=> Marked(m, f)
    BY DEF Marked
  <1>5. Whole' <=> Whole
    BY DEF Whole, Sound
  <1> QED
    BY <1>1, <1>2, <1>3, <1>4, <1>5 DEF Passed, First

\* The marks that fit are those of the next state.
LEMMA FitsAgain ==
    ASSUME UNCHANGED <<rec, online, last>>, NEW M, NEW F, Fits(M, F),
           marks' = M, Passed(Settled)' = F
    PROVE  FitInv'
  <1>1. \A m, f : Marked(m, f)' <=> Marked(m, f)
    BY Steady
  <1>2. Fits(M, F) => Fits(marks, Passed(Settled))'
    <2> HIDE DEF Marked, Passed, Settled
    <2>1. Fits(marks, Passed(Settled))' <=>
            /\ \A m \in marks' : m \in Int /\ \E f \in Passed(Settled)' : Marked(m, f)'
            /\ \A f \in Passed(Settled)' : \E m \in marks' : Marked(m, f)'
            /\ \A f \in Passed(Settled)' : \A m, n \in marks' :
                 Marked(m, f)' /\ Marked(n, f)' => m = n
      BY DEF Fits
    <2> QED
      BY <1>1, <2>1 DEF Fits
  <1> QED
    BY <1>2 DEF FitInv

\* With no mark and no change, all is well.
LEMMA PassedFacts ==
    ASSUME last \in Nat
    PROVE  /\ \A s : \A f \in Passed(s) : f \in Turns /\ f \in Nat /\ f < last /\ f <= s
           /\ \A s, f : f \in Turns /\ f <= s => f \in Passed(s)
           /\ \A s \in Int : s < 0 => Passed(s) = {}
  <1>1. \A f \in Turns : f \in Nat /\ f < last
    BY DEF Turns
  <1> QED
    BY <1>1 DEF Passed


Core == SamplesInv /\ HuntInv /\ FitInv

LEMMA InitCore == Init => Core
  <1> SUFFICES ASSUME Init
               PROVE  Core
    OBVIOUS
  <1>1. /\ pc = (IF online THEN "wait" ELSE "detect") /\ cur = 0 /\ old = "none" /\ marks = {}
        /\ last \in Nat /\ First \in {0, 1} /\ (online => First = 0)
    BY ConstantFacts DEF Init, First
  <1>2. Skip \in Nat /\ Skip >= 2
    BY StepFacts
  <1>3. SamplesInv
    BY <1>1, <1>2 DEF SamplesInv, Scanning
  <1>4. HuntInv
    BY <1>1 DEF HuntInv
  <1>5. FitInv
    <2>1. Settled < 0 /\ Settled \in Int
      BY <1>1, <1>2 DEF Settled
    <2>2. Passed(Settled) = {}
      BY <1>1, <2>1, PassedFacts
    <2> HIDE DEF Settled, Passed
    <2> QED
      BY <1>1, <2>2 DEF FitInv, Fits
  <1> QED
    BY <1>3, <1>4, <1>5 DEF Core

\* A step in which no sample is taken and no search is going on.
LEMMA Between ==
    ASSUME IInv, Core, UNCHANGED <<rec, online, last, cur, old>>,
           marks' = marks \/ pc' = "done", pc \notin {"next", "done"},
           pc' \notin {"halve", "back", "mark", "next"},
           pc' \in Scanning => pc \in Scanning \/ online,
           pc' = "detect" => pc = "detect" \/ online,
           pc' = "scan" => cframe' = 0
    PROVE  Core'
  <1>1. First' = First /\ \A f : Surround(f)' <=> Surround(f)
    BY Steady
  <1>2. SamplesInv'
    <2>1. Surround(cur - Skip)' <=> Surround(cur - Skip)
      BY <1>1 DEF Surround, Sound
    <2> HIDE DEF Surround, First
    <2> QED
      BY <1>1, <2>1 DEF Core, SamplesInv
  <1>3. HuntInv'
    BY DEF HuntInv
  <1>4. FitInv'
    <2>1. CASE pc' = "done"
      BY <2>1 DEF FitInv
    <2>2. CASE pc' # "done"
      <3>1. PICK M : M = marks
        OBVIOUS
      <3>2. PICK F : F = Passed(Settled)
        OBVIOUS
      <3>3. Fits(M, F)
        BY <3>1, <3>2 DEF Core, FitInv
      <3>4. marks' = M
        BY <2>2, <3>1
      <3>5. Settled' = Settled
        BY DEF Settled
      <3>6. Passed(Settled)' = F
        BY <3>2, <3>5 DEF Passed, Turns, Surround, Sound
      <3> QED
        BY <3>3, <3>4, <3>6, FitsAgain
    <2> QED
      BY <2>1, <2>2
  <1> QED
    BY <1>2, <1>3, <1>4 DEF Core

LEMMA StutterCore ==
    ASSUME Core, UNCHANGED vars
    PROVE  Core'
  <1>1. UNCHANGED <<rec, online, last, d, pc, cur, old, help, lo, hi, cframe, marks>>
    BY DEF vars, fixed, find
  <1> QED
    BY <1>1 DEF Core, SamplesInv, HuntInv, Hunted, FitInv, Fits, Marked, Passed, Turns,
                Surround, Sound, First, Settled

\* The changes of a recording that grows.
LEMMA Grows ==
    ASSUME last \in Nat, last' \in Nat, last <= last', UNCHANGED <<rec, online>>
    PROVE  /\ Whole' => Whole
           /\ Far' => Far
           /\ First' = First
           /\ \A f : Surround(f)' <=> Surround(f)
           /\ \A s \in Int : s < last => Passed(s)' = Passed(s)
           /\ online => \A m, f : Marked(m, f)' <=> Marked(m, f)
  <1>1. \A f : Surround(f)' <=> Surround(f)
    BY DEF Surround, Sound
  <1>0. PICK n \in Nat : n = last'
    OBVIOUS
  <1>01. last <= n
    BY <1>0, Zenon
  <1>2. ASSUME NEW f \in 0..(last - 1)
        PROVE  f \in 0..(last' - 1)
    <2>1. f \in 0..(n - 1)
      BY <1>01
    <2> QED
      BY <1>0, <2>1, Zenon
  <1>3. ASSUME NEW f \in 0..(last' - 1), f < last
        PROVE  f \in 0..(last - 1)
    <2>1. f \in 0..(n - 1)
      BY <1>0, Zenon
    <2>2. f \in Int /\ 0 <= f
      BY <2>1
    <2> QED
      BY <1>3, <2>2
  <1>4. \A f : f \in Turns <=> f \in 0..(last - 1) /\ ~(Surround(f) <=> Surround(f - 1))
    BY DEF Turns
  <1>5. \A f : f \in Turns' <=> f \in 0..(last' - 1) /\ ~(Surround(f)' <=> Surround(f - 1)')
    BY DEF Turns
  <1>6. Turns \subseteq Turns' /\ \A f \in Turns' : f < last => f \in Turns
    <2> HIDE DEF Surround, Turns
    <2> QED
      BY <1>1, <1>2, <1>3, <1>4, <1>5
  <1>7. Far' => Far
    BY <1>6 DEF Far, Wide
  <1>8. Whole' => Whole
    BY <1>2 DEF Whole, Sound
  <1>9. \A s \in Int : s < last => Passed(s)' = Passed(s)
    <2> SUFFICES ASSUME NEW s \in Int, s < last
                 PROVE  Passed(s)' = Passed(s)
      OBVIOUS
    <2>1. \A f \in Turns' : f <= s => f \in Turns
      <3>1. \A f \in Turns' : f \in Int
        BY DEF Turns
      <3> HIDE DEF Turns
      <3> QED
        BY <1>6, <3>1
    <2> HIDE DEF Turns
    <2> QED
      BY <1>6, <2>1 DEF Passed
  <1>10. online => \A m, f : Marked(m, f)' <=> Marked(m, f)
    BY DEF Marked
  <1> QED
    BY <1>1, <1>7, <1>8, <1>9, <1>10 DEF First

\* A recording that grew has no change that a mark is due for and missing.
LEMMA WaitMarks == IInv /\ Core /\ Wait => Core'
  <1> SUFFICES ASSUME IInv, Core, Wait
               PROVE  Core'
    OBVIOUS
  <1>1. /\ pc = "wait" /\ online /\ pc' \in {"scan", "detect"}
        /\ UNCHANGED <<rec, online, cur, old, marks>>
    BY DEF Wait, fixed, IInv, LoopInv
  <1>2. last \in Nat /\ last' \in Nat /\ last <= last'
    <2>1. last \in Lengths /\ last \in Nat /\ Lengths \subseteq Nat
      BY ConstantFacts, OpenRecording DEF Open, IInv, TypeInv
    <2>2. last' = last \/ (last' \in Lengths /\ last <= last')
      BY DEF Wait
    <2>3. CASE last' = last
      BY <2>1, <2>3
    <2>4. CASE last' \in Lengths /\ last <= last'
      BY <2>1, <2>4
    <2> QED
      BY <2>2, <2>3, <2>4
  <1>3. /\ First' = First /\ \A f : Surround(f)' <=> Surround(f)
        /\ \A s \in Int : s < last => Passed(s)' = Passed(s)
        /\ \A m, f : Marked(m, f)' <=> Marked(m, f)
    BY <1>1, <1>2, Grows
  <1>4. cur \in Nat /\ Skip \in Nat /\ cur - Skip \in Int
    BY StepFacts DEF IInv, TypeInv
  <1>5. SamplesInv'
    <2>8. pc' = "scan" => cframe' = 0
      BY DEF Wait
    <2>1. Surround(cur - Skip)' <=> Surround(cur - Skip)
      BY <1>1 DEF Surround, Sound
    <2> HIDE DEF Surround, First
    <2>2. /\ cur = First \/ cur >= First + Skip
          /\ cur < last + Skip
          /\ old = "surround" <=> (cur - Skip >= First /\ Surround(cur - Skip))
      BY <1>1 DEF Core, SamplesInv
    <2>5. PICK n \in Nat : n = last'
      BY <1>2
    <2>6. last <= n
      BY <1>2, <2>5, Zenon
    <2>7. cur < n + Skip
      BY <1>2, <1>4, <2>2, <2>6
    <2>3. cur < last' + Skip
      BY <2>5, <2>7, Zenon
    <2>4. old' = "surround" <=> (cur' - Skip >= First' /\ Surround(cur - Skip)')
      BY <1>1, <1>3, <2>1, <2>2
    <2> QED
      BY <1>1, <1>3, <2>2, <2>3, <2>4, <2>8 DEF SamplesInv
  <1>6. HuntInv'
    BY <1>1 DEF HuntInv
  <1>7. FitInv'
    <2>1. Settled = cur - Skip /\ Settled' = cur - Skip
      BY <1>1 DEF Settled
    <2>2. PICK s \in Int : s = cur - Skip
      BY <1>4
    <2>3. s < last
      BY <1>2, <1>4, <2>2 DEF Core, SamplesInv
    <2>4. Fits(marks, Passed(s))
      BY <1>1, <2>1, <2>2 DEF Core, FitInv
    <2>5. Fits(marks, Passed(s))'
      <3>1. Passed(s)' = Passed(s)
        BY <1>3, <2>3
      <3>2. Fits(marks, Passed(s))' <=>
              /\ \A m \in marks' : m \in Int /\ \E f \in Passed(s)' : Marked(m, f)'
              /\ \A f \in Passed(s)' : \E m \in marks' : Marked(m, f)'
              /\ \A f \in Passed(s)' : \A m, n \in marks' :
                   Marked(m, f)' /\ Marked(n, f)' => m = n
        BY DEF Fits
      <3> HIDE DEF Marked, Passed
      <3> QED
        BY <1>1, <1>3, <2>4, <3>1, <3>2 DEF Fits
    <2>6. Passed(s)' = Passed(Settled)'
      BY <2>1, <2>2
    <2> HIDE DEF Passed, Settled
    <2>7. Fits(marks, Passed(Settled))'
      BY <2>5, <2>6 DEF Fits
    <2> QED
      BY <2>7 DEF FitInv
  <1> QED
    BY <1>5, <1>6, <1>7 DEF Core

LEMMA DetectMarks == IInv /\ Core /\ Detect => Core'
  <1> SUFFICES ASSUME IInv, Core, Detect
               PROVE  Core'
    OBVIOUS
  <1>1. pc = "detect" /\ pc' = "detect" /\ UNCHANGED <<rec, online, last, cur, old, marks>>
    BY DEF Detect, fixed
  <1> QED
    BY <1>1, Between DEF Scanning

LEMMA DetectedMarks == IInv /\ Core /\ Detected => Core'
  <1> SUFFICES ASSUME IInv, Core, Detected
               PROVE  Core'
    OBVIOUS
  <1>1. /\ pc = "detect" /\ cur' = (IF online THEN cur ELSE 1)
        /\ pc' \in {"scan", "clean", "done"}
        /\ UNCHANGED <<rec, online, last, old, marks>>
    BY DEF Detected, fixed
  <1>2. CASE online
    BY <1>1, <1>2, Between DEF Detected
  <1>3. CASE ~online
    <2>1. cur = 0 /\ cur' = 1 /\ Skip \in Nat /\ Skip >= 2 /\ last \in Nat /\ First = 1
      BY <1>1, <1>3, StepFacts, OpenRecording DEF Core, SamplesInv, IInv, TypeInv, First
    <2>2. First' = 1
      BY <1>1, <1>3 DEF First
    <2>3. old # "surround"
      BY <2>1 DEF Core, SamplesInv
    <2>4. SamplesInv'
      <3>1. cur' < last' + Skip /\ ~(cur' - Skip >= First')
        BY <1>1, <2>1, <2>2
      <3> HIDE DEF Surround, First
      <3>2. cur' # 0
        BY <2>1
      <3> QED
        BY <1>1, <2>1, <2>2, <2>3, <3>1, <3>2 DEF SamplesInv
    <2>5. HuntInv'
      BY <1>1 DEF HuntInv
    <2>6. FitInv'
      <3>1. Settled = 0 - Skip /\ Settled' = 1 - Skip
        BY <1>1, <2>1 DEF Settled
      <3>2. Passed(Settled) = {}
        <4>1. Settled \in Int /\ Settled < 0
          BY <2>1, <3>1
        <4> HIDE DEF Passed, Settled
        <4> QED
          BY <2>1, <4>1, PassedFacts
      <3>3. Passed(1 - Skip)' = {}
        <4>1. 1 - Skip \in Int /\ 1 - Skip < 0
          BY <2>1
        <4>2. Passed(1 - Skip)' = Passed(1 - Skip)
          BY <1>1, Steady
        <4> HIDE DEF Passed
        <4> QED
          BY <2>1, <4>1, <4>2, PassedFacts
      <3>4. Fits(marks, {})
        BY <1>1, <3>2 DEF Core, FitInv
      <3>5. Passed(Settled)' = {}
        BY <3>1, <3>3
      <3>6. PICK M : M = marks
        OBVIOUS
      <3> HIDE DEF Fits
      <3> QED
        BY <1>1, <3>4, <3>5, <3>6, FitsAgain
    <2> QED
      BY <2>4, <2>5, <2>6 DEF Core
  <1> QED
    BY <1>2, <1>3


\* What the sample at cur tells of the changes since the one before.
LEMMA SampleTells ==
    ASSUME IInv, Core, Far, pc = "scan", cur < last
    PROVE  /\ cur >= First /\ cur - Skip \in Int /\ First \in {0, 1}
           /\ (old = "surround" <=> Surround(cur)) =>
                 \A f \in Turns : f <= cur => f <= cur - Skip
           /\ ~(old = "surround" <=> Surround(cur)) =>
                 \E f \in Turns : cur - Skip < f /\ f <= cur /\ (cur = First => f = 0)
  <1>0. /\ Skip \in Nat /\ Skip >= 2 /\ Slack \in Nat /\ Wide \in Nat /\ Wide >= Skip
        /\ cur \in Nat /\ last \in Nat /\ cur < last /\ First \in {0, 1}
    BY StepFacts, WideFacts, OpenRecording DEF IInv, TypeInv, First
  <1>1. /\ cur = First \/ cur >= First + Skip
        /\ old = "surround" <=> (cur - Skip >= First /\ Surround(cur - Skip))
    BY DEF Core, SamplesInv, Scanning
  <1>2. \A f \in Turns : f \in Nat /\ f < last
    BY <1>0 DEF Turns
  <1> HIDE DEF Wide, Slack, First
  <1>3. CASE cur = First
    <2>1. 1 \notin Turns
      <3>1. 1 \in Turns => 1 - 1 > Wide + 2 * Slack
        BY DEF Far
      <3> QED
        BY <1>0, <3>1
    <2>2. old # "surround"
      BY <1>0, <1>1, <1>3
    <2>3. 0 \in Turns <=> Surround(0)
      BY <1>0, <1>3 DEF Turns, Surround
    <2>4. cur = 1 => (Surround(1) <=> Surround(0))
      BY <1>0, <2>1 DEF Turns
    <2>5. Surround(cur) <=> Surround(0)
      <3> HIDE DEF Surround
      <3>1. cur = 0 \/ cur = 1
        BY <1>0, <1>3
      <3> QED
        BY <2>4, <3>1
    <2>6. \A f \in Turns : f <= cur => f = 0
      <3> HIDE DEF Turns
      <3>1. \A f \in Turns : f # 1
        BY <2>1
      <3> QED
        BY <1>0, <1>2, <1>3, <3>1
    <2>7. cur - Skip < 0 /\ cur - Skip \in Int /\ cur >= First /\ 0 <= cur
      BY <1>0, <1>3
    <2> HIDE DEF Turns, Surround
    <2>8. ~Surround(cur) => \A f \in Turns : f <= cur => f <= cur - Skip
      BY <2>3, <2>5, <2>6
    <2>9. Surround(cur) => 0 \in Turns /\ cur - Skip < 0 /\ 0 <= cur
      BY <2>3, <2>5, <2>7
    <2> QED
      BY <1>0, <2>2, <2>7, <2>8, <2>9
  <1>4. CASE cur >= First + Skip
    <2>1. /\ cur - Skip \in 0..(last - 1) /\ cur \in (cur - Skip)..(last - 1)
          /\ cur - (cur - Skip) <= Skip /\ cur - Skip >= First /\ cur # First
          /\ cur - Skip \in Int
      BY <1>0, <1>4
    <2>2. PICK a \in 0..(last - 1) : a = cur - Skip
      BY <2>1
    <2>3. /\ ~(Surround(a) <=> Surround(cur)) => \E f \in Turns : a < f /\ f <= cur
          /\ \A f \in Turns : a < f /\ f <= cur =>
                 /\ \A x \in f..cur : Surround(x) <=> Surround(f)
                 /\ \A x \in a..(f - 1) : Surround(x) <=> ~Surround(f)
      <3> HIDE DEF Turns, Surround
      <3>1. cur \in a..(last - 1) /\ cur - a <= Skip
        BY <2>1, <2>2
      <3> QED
        BY <1>0, <3>1, OneTurn
    <2>4. old = "surround" <=> Surround(a)
      <3> HIDE DEF Surround
      <3> QED
        BY <1>1, <2>1, <2>2
    <2>5. \A f \in Turns : a < f /\ f <= cur => ~(Surround(a) <=> Surround(cur))
      <3> SUFFICES ASSUME NEW f \in Turns, a < f, f <= cur
                   PROVE  ~(Surround(a) <=> Surround(cur))
        OBVIOUS
      <3>1. cur \in f..cur /\ a \in a..(f - 1)
        BY <1>0, <1>2, <2>1
      <3>2. (Surround(cur) <=> Surround(f)) /\ (Surround(a) <=> ~Surround(f))
        BY <2>3, <3>1
      <3> HIDE DEF Surround
      <3> QED
        BY <3>2
    <2>6. (Surround(a) <=> Surround(cur)) => \A f \in Turns : f <= cur => f <= a
      <3> SUFFICES ASSUME Surround(a) <=> Surround(cur), NEW f \in Turns, f <= cur
                   PROVE  f <= a
        BY Zenon
      <3>1. ~(a < f)
        BY <2>5
      <3>2. f \in Int /\ a \in Int
        BY <1>2
      <3> QED
        BY <3>1, <3>2
    <2> HIDE DEF Surround, Turns
    <2>7. (old = "surround" <=> Surround(cur)) => \A f \in Turns : f <= cur => f <= cur - Skip
      BY <2>2, <2>4, <2>6
    <2>8. ~(old = "surround" <=> Surround(cur)) =>
              \E f \in Turns : cur - Skip < f /\ f <= cur /\ (cur = First => f = 0)
      BY <2>1, <2>2, <2>3, <2>4
    <2>9. cur >= First
      BY <1>0, <1>4
    <2> QED
      BY <1>0, <2>1, <2>7, <2>8, <2>9
  <1> QED
    BY <1>1, <1>3, <1>4

\* Every sample is a frame that is heard at once.
LEMMA SampleHears ==
    ASSUME IInv, Whole, Sample
    PROVE  /\ d'.left = 0 /\ d'.apts = cur - Lag
           /\ (old = "surround" <=> Surround(cur)) =>
                 /\ cur' = cur + Skip /\ pc' = "scan"
           /\ ~(old = "surround" <=> Surround(cur)) =>
                 /\ cur' = cur /\ help' = Sound(cur) /\ hi' = cur
                 /\ ~(help' = "surround" <=> old = "surround")
                 /\ lo' = IF cur - Skip >= First THEN cur - Skip ELSE First
                 /\ pc' = IF online /\ hi' - lo' <= Few THEN "back" ELSE "halve"
  <1>0. /\ Open /\ last \in Nat /\ cur \in Nat /\ cur < last /\ d \in Demuxed
        /\ cur \in 0..(last - 1) /\ cur \in 0..last /\ last \in 0..last
    <2>1. Open /\ last \in Nat /\ cur \in Nat /\ d \in Demuxed
      BY OpenRecording DEF IInv, TypeInv
    <2>2. cur < last
      BY DEF Sample
    <2> QED
      BY <2>1, <2>2
  <1> DEFINE r == FirstSound(Reset(d), cur, last)
  <1>1. Reset(d) \in Demuxed /\ Reset(d).left = 0
    BY <1>0, ResetTyped
  <1>2. Clear(cur)
    BY <1>0 DEF Clear, Whole
  <1>3. r.at = cur /\ Hears(r.d, cur) /\ r.d.left = 0
    <2>1. Sampled(Reset(d), cur, last, r)
      BY <1>0, <1>1, FirstSoundLemma
    <2> HIDE DEF r
    <2> QED
      BY <1>0, <1>1, <1>2, <2>1 DEF Sampled
  <1>4. /\ d' = r.d
        /\ Changed(r.d.mode) =>
              /\ cur' = r.at /\ help' = r.d.mode
              /\ lo' = Max({r.at - Skip, First}) /\ hi' = r.at
              /\ pc' = IF online /\ hi' - lo' <= Few THEN "back" ELSE "halve"
        /\ ~Changed(r.d.mode) => cur' = r.at + Skip /\ pc' = "scan"
    BY DEF Sample, First
  <1> HIDE DEF r
  <1>5. r.d.mode = Sound(cur) /\ r.d.apts = cur - Lag
    BY <1>3 DEF Hears
  <1>6. Surround(cur) <=> Sound(cur) = "surround"
    BY <1>0 DEF Surround
  <1>7. Changed(r.d.mode) <=> ~(old = "surround" <=> Surround(cur))
    <2> HIDE DEF Surround
    <2> QED
      BY <1>5, <1>6 DEF Changed
  <1>8. Max({cur - Skip, First}) = IF cur - Skip >= First THEN cur - Skip ELSE First
    <2>1. cur - Skip \in Int /\ First \in Int
      BY <1>0, StepFacts DEF First
    <2> QED
      BY <2>1, GreatestOfTwo
  <1> HIDE DEF Surround, Sound, Max, First
  <1> QED
    BY <1>3, <1>4, <1>5, <1>6, <1>7, <1>8

\* A sample that differs from the one before opens the search for the change
\* between them.
LEMMA SampleMarks ==
    ASSUME IInv, Core, Whole, Far, Sample
    PROVE  Core'
  <1>0. /\ pc = "scan" /\ cur < last /\ UNCHANGED <<rec, online, last, old, cframe, marks>>
    BY DEF Sample, fixed
  <1>1. /\ Skip \in Nat /\ Skip >= 2 /\ Few \in Nat /\ Few < Skip /\ Lag \in Nat
        /\ cur \in Nat /\ last \in Nat
    BY StepFacts, OpenRecording DEF IInv, TypeInv
  <1>2. /\ cur >= First /\ cur - Skip \in Int /\ First \in {0, 1}
        /\ cur = First \/ cur >= First + Skip
        /\ cur = 0 => cframe = 0
        /\ old = "surround" <=> (cur - Skip >= First /\ Surround(cur - Skip))
    BY <1>0, SampleTells DEF Core, SamplesInv, Scanning
  <1>3. First' = First /\ Turns' = Turns /\ \A s : Passed(s)' = Passed(s)
    BY <1>0, Steady
  <1>4. PICK M : M = marks
    OBVIOUS
  <1>5. Fits(M, Passed(cur - Skip))
    BY <1>0, <1>4 DEF Core, FitInv, Settled
  <1> HIDE DEF First, Fits
  <1>6. CASE old = "surround" <=> Surround(cur)
    <2>1. cur' = cur + Skip /\ pc' = "scan"
      BY <1>6, SampleHears
    <2>2. cur' - Skip = cur /\ cur' >= First + Skip /\ cur' < last + Skip /\ cur' # 0
      BY <1>0, <1>1, <1>2, <2>1
    <2>3. SamplesInv'
      <3>1. Surround(cur - Skip)' <=> Surround(cur)
        BY <1>0, <2>2 DEF Surround, Sound
      <3> HIDE DEF Surround
      <3>2. old' = "surround" <=> (cur' - Skip >= First' /\ Surround(cur - Skip)')
        BY <1>0, <1>2, <1>3, <1>6, <2>2, <3>1
      <3> QED
        BY <1>0, <1>3, <2>1, <2>2, <3>2 DEF SamplesInv
    <2>4. HuntInv'
      BY <2>1 DEF HuntInv
    <2>5. FitInv'
      <3>1. \A f \in Turns : f <= cur => f <= cur - Skip
        BY <1>0, <1>6, SampleTells
      <3>2. \A f \in Turns : f <= cur - Skip => f <= cur
        BY <1>1 DEF Turns
      <3>3. Passed(cur) = Passed(cur - Skip)
        <4> HIDE DEF Turns
        <4> QED
          BY <3>1, <3>2 DEF Passed
      <3>4. Settled' = cur
        BY <2>1, <2>2 DEF Settled
      <3>5. PICK F : F = Passed(cur)
        OBVIOUS
      <3>6. Passed(Settled)' = F
        BY <1>0, <3>4, <3>5 DEF Passed, Turns, Surround, Sound
      <3> QED
        BY <1>0, <1>4, <1>5, <3>3, <3>5, <3>6, FitsAgain
    <2> QED
      BY <2>3, <2>4, <2>5 DEF Core
  <1>7. CASE ~(old = "surround" <=> Surround(cur))
    <2>1. PICK f \in Turns : cur - Skip < f /\ f <= cur /\ (cur = First => f = 0)
      BY <1>0, <1>7, SampleTells
    <2>2. /\ d'.left = 0 /\ d'.apts = cur - Lag
          /\ cur' = cur /\ help' = Sound(cur) /\ hi' = cur
          /\ ~(help' = "surround" <=> old = "surround")
          /\ lo' = IF cur - Skip >= First THEN cur - Skip ELSE First
          /\ pc' = IF online /\ hi' - lo' <= Few THEN "back" ELSE "halve"
      BY <1>7, SampleHears
    <2>3. pc' \in {"back", "halve"} /\ pc' \in Scanning
      BY <2>2 DEF Scanning
    <2>4. f \in Nat
      BY DEF Turns
    <2>5. SamplesInv'
      <3>1. Surround(cur - Skip)' <=> Surround(cur - Skip)
        BY <1>0, <2>2 DEF Surround, Sound
      <3> HIDE DEF Surround
      <3>2. old' = "surround" <=> (cur' - Skip >= First' /\ Surround(cur - Skip)')
        BY <1>0, <1>2, <1>3, <2>2, <3>1
      <3>3. cur' < last' + Skip
        BY <1>0, <1>1, <2>2
      <3> QED
        BY <1>0, <1>2, <1>3, <2>2, <2>3, <3>2, <3>3 DEF SamplesInv
    <2>6. PICK l \in Int : l = IF cur - Skip >= First THEN cur - Skip ELSE First
      BY <1>1, <1>2
    <2>7. pc' = "halve" =>
            /\ cur - Skip <= l /\ cur <= cur
            /\ (l < f /\ f <= cur) \/ (f = 0 /\ l = 1 /\ cur = 1)
      <3> SUFFICES ASSUME pc' = "halve"
                   PROVE  /\ cur - Skip <= l
                          /\ (l < f /\ f <= cur) \/ (f = 0 /\ l = 1 /\ cur = 1)
        BY <1>1
      <3>1. ~(online /\ cur - l <= Few)
        BY <2>2, <2>6
      <3>2. CASE cur = First
        <4>1. l = First /\ f = 0 /\ cur - Skip < First
          BY <1>1, <1>2, <2>1, <2>6, <3>2
        <4>2. ~online
          BY <1>1, <1>2, <3>1, <3>2, <4>1
        <4>3. First = 1
          BY <4>2 DEF First
        <4> QED
          BY <1>1, <1>2, <3>2, <4>1, <4>3
      <3>3. CASE cur >= First + Skip
        BY <1>1, <1>2, <2>1, <2>4, <2>6, <3>3
      <3> QED
        BY <1>2, <3>2, <3>3
    <2>8. pc' = "back" => cur = 0 /\ f = 0 /\ cframe = 0
      <3> SUFFICES ASSUME pc' = "back"
                   PROVE  cur = 0 /\ f = 0 /\ cframe = 0
        OBVIOUS
      <3>1. online /\ cur - l <= Few
        BY <2>2, <2>6
      <3>2. cur = First
        <4> SUFFICES ASSUME cur >= First + Skip PROVE FALSE
          BY <1>2
        <4>1. l = cur - Skip
          BY <1>1, <1>2, <2>6
        <4> QED
          BY <1>1, <1>2, <3>1, <4>1
      <3>3. First = 0
        BY <3>1 DEF First
      <3> QED
        BY <1>2, <2>1, <3>2, <3>3
    <2>9. Hunted(f)'
      <3>1. /\ f \in Turns' /\ cur' - Skip < f /\ f <= cur' /\ cur' < last'
            /\ help' = Sound(cur)' /\ ~(help' = "surround" <=> old' = "surround")
        BY <1>0, <1>3, <2>1, <2>2 DEF Sound
      <3>2. pc' = "halve" =>
              /\ d'.left = 0 /\ cur' - Skip <= lo' /\ hi' <= cur'
              /\ (lo' < f /\ f <= hi') \/ (f = 0 /\ lo' = 1 /\ hi' = 1 /\ cur' = 1)
        BY <2>2, <2>6, <2>7
      <3>3. pc' = "back" =>
              /\ d'.apts >= cframe' - Lag
              /\ f - 1 <= cframe' /\ cframe' <= f + 1 /\ (f > 0 => cframe' < f)
        BY <1>0, <1>1, <2>2, <2>8
      <3> HIDE DEF Turns, Sound
      <3> QED
        BY <2>3, <3>1, <3>2, <3>3 DEF Hunted
    <2>10. HuntInv'
      <3> HIDE DEF Hunted, Turns
      <3> QED
        BY <1>3, <2>9 DEF HuntInv
    <2>11. FitInv'
      <3>1. Settled' = cur - Skip
        BY <2>2, <2>3 DEF Settled
      <3>2. PICK F : F = Passed(cur - Skip)
        OBVIOUS
      <3>3. Passed(Settled)' = F
        BY <1>0, <3>1, <3>2 DEF Passed, Turns, Surround, Sound
      <3> QED
        BY <1>0, <1>4, <1>5, <3>2, <3>3, FitsAgain
    <2> QED
      BY <2>5, <2>10, <2>11 DEF Core
  <1> QED
    BY <1>6, <1>7


\* A step of the search: the samples and the marks stay as they are.
LEMMA Hunting ==
    ASSUME Core, UNCHANGED <<rec, online, last, cur, old, marks>>,
           pc \in {"halve", "back"}, pc' \in {"halve", "back", "mark"},
           NEW f \in Turns, Hunted(f)'
    PROVE  Core'
  <1>1. First' = First /\ Turns' = Turns
    BY Steady
  <1>2. SamplesInv'
    <2>1. Surround(cur - Skip)' <=> Surround(cur - Skip)
      BY DEF Surround, Sound
    <2> HIDE DEF Surround, First
    <2> QED
      BY <1>1, <2>1 DEF Core, SamplesInv, Scanning
  <1>3. HuntInv'
    <2> HIDE DEF Hunted, Turns
    <2> QED
      BY <1>1 DEF HuntInv
  <1>4. FitInv'
    <2>1. PICK M : M = marks
      OBVIOUS
    <2>2. PICK F : F = Passed(Settled)
      OBVIOUS
    <2>3. Fits(M, F)
      BY <2>1, <2>2 DEF Core, FitInv
    <2>4. Settled' = Settled
      BY DEF Settled
    <2>5. Passed(Settled)' = F
      BY <2>2, <2>4 DEF Passed, Turns, Surround, Sound
    <2> QED
      BY <2>1, <2>3, <2>5, FitsAgain
  <1> QED
    BY <1>2, <1>3, <1>4 DEF Core

\* The frames on both sides of the change that is looked for.
LEMMA HuntTells ==
    ASSUME IInv, Whole, Far, NEW f \in Turns, Hunted(f)
    PROVE  /\ help \in {"surround", "stereo"}
           /\ \A x \in f..cur : Sound(x) = help
           /\ \A x \in Nat : cur - Skip <= x /\ x < f => Sound(x) # help
           /\ f = 0 => help = "surround"
           /\ f > 0 => f - 1 > Skip + 2 * Slack
  <1>0. /\ Skip \in Nat /\ Skip >= 2 /\ Slack \in Nat /\ Wide \in Nat /\ Wide >= Skip
        /\ cur \in Nat /\ last \in Nat /\ cur < last /\ f \in Nat /\ f <= cur /\ cur - Skip < f
        /\ f \in 0..(last - 1)
    BY StepFacts, WideFacts, OpenRecording DEF IInv, TypeInv, Hunted, Turns
  <1>1. help = Sound(cur)
    BY DEF Hunted
  <1>2. \A x \in 0..(last - 1) : Sound(x) \in {"surround", "stereo"}
    BY OpenRecording DEF Whole, Modes, IInv, TypeInv
  <1>3. help \in {"surround", "stereo"}
    BY <1>0, <1>1, <1>2
  <1>4. f > 0 => f - 1 > Skip + 2 * Slack
    <2>1. f > 0 => f - 1 > Wide + 2 * Slack
      BY DEF Far
    <2> HIDE DEF Slack, Wide
    <2> QED
      BY <1>0, <2>1
  <1>5. \A x \in Nat : Surround(x) <=> Sound(x) = "surround"
    BY DEF Surround
  <1>6. PICK a \in 0..(last - 1) :
            (f = 0 /\ a = 0) \/ (f > 0 /\ (a = cur - Skip \/ (a = 0 /\ cur - Skip < 0)))
    <2>1. 0 \in 0..(last - 1)
      BY <1>0
    <2>2. CASE f > 0 /\ cur - Skip >= 0
      <3>1. cur - Skip \in 0..(last - 1)
        BY <1>0, <2>2
      <3> QED
        BY <2>2, <3>1
    <2>3. CASE ~(f > 0 /\ cur - Skip >= 0)
      <3>1. f = 0 \/ (f > 0 /\ cur - Skip < 0)
        BY <1>0, <2>3
      <3> QED
        BY <2>1, <3>1
    <2> QED
      BY <2>2, <2>3
  <1>7. a <= f /\ cur - a <= Skip /\ cur \in a..(last - 1) /\ (f > 0 => a < f)
    <2>1. f = 0 => cur <= Skip
      BY <1>0
    <2> QED
      BY <1>0, <1>6, <2>1
  <1>8. /\ \A x \in f..cur : Surround(x) <=> Surround(f)
        /\ \A x \in Nat : cur - Skip <= x /\ x < f => (Surround(x) <=> ~Surround(f))
        /\ f = 0 => Surround(f)
    <2>1. CASE f > 0
      <3>1. /\ \A x \in f..cur : Surround(x) <=> Surround(f)
            /\ \A x \in a..(f - 1) : Surround(x) <=> ~Surround(f)
        <4>1. a < f /\ f <= cur /\ cur - a <= Skip /\ cur \in a..(last - 1)
          BY <1>0, <1>7, <2>1
        <4>2. \A g \in Turns : a < g /\ g <= cur =>
                 /\ \A x \in g..cur : Surround(x) <=> Surround(g)
                 /\ \A x \in a..(g - 1) : Surround(x) <=> ~Surround(g)
          <5> HIDE DEF Surround, Turns, Far
          <5> QED
            BY <1>0, <4>1, OneTurn
        <4> HIDE DEF Surround, Turns
        <4> QED
          BY <4>1, <4>2
      <3>2. \A x \in Nat : cur - Skip <= x /\ x < f => x \in a..(f - 1)
        BY <1>0, <1>6, <2>1
      <3> HIDE DEF Surround
      <3> QED
        BY <1>0, <2>1, <3>1, <3>2
    <2>2. CASE f = 0
      <3>1. Surround(0)
        BY <2>2 DEF Turns, Surround
      <3>2. \A g \in Turns : g <= 0 \/ cur < g
        <4> SUFFICES ASSUME NEW g \in Turns, g > 0, g <= cur PROVE FALSE
          BY <1>0 DEF Turns
        <4>1. g - 1 > Wide + 2 * Slack
          BY DEF Far
        <4>2. g \in Int
          BY DEF Turns
        <4> HIDE DEF Slack, Wide
        <4> QED
          BY <1>0, <1>7, <2>2, <4>1, <4>2
      <3>3. 0 \in 0..(last - 1) /\ cur \in 0..(last - 1)
        BY <1>0
      <3>4. \A x \in 0..cur : Surround(x) <=> Surround(0)
        <4> HIDE DEF Surround, Turns
        <4> QED
          BY <1>0, <3>2, <3>3, NoTurn
      <3> HIDE DEF Surround
      <3>5. \A x \in Nat : ~(x < f)
        BY <2>2
      <3> QED
        BY <2>2, <3>1, <3>4, <3>5
    <2> QED
      BY <1>0, <2>1, <2>2
  <1>9. \A x \in f..cur : x \in Nat /\ x \in 0..(last - 1)
    BY <1>0
  <1>10. cur \in f..cur /\ cur \in Nat
    BY <1>0
  <1>11. Surround(f) <=> help = "surround"
    <2> HIDE DEF Surround
    <2> QED
      BY <1>1, <1>5, <1>8, <1>10
  <1>12. \A x \in f..cur : Sound(x) = help
    <2> SUFFICES ASSUME NEW x \in f..cur PROVE Sound(x) = help
      OBVIOUS
    <2>1. x \in Nat /\ x \in 0..(last - 1)
      BY <1>9
    <2>2. Sound(x) = "surround" <=> help = "surround"
      <3> HIDE DEF Surround
      <3> QED
        BY <1>5, <1>8, <1>11, <2>1
    <2>3. Sound(x) \in {"surround", "stereo"}
      BY <1>2, <2>1
    <2> HIDE DEF Sound
    <2> QED
      BY <1>3, <2>2, <2>3
  <1>13. \A x \in Nat : cur - Skip <= x /\ x < f => Sound(x) # help
    <2> SUFFICES ASSUME NEW x \in Nat, cur - Skip <= x, x < f PROVE Sound(x) # help
      OBVIOUS
    <2>1. Sound(x) = "surround" <=> ~(help = "surround")
      <3> HIDE DEF Surround
      <3> QED
        BY <1>5, <1>8, <1>11
    <2> HIDE DEF Sound
    <2> QED
      BY <2>1
  <1>14. f = 0 => help = "surround"
    <2> HIDE DEF Surround
    <2> QED
      BY <1>8, <1>11
  <1> HIDE DEF Sound, Slack, Surround
  <1> QED
    BY <1>3, <1>4, <1>12, <1>13, <1>14

\* Halving keeps the change between lo and hi.
LEMMA HalveMarks ==
    ASSUME IInv, Core, Whole, Far, Halve
    PROVE  Core'
  <1>1. /\ pc = "halve" /\ pc' = "halve" /\ hi - lo > Near
        /\ UNCHANGED <<rec, online, last, cur, old, help, marks>>
    BY DEF Halve, fixed
  <1>2. PICK f \in Turns : Hunted(f)
    BY <1>1 DEF Core, HuntInv
  <1>3. /\ Open /\ last \in Nat /\ cur \in Nat /\ lo \in Nat /\ hi \in Nat /\ at \in Nat
        /\ d \in Demuxed /\ Near \in Nat /\ Near >= 2 /\ f \in Nat /\ Skip \in Nat
    BY StepFacts, ConstantFacts, OpenRecording DEF IInv, TypeInv, Turns
  <1>4. /\ d.left = 0 /\ cur - Skip <= lo /\ hi <= cur /\ cur < last /\ lo < f /\ f <= hi
    <2>1. /\ d.left = 0 /\ cur - Skip <= lo /\ hi <= cur /\ cur < last
          /\ (lo < f /\ f <= hi) \/ (lo = 1 /\ hi = 1)
      BY <1>1, <1>2 DEF Hunted
    <2>2. ~(lo = 1 /\ hi = 1)
      BY <1>1, <1>3
    <2> QED
      BY <2>1, <2>2
  <1> DEFINE middle == lo + (hi - lo + 1) \div 2
             e == IF at = 0 THEN Reset(d) ELSE d
             start == IF middle = at THEN middle - 1 ELSE middle
             r == FirstSound(e, start, hi)
  <1>5. middle \in Int /\ lo + 2 <= middle /\ middle < hi
    <2> DEFINE m == (hi - lo + 1) \div 2
    <2>1. m \in Int /\ 2 * m <= hi - lo + 1 /\ hi - lo + 1 < 2 * m + 2
      BY <1>3, Z3
    <2> HIDE DEF m
    <2>2. 2 <= m /\ m < hi - lo
      BY <1>1, <1>3, <2>1
    <2>3. middle = lo + m
      BY DEF m
    <2> HIDE DEF middle
    <2> QED
      BY <1>3, <2>1, <2>2, <2>3
  <1> HIDE DEF middle
  <1>6. /\ start \in 0..hi /\ lo < start /\ start < hi /\ hi \in 0..last /\ start \in Nat
        /\ start \in 0..(last - 1)
    BY <1>3, <1>4, <1>5
  <1> HIDE DEF start
  <1>7. e \in Demuxed /\ e.left = 0
    BY <1>3, <1>4, ResetTyped
  <1> HIDE DEF e
  <1>8. Clear(start)
    BY <1>6 DEF Clear, Whole
  <1>9. r.at = start /\ Hears(r.d, start) /\ r.d.left = 0
    <2>1. Sampled(e, start, hi, r)
      BY <1>3, <1>6, <1>7, FirstSoundLemma
    <2> HIDE DEF r
    <2> QED
      BY <1>6, <1>7, <1>8, <2>1 DEF Sampled
  <1>10. /\ d' = r.d /\ at' = Min({r.at, hi - 1})
         /\ IF r.d.mode = help THEN hi' = at' /\ lo' = lo ELSE lo' = at' /\ hi' = hi
    BY DEF Halve, middle, e, start
  <1> HIDE DEF r
  <1>11. at' = start
    <2>1. start \in Int /\ hi - 1 \in Int /\ start <= hi - 1
      BY <1>3, <1>6
    <2> HIDE DEF Min
    <2>2. Min({start, hi - 1}) = start
      BY <2>1, LeastOfTwo
    <2> QED
      BY <1>9, <1>10, <2>2
  <1>12. r.d.mode = help <=> f <= start
    <2>1. r.d.mode = Sound(start)
      BY <1>9 DEF Hears
    <2>2. /\ \A x \in f..cur : Sound(x) = help
          /\ \A x \in Nat : cur - Skip <= x /\ x < f => Sound(x) # help
      BY <1>2, HuntTells
    <2>3. f <= start => start \in f..cur
      BY <1>3, <1>4, <1>6
    <2>4. ~(f <= start) => cur - Skip <= start /\ start < f
      BY <1>3, <1>4, <1>6
    <2> HIDE DEF Sound
    <2> QED
      BY <1>6, <2>1, <2>2, <2>3, <2>4
  <1>13. /\ cur - Skip <= start /\ start <= cur
         /\ ~(f <= start) => start < f
    BY <1>3, <1>4, <1>6
  <1>14. Hunted(f)'
    <2>1. /\ f \in Turns' /\ cur' - Skip < f /\ f <= cur' /\ cur' < last'
          /\ help' = Sound(cur)' /\ ~(help' = "surround" <=> old' = "surround")
      BY <1>1, <1>2, Steady DEF Hunted, Sound
    <2>2. d'.left = 0
      BY <1>9, <1>10
    <2>3. cur' - Skip <= lo' /\ hi' <= cur' /\ lo' < f /\ f <= hi'
      <3>1. CASE f <= start
        <4>1. hi' = start /\ lo' = lo
          BY <1>10, <1>11, <1>12, <3>1
        <4> QED
          BY <1>1, <1>4, <1>13, <3>1, <4>1
      <3>2. CASE ~(f <= start)
        <4>1. lo' = start /\ hi' = hi
          BY <1>10, <1>11, <1>12, <3>2
        <4> QED
          BY <1>1, <1>4, <1>13, <3>2, <4>1
      <3> QED
        BY <3>1, <3>2
    <2> HIDE DEF Turns, Sound
    <2> QED
      BY <1>1, <2>1, <2>2, <2>3 DEF Hunted
  <1> QED
    BY <1>1, <1>14, Hunting

\* The walk from lo stops at the change, or at the frame in front of it.
LEMMA FoundMarks ==
    ASSUME IInv, Core, Whole, Far, Found
    PROVE  Core'
  <1>1. /\ pc = "halve" /\ UNCHANGED <<rec, online, last, cur, old, help, marks>>
    BY DEF Found, fixed
  <1>2. PICK f \in Turns : Hunted(f)
    BY <1>1 DEF Core, HuntInv
  <1>3. /\ Open /\ last \in Nat /\ cur \in Nat /\ lo \in Nat /\ hi \in Nat
        /\ d \in Demuxed /\ f \in Nat /\ Skip \in Nat /\ Lag \in Nat /\ help \in Modes
        /\ InIndexOf(d)
    BY StepFacts, OpenRecording DEF IInv, TypeInv, Turns
  <1>4. /\ cur - Skip <= lo /\ hi <= cur /\ cur < last /\ f <= cur
        /\ (lo < f /\ f <= hi) \/ (f = 0 /\ lo = 1 /\ hi = 1 /\ cur = 1)
    BY <1>1, <1>2 DEF Hunted
  <1>5. /\ help # "none" /\ hi < last
        /\ lo < hi \/ (lo = hi /\ hi < last - 1)
        /\ hi = last - 1 => Sound(hi) = help /\ hi \notin rec.cut
    BY <1>1 DEF IInv, FindInv
  <1>6. /\ help \in {"surround", "stereo"}
        /\ \A x \in f..cur : Sound(x) = help
        /\ \A x \in Nat : cur - Skip <= x /\ x < f => Sound(x) # help
        /\ f = 0 => help = "surround"
    BY <1>2, HuntTells
  <1>7. PICK g \in Nat : g = IF f = 0 THEN 2 ELSE f
    BY <1>3
  <1>8. Meets(lo, g)
    <2>1. CASE lo < f /\ f <= hi
      <3>1. g = f /\ lo < g /\ g <= hi + 1 /\ g < last
        BY <1>3, <1>4, <1>7, <2>1
      <3>2. \A x \in (lo + 1)..g : x \in 0..(last - 1) /\ x \in Nat /\ cur - Skip <= x /\ x <= f
        BY <1>3, <1>4, <3>1
      <3>3. f \in f..cur
        BY <1>3, <1>4
      <3>4. ASSUME NEW x \in (lo + 1)..g
            PROVE  Sound(x) # "none" /\ (Sound(x) = help <=> x = g)
        <4>1. Sound(x) # "none"
          BY <3>2 DEF Whole
        <4>2. x = f \/ x < f
          BY <1>3, <3>2
        <4> HIDE DEF Sound
        <4> QED
          BY <1>6, <3>1, <3>2, <3>3, <4>1, <4>2
      <3> QED
        BY <3>1, <3>4 DEF Meets, Whole
    <2>2. CASE f = 0 /\ lo = 1 /\ hi = 1 /\ cur = 1
      <3>1. g = 2 /\ 2 < last
        BY <1>3, <1>5, <1>7, <2>2
      <3>2. \A x \in (1 + 1)..2 : x = 2
        OBVIOUS
      <3>3. 2 \in 0..(last - 1) /\ 1 \in 0..(last - 1) /\ 2 \in 1..(last - 1)
        BY <1>3, <3>1
      <3>4. Sound(2) = help
        <4>1. 2 \notin Turns
          <5>1. 2 \in Turns => 2 - 1 > Wide + 2 * Slack
            BY DEF Far
          <5> HIDE DEF Wide, Slack
          <5> QED
            BY <5>1, WideFacts, StepFacts
        <4>2. Surround(2) <=> Surround(1)
          BY <3>3, <4>1 DEF Turns
        <4>3. Sound(1) = "surround" /\ help = "surround"
          BY <1>6, <2>2
        <4> QED
          BY <4>2, <4>3 DEF Surround
      <3>5. Sound(2) # "none"
        BY <3>3 DEF Whole
      <3>6. \A x \in (lo + 1)..g : x = 2
        BY <2>2, <3>1, <3>2
      <3> HIDE DEF Sound
      <3> QED
        BY <2>2, <3>1, <3>4, <3>5, <3>6 DEF Meets, Whole
    <2> QED
      BY <1>4, <2>1, <2>2
  <1> DEFINE r == Walk(d, lo)
  <1>9. r \in Reading /\ r.at = g /\ Hears(r.d, g)
    <2>1. lo <= hi /\ (lo < hi \/ hi < last - 1)
      BY <1>3, <1>5
    <2> QED
      BY <1>3, <1>5, <1>8, <2>1, WalkLemma
  <1>10. /\ d' = r.d /\ at' = r.at /\ cframe' = r.at - 1
         /\ pc' = IF old # "stereo" \/ r.d.mode = "surround" THEN "back" ELSE "next"
    BY DEF Found
  <1> HIDE DEF r
  <1>11. r.d.mode = help /\ r.d.apts = g - Lag
    <2>1. Sound(g) = help
      BY <1>3, <1>8 DEF Meets
    <2> QED
      BY <1>9, <2>1 DEF Hears
  <1>12. pc' = "back"
    <2>1. ~(help = "surround" <=> old = "surround")
      BY <1>2 DEF Hunted
    <2> QED
      BY <1>10, <1>11, <2>1
  <1>13. /\ g - Lag >= (g - 1) - Lag /\ f - 1 <= g - 1 /\ g - 1 <= f + 1
         /\ (f > 0 => g - 1 < f)
    BY <1>3, <1>7
  <1>14. Hunted(f)'
    <2>1. /\ f \in Turns' /\ cur' - Skip < f /\ f <= cur' /\ cur' < last'
          /\ help' = Sound(cur)' /\ ~(help' = "surround" <=> old' = "surround")
      BY <1>1, <1>2, Steady DEF Hunted, Sound
    <2>2. d'.apts = g - Lag /\ cframe' = g - 1
      BY <1>9, <1>10, <1>11
    <2> HIDE DEF Turns, Sound
    <2> QED
      BY <1>12, <1>13, <2>1, <2>2 DEF Hunted
  <1> QED
    BY <1>1, <1>12, <1>14, Hunting

LEMMA BackMarks ==
    ASSUME IInv, Core, Whole, Far, Back
    PROVE  Core'
  <1>1. /\ pc = "back" /\ pc' = "mark" /\ UNCHANGED <<rec, online, last, cur, old, help, marks>>
    BY DEF Back, fixed
  <1>2. PICK f \in Turns : Hunted(f)
    BY <1>1 DEF Core, HuntInv
  <1>3. /\ Open /\ last \in Nat /\ cframe \in Nat /\ d \in Demuxed /\ f \in Nat /\ Lag \in Nat
        /\ d.apts \in Int
    BY StepFacts, OpenRecording DEF IInv, TypeInv, Turns, Demuxed
  <1>4. cframe \in 0..(last - 1)
    BY <1>1, <1>3 DEF IInv, LoopInv, Scanning
  <1>5. /\ d.apts >= cframe - Lag
        /\ f - 1 <= cframe /\ cframe <= f + 1 /\ (f > 0 => cframe < f)
    BY <1>1, <1>2 DEF Hunted
  <1> DEFINE r == VideoByPTS(d, cframe)
  <1>6. r.at \in 0..cframe /\ (r.at = cframe \/ r.at >= d.apts)
    BY <1>3, <1>4, VideoByPTSLemma DEF Whole
  <1>7. cframe' = r.at
    BY DEF Back
  <1> HIDE DEF r
  <1>8. /\ f - 1 - Lag <= r.at /\ r.at <= f + 1 /\ (f > 0 => r.at < f)
    <2>1. r.at \in Nat /\ r.at <= cframe
      BY <1>3, <1>6
    <2>2. cframe - Lag <= r.at
      BY <1>3, <1>5, <1>6, <2>1
    <2> QED
      BY <1>3, <1>5, <2>1, <2>2
  <1>9. Hunted(f)'
    <2>1. /\ f \in Turns' /\ cur' - Skip < f /\ f <= cur' /\ cur' < last'
          /\ help' = Sound(cur)' /\ ~(help' = "surround" <=> old' = "surround")
      BY <1>1, <1>2, Steady DEF Hunted, Sound
    <2> HIDE DEF Turns, Sound
    <2> QED
      BY <1>1, <1>7, <1>8, <2>1 DEF Hunted
  <1> QED
    BY <1>1, <1>9, Hunting


\* A place for a mark is near one change at most.
LEMMA MarkedOnce ==
    ASSUME last \in Nat, Far, NEW f \in Turns, NEW g \in Turns, g # f, NEW m \in Int
    PROVE  ~(Marked(m, f) /\ Marked(m, g))
  <1>0. /\ Skip \in Nat /\ Slack \in Nat /\ Wide \in Nat /\ Wide >= Skip /\ Limit \in Nat
        /\ Limit + Slack <= Skip
    BY StepFacts, WideFacts
  <1>1. \A x \in Turns : x \in Nat /\ x < last
    BY DEF Turns
  <1> HIDE DEF Slack, Wide
  <1>2. ASSUME NEW x \in Turns, NEW y \in Turns, y < x
        PROVE  ~(Marked(m, x) /\ Marked(m, y))
    <2>1. x - 1 - y > Wide + 2 * Slack
      BY <1>2 DEF Far
    <2>2. x \in Nat /\ x < last /\ y \in Nat /\ y < last
      BY <1>1
    <2> QED
      BY <1>0, <2>1, <2>2 DEF Marked
  <1>3. f < g \/ g < f
    BY <1>1
  <1> QED
    BY <1>2, <1>3

\* Where the mark for the change comes to lie: at the I-frame behind cframe or in
\* front of it, or nowhere.
LEMMA PlaceLemma ==
    ASSUME IInv, Whole, Far, NEW f \in Turns, Hunted(f), pc = "mark"
    PROVE  LET p == IF help = "surround" THEN NextI(cframe) ELSE PrevI(cframe)
           IN  p \in Int /\ (~(online /\ p <= 0) => Marked(p, f))
  <1>0. /\ Skip \in Nat /\ Slack = Gop + Lag + 1 /\ Gop \in Nat /\ Gop >= 1 /\ Lag \in Nat
        /\ Limit \in Nat /\ last \in Nat /\ cframe \in Nat /\ f \in Nat /\ online \in BOOLEAN
    BY StepFacts, OpenRecording DEF IInv, TypeInv, Turns
  <1>1. /\ f - 1 - Lag <= cframe /\ cframe <= f + 1 /\ (f > 0 => cframe < f)
        /\ cframe < last
    BY DEF Hunted, IInv, LoopInv, Scanning
  <1>2. f = 0 => help = "surround"
    BY HuntTells
  <1>3. f > 0 => f - 1 > Skip + 2 * Slack
    BY HuntTells
  <1> HIDE DEF Slack
  <1>4. \A i \in Nat : /\ Gop * (i \div Gop) \in Nat
                       /\ Gop * (i \div Gop) <= i /\ i < Gop * (i \div Gop) + Gop
                       /\ Gop * (i \div Gop + 1) = Gop * (i \div Gop) + Gop
    <2> SUFFICES ASSUME NEW i \in Nat
                 PROVE  /\ Gop * (i \div Gop) \in Nat
                        /\ Gop * (i \div Gop) <= i /\ i < Gop * (i \div Gop) + Gop
                        /\ Gop * (i \div Gop + 1) = Gop * (i \div Gop) + Gop
      OBVIOUS
    <2> DEFINE k == i \div Gop
    <2>1. k \in Nat /\ Gop * k <= i /\ i < Gop * k + Gop
      BY <1>0, Z3
    <2> HIDE DEF k
    <2>2. Gop * k \in Nat /\ Gop * (k + 1) = Gop * k + Gop
      BY <1>0, <2>1, Z3
    <2> QED
      BY <2>1, <2>2 DEF k
  <1>5. CASE help = "surround"
    <2>1. PICK b \in Nat : b = Gop * (cframe \div Gop)
      BY <1>0, <1>4
    <2>2. b <= cframe /\ cframe < b + Gop /\ Gop * (cframe \div Gop + 1) = b + Gop
      BY <1>0, <1>4, <2>1
    <2>3. NextI(cframe) = IF b + Gop < last - Limit THEN b + Gop ELSE -1
      BY <2>2 DEF NextI
    <2>4. PICK p \in Int : p = IF b + Gop < last - Limit THEN b + Gop ELSE -1
      BY <1>0
    <2>5. ~(online /\ p <= 0) => Marked(p, f)
      <3>1. CASE b + Gop < last - Limit
        <4>1. p = b + Gop
          BY <2>4, <3>1
        <4>2. p >= 0 /\ f - 1 - Slack <= p /\ p <= f + Slack
          BY <1>0, <1>1, <2>2, <4>1
        <4> QED
          BY <4>2 DEF Marked
      <3>2. CASE ~(b + Gop < last - Limit)
        <4>1. p = -1
          BY <2>4, <3>2
        <4>2. f >= last - Limit - Slack
          BY <1>0, <1>1, <2>2, <3>2
        <4>3. -1 <= 0
          OBVIOUS
        <4> QED
          BY <1>0, <4>1, <4>2, <4>3 DEF Marked
      <3> QED
        BY <3>1, <3>2
    <2> QED
      BY <1>5, <2>3, <2>4, <2>5
  <1>6. CASE help # "surround"
    <2>1. f > 0
      BY <1>0, <1>2, <1>6
    <2>2. cframe - 1 \in Nat /\ cframe \in 1..last
      BY <1>0, <1>1, <1>3, <2>1
    <2>3. PICK b \in Nat : b = Gop * ((cframe - 1) \div Gop)
      BY <1>4, <2>2
    <2>4. b <= cframe - 1 /\ cframe - 1 < b + Gop
      BY <1>4, <2>2, <2>3
    <2>5. PrevI(cframe) = b
      BY <2>2, <2>3 DEF PrevI
    <2>6. b >= 0 /\ f - 1 - Slack <= b /\ b <= f + Slack
      BY <1>0, <1>1, <2>1, <2>2, <2>4
    <2>7. Marked(b, f)
      BY <2>6 DEF Marked
    <2> QED
      BY <1>6, <2>5, <2>7
  <1> QED
    BY <1>5, <1>6

\* The one mark of the change that was found is set.
LEMMA ToggleMarks ==
    ASSUME IInv, Core, Whole, Far, ~restarted', Toggle
    PROVE  Core'
  <1>1. /\ pc = "mark" /\ UNCHANGED <<rec, online, last, old, help>>
    BY DEF Toggle, fixed
  <1>2. PICK f \in Turns : Hunted(f)
    BY <1>1 DEF Core, HuntInv
  <1>3. PICK p : p = IF help = "surround" THEN NextI(cframe) ELSE PrevI(cframe)
    OBVIOUS
  <1>4. /\ ~(online /\ p <= 0) /\ pc' = "next" /\ cur' = cur
        /\ marks' = Toggled(p)
    BY <1>3 DEF Toggle
  <1>5. p \in Int /\ Marked(p, f)
    BY <1>1, <1>2, <1>3, <1>4, PlaceLemma
  <1>6. /\ last \in Nat /\ cur \in Nat /\ Skip \in Nat /\ f \in Nat
        /\ cur - Skip < f /\ f <= cur /\ cur < last
    BY <1>2, StepFacts, OpenRecording DEF IInv, TypeInv, Turns, Hunted
  <1>7. PICK P : P = Passed(cur - Skip)
    OBVIOUS
  <1>8. \A g \in P : g \in Turns /\ g <= cur - Skip /\ g # f
    BY <1>6, <1>7 DEF Passed
  <1>9. Fits(marks, P)
    BY <1>1, <1>7 DEF Core, FitInv, Settled
  <1>10. \A m \in Int : \A g \in P : ~(Marked(m, f) /\ Marked(m, g))
    <2> HIDE DEF Marked, Turns
    <2> QED
      BY <1>6, <1>8, MarkedOnce
  <1>11. \A m \in marks : m \in Int /\ ~Marked(m, f)
    <2> HIDE DEF Marked
    <2> QED
      BY <1>9, <1>10 DEF Fits
  <1>12. p \notin marks
    BY <1>5, <1>11
  <1>13. PICK M : M = marks \cup {p}
    OBVIOUS
  <1>14. marks' = M
    BY <1>4, <1>12, <1>13 DEF Toggled
  <1>15. Passed(cur) = P \cup {f}
    <2>1. \A g \in Turns : g <= cur => g <= cur - Skip \/ g = f
      <3> SUFFICES ASSUME NEW g \in Turns, g <= cur, ~(g <= cur - Skip)
                   PROVE  g = f
        OBVIOUS
      <3>1. g \in Nat /\ g < last /\ cur - Skip < g
        BY <1>6 DEF Turns
      <3>2. g < f => f - 1 - g > Wide + 2 * Slack
        BY DEF Far
      <3>3. f < g => g - 1 - f > Wide + 2 * Slack
        BY DEF Far
      <3>4. Wide \in Nat /\ Wide >= Skip /\ Slack \in Nat
        BY WideFacts, StepFacts
      <3> HIDE DEF Wide, Slack
      <3> QED
        BY <1>6, <3>1, <3>2, <3>3, <3>4
    <2>2. \A g \in Turns : g <= cur - Skip => g <= cur
      BY <1>6 DEF Turns
    <2> HIDE DEF Turns
    <2> QED
      BY <1>6, <1>7, <2>1, <2>2 DEF Passed
  <1>16. Fits(M, P \cup {f})
    <2> HIDE DEF Marked
    <2>1. /\ \A m \in marks : m \in Int /\ \E g \in P : Marked(m, g)
          /\ \A g \in P : \E m \in marks : Marked(m, g)
          /\ \A g \in P : \A m, n \in marks : Marked(m, g) /\ Marked(n, g) => m = n
      BY <1>9 DEF Fits
    <2>2. \A g \in P : ~Marked(p, g)
      BY <1>5, <1>10
    <2>3. \A m \in M : m = p \/ m \in marks
      BY <1>13
    <2>4. p \in M /\ marks \subseteq M
      BY <1>13
    <2>5. \A m \in M : m \in Int /\ \E g \in P \cup {f} : Marked(m, g)
      BY <1>5, <2>1, <2>3
    <2>6. \A g \in P \cup {f} : \E m \in M : Marked(m, g)
      BY <1>5, <2>1, <2>4
    <2>7. \A g \in P \cup {f} : \A m, n \in M : Marked(m, g) /\ Marked(n, g) => m = n
      <3>1. \A g \in P : \A m, n \in M : Marked(m, g) /\ Marked(n, g) => m = n
        BY <2>1, <2>2, <2>3
      <3>2. \A m, n \in M : Marked(m, f) /\ Marked(n, f) => m = n
        BY <1>11, <2>3
      <3> QED
        BY <3>1, <3>2
    <2> QED
      BY <2>5, <2>6, <2>7 DEF Fits
  <1>17. FitInv'
    <2>1. Settled' = cur
      BY <1>4 DEF Settled
    <2>2. PICK F : F = P \cup {f}
      OBVIOUS
    <2>3. Passed(Settled)' = Passed(cur)
      BY <1>1, <2>1 DEF Passed, Turns, Surround, Sound
    <2> HIDE DEF Passed, Fits
    <2> QED
      BY <1>1, <1>14, <1>15, <1>16, <2>2, <2>3, FitsAgain
  <1>18. Hunted(f)'
    <2>1. /\ f \in Turns' /\ cur' - Skip < f /\ f <= cur' /\ cur' < last'
          /\ help' = Sound(cur)' /\ ~(help' = "surround" <=> old' = "surround")
      BY <1>1, <1>2, <1>4, Steady DEF Hunted, Sound
    <2> HIDE DEF Turns, Sound
    <2> QED
      BY <1>4, <2>1 DEF Hunted
  <1>19. HuntInv'
    <2>1. Turns' = Turns
      BY <1>1, Steady
    <2> HIDE DEF Hunted, Turns
    <2> QED
      BY <1>18, <2>1 DEF HuntInv
  <1>20. SamplesInv'
    <2>1. Surround(cur - Skip)' <=> Surround(cur - Skip)
      BY <1>1, <1>4 DEF Surround, Sound
    <2>2. First' = First
      BY <1>1, Steady
    <2> HIDE DEF Surround, First
    <2> QED
      BY <1>1, <1>4, <2>1, <2>2 DEF Core, SamplesInv, Scanning
  <1> QED
    BY <1>17, <1>19, <1>20 DEF Core

LEMMA ProceedMarks ==
    ASSUME IInv, Core, Whole, Far, Proceed
    PROVE  Core'
  <1>1. /\ pc = "next" /\ pc' = "scan" /\ old' = help /\ cur' = cur + Skip
        /\ UNCHANGED <<rec, online, last, marks>>
    BY DEF Proceed, fixed
  <1>2. PICK f \in Turns : Hunted(f)
    BY <1>1 DEF Core, HuntInv
  <1>3. /\ last \in Nat /\ cur \in Nat /\ Skip \in Nat /\ Skip >= 2 /\ cur < last
        /\ help = Sound(cur) /\ First \in {0, 1}
    BY <1>2, StepFacts, OpenRecording DEF IInv, TypeInv, Hunted, First
  <1>4. cur = First \/ cur >= First + Skip
    BY <1>1 DEF Core, SamplesInv, Scanning
  <1>5. First' = First
    BY <1>1, Steady
  <1> HIDE DEF First
  <1>6. cur' - Skip = cur /\ cur' # 0 /\ cur' < last + Skip /\ cur' >= First + Skip /\ cur >= First
    BY <1>1, <1>3, <1>4
  <1>7. SamplesInv'
    <2>1. Surround(cur - Skip)' <=> Surround(cur)
      BY <1>1, <1>6 DEF Surround, Sound
    <2>2. Surround(cur) <=> help = "surround"
      BY <1>3 DEF Surround
    <2> HIDE DEF Surround
    <2>3. old' = "surround" <=> (cur' - Skip >= First' /\ Surround(cur - Skip)')
      BY <1>1, <1>5, <1>6, <2>1, <2>2
    <2> QED
      BY <1>1, <1>5, <1>6, <2>3 DEF SamplesInv
  <1>8. HuntInv'
    BY <1>1 DEF HuntInv
  <1>9. FitInv'
    <2>1. PICK M : M = marks
      OBVIOUS
    <2>2. PICK F : F = Passed(cur)
      OBVIOUS
    <2>3. Fits(M, F)
      BY <1>1, <2>1, <2>2 DEF Core, FitInv, Settled
    <2>4. Settled' = cur
      BY <1>1, <1>6 DEF Settled
    <2>5. Passed(Settled)' = F
      BY <1>1, <2>2, <2>4 DEF Passed, Turns, Surround, Sound
    <2> QED
      BY <1>1, <2>1, <2>3, <2>5, FitsAgain
  <1> QED
    BY <1>7, <1>8, <1>9 DEF Core


\* Marks that are far apart are not close.
LEMMA NoneClose ==
    ASSUME NEW n \in Nat, NEW M \in SUBSET (0..n), NEW b \in Nat, NEW k,
           \A x, y \in M : x < y => y - x >= b
    PROVE  Close(M, b, k) = {}
  <1>1. \A x \in M : x \in Nat
    OBVIOUS
  <1>2. ASSUME NEW p \in Close(M, b, k)
        PROVE  FALSE
    <2> DEFINE later == {m \in M : p < m}
               q == Min(later)
    <2>1. p \in M /\ p # Max(M) /\ q - p < b
      BY DEF Close, NextMark
    <2>2. Max(M) \in M /\ \A y \in M : y <= Max(M)
      BY <2>1, GreatestElement
    <2>3. later # {} /\ later \in SUBSET Nat
      <3>1. p \in Nat /\ Max(M) \in Nat /\ p <= Max(M) /\ p # Max(M)
        BY <1>1, <2>1, <2>2
      <3>2. p < Max(M)
        BY <3>1
      <3> QED
        BY <1>1, <2>2, <3>2
    <2>4. q \in later
      <3> HIDE DEF later
      <3> QED
        BY <2>3, LeastElement
    <2> HIDE DEF q
    <2>5. q \in M /\ p < q
      BY <2>4
    <2>6. q - p >= b
      BY <2>1, <2>5
    <2> QED
      BY <1>1, <2>1, <2>5, <2>6
  <1> QED
    BY <1>2

\* The cleanup of a round leaves them.
LEMMA CleanupLeaves ==
    ASSUME NEW n \in Nat, NEW M \in SUBSET (0..n),
           \A x, y \in M : x < y => y - x >= MinMark /\ y - x >= MinActiveMark
    PROVE  CleanActive(CleanInactive(M)) = M
  <1>0. MinMark \in Nat /\ MinActiveMark \in Nat
    BY MarkCleanupAssumption
  <1>1. \A S \in SUBSET M : Close(S, MinMark, 2) = {}
    <2> SUFFICES ASSUME NEW S \in SUBSET M PROVE Close(S, MinMark, 2) = {}
      OBVIOUS
    <2>1. S \in SUBSET (0..n) /\ \A x, y \in S : x < y => y - x >= MinMark
      OBVIOUS
    <2> QED
      BY <1>0, <2>1, NoneClose
  <1>2. CleanInactive(M) = M
    <2> DEFINE F(g) == [S \in SUBSET M |->
                           IF Close(S, MinMark, 2) = {} THEN S
                           ELSE g[DropFirst(S, Close(S, MinMark, 2))]]
               clean == CHOOSE g : g = F(g)
               id == [S \in SUBSET M |-> S]
    <2>1. CleanInactive(M) = clean[M]
      BY DEF CleanInactive
    <2>2. ASSUME NEW g
          PROVE  F(g) = id
      BY <1>1, Zenon
    <2> HIDE DEF F, id
    <2>3. \E g : g = F(g)
      BY <2>2
    <2>4. clean = F(clean)
      BY <2>3
    <2>5. clean = id
      BY <2>2, <2>4
    <2> HIDE DEF clean
    <2>6. id[M] = M
      BY DEF id
    <2> QED
      BY <2>1, <2>5, <2>6
  <1>3. Close(M, MinActiveMark, 0) = {}
    BY <1>0, NoneClose
  <1>4. CleanActive(M) = M
    BY <1>3 DEF CleanActive
  <1> QED
    BY <1>2, <1>4

LEMMA EndMarks ==
    ASSUME IInv, Core, Far, PassDone \/ RoundDone \/ Clean
    PROVE  Core'
  <1>1. CASE PassDone \/ RoundDone
    <2>1. /\ pc = "scan"
          /\ pc' = "done" \/ (pc' = "clean" /\ marks' = marks)
          /\ UNCHANGED <<rec, online, last, cur, old>>
      BY <1>1 DEF PassDone, RoundDone, fixed
    <2> QED
      BY <1>1, <2>1, Between DEF Scanning, PassDone, RoundDone
  <1>2. CASE Clean
    <2>1. /\ pc = "clean" /\ pc' \in {"done", "wait"} /\ online
          /\ UNCHANGED <<rec, online, last, cur, old>>
          /\ marks' = marks \/ marks' = CleanActive(CleanInactive(marks))
      BY <1>2 DEF Clean, fixed, IInv, LoopInv
    <2>2. Fits(marks, Passed(Settled))
      BY <2>1 DEF Core, FitInv
    <2>3. /\ Slack \in Nat /\ Wide \in Nat /\ last \in Nat
          /\ MinMark \in Nat /\ MinActiveMark \in Nat /\ Wide >= MinMark /\ Wide >= MinActiveMark
      BY <2>1, StepFacts, WideFacts, MarkCleanupAssumption, OpenRecording DEF IInv, TypeInv
    <2>4. \A f \in Passed(Settled) : f \in Turns /\ f \in Nat /\ f < last
      BY <2>3, PassedFacts
    <2>5. \A f, g \in Turns : g < f => f - 1 - g > Wide + 2 * Slack
      BY DEF Far
    <2>6. \A m \in marks : \E f \in Passed(Settled) :
              m \in Nat /\ f - 1 - Slack <= m /\ m <= f + Slack
      <3>1. \A m, f : Marked(m, f) => m >= 0 /\ f - 1 - Slack <= m /\ m <= f + Slack
        BY <2>1 DEF Marked
      <3>2. \A m \in Int : m >= 0 => m \in Nat
        OBVIOUS
      <3> HIDE DEF Marked, Passed, Settled, Slack
      <3> QED
        BY <2>2, <3>1, <3>2 DEF Fits
    <2>7. PICK n \in Nat : n = last + Slack
      BY <2>3
    <2> HIDE DEF Turns, Passed, Settled, Slack, Wide
    <2>8. marks \in SUBSET (0..n)
      <3> SUFFICES ASSUME NEW m \in marks PROVE m \in 0..n
        OBVIOUS
      <3>1. PICK f \in Passed(Settled) : m \in Nat /\ m <= f + Slack
        BY <2>6
      <3> QED
        BY <2>3, <2>4, <2>7, <3>1
    <2>9. \A x, y \in marks : x < y => y - x >= MinMark /\ y - x >= MinActiveMark
      <3> SUFFICES ASSUME NEW x \in marks, NEW y \in marks, x < y
                   PROVE  y - x >= MinMark /\ y - x >= MinActiveMark
        OBVIOUS
      <3>1. PICK f \in Passed(Settled) : Marked(x, f)
        BY <2>2 DEF Fits
      <3>2. PICK g \in Passed(Settled) : Marked(y, g)
        BY <2>2 DEF Fits
      <3>3. /\ x \in Int /\ f - 1 - Slack <= x /\ x <= f + Slack
            /\ y \in Int /\ g - 1 - Slack <= y /\ y <= g + Slack
        BY <2>1, <2>2, <3>1, <3>2 DEF Marked, Fits
      <3>4. f \in Nat /\ g \in Nat /\ f \in Turns /\ g \in Turns
        BY <2>4
      <3>5. f # g
        <4>1. f = g => x = y
          BY <2>2, <3>1, <3>2 DEF Fits
        <4> QED
          BY <3>3, <4>1
      <3>6. g < f => f - 1 - g > Wide + 2 * Slack
        BY <2>5, <3>4
      <3>7. f < g => g - 1 - f > Wide + 2 * Slack
        BY <2>5, <3>4
      <3>8. ~(g < f)
        BY <2>3, <3>3, <3>4, <3>6
      <3> QED
        BY <2>3, <3>3, <3>4, <3>5, <3>7, <3>8
    <2>10. marks' = marks
      <3>1. PICK M : M = marks
        OBVIOUS
      <3>2. CleanActive(CleanInactive(M)) = M
        BY <2>8, <2>9, <3>1, CleanupLeaves
      <3> QED
        BY <2>1, <3>1, <3>2
    <2> QED
      BY <2>1, <2>10, Between DEF Scanning
  <1> QED
    BY <1>1, <1>2

LEMMA CoreStep ==
    ASSUME IInv, Core, Whole, Far, ~restarted', [Next]_vars
    PROVE  Core'
  BY WaitMarks, DetectMarks, DetectedMarks, SampleMarks, HalveMarks, FoundMarks, BackMarks,
     ToggleMarks, ProceedMarks, EndMarks, StutterCore DEF Next

\* A recording only grows, and a round that was broken off is not forgotten.
LEMMA PlainBefore ==
    ASSUME IInv, [Next]_vars, Plain'
    PROVE  Plain /\ ~restarted'
  <1>1. /\ UNCHANGED <<rec, online>> /\ (restarted => restarted')
        /\ last' = last \/ Wait
    BY DEF Next, vars, fixed, Wait, Detect, Detected, Sample, Halve, Found, Back, Toggle,
           Proceed, PassDone, RoundDone, Clean
  <1>2. last \in Nat /\ last' \in Nat /\ last <= last'
    <2>1. last \in Lengths /\ last \in Nat /\ Lengths \subseteq Nat
      BY ConstantFacts, OpenRecording DEF Open, IInv, TypeInv
    <2>2. last' = last \/ (last' \in Lengths /\ last <= last')
      BY <1>1 DEF Wait
    <2>3. CASE last' = last
      BY <2>1, <2>3
    <2>4. CASE last' \in Lengths /\ last <= last'
      BY <2>1, <2>4
    <2> QED
      BY <2>2, <2>3, <2>4
  <1>3. (Whole' => Whole) /\ (Far' => Far)
    BY <1>1, <1>2, Grows
  <1> QED
    BY <1>1, <1>3 DEF Plain

LEMMA MarksInvStep == IInv /\ MarksInv /\ [Next]_vars => MarksInv'
  <1> SUFFICES ASSUME IInv, MarksInv, [Next]_vars, Plain'
               PROVE  Core'
    BY DEF MarksInv, Core
  <1>1. Plain /\ ~restarted'
    BY PlainBefore
  <1>2. Core /\ Whole /\ Far
    BY <1>1 DEF MarksInv, Core, Plain
  <1> QED
    BY <1>1, <1>2, CoreStep

\* The changes of a recording in which every frame is heard.
LEMMA EdgesAre ==
    ASSUME Open, Whole
    PROVE  /\ \A f \in Turns : <<f - 1, f>> \in Edges
           /\ \A e \in Edges : \E f \in Turns : e = <<f - 1, f>>
  <1> DEFINE Audible == {f \in 0..(last - 1) : Sound(f) # "none" /\ f \notin rec.cut}
             Before(f) == Max({-1} \cup {g \in Audible : g < f})
             InSurround(f) == f # -1 /\ Sound(f) = "surround"
             Changes == {f \in Audible : InSurround(f) # InSurround(Before(f))}
  <1>0. last \in Nat
    BY OpenRecording
  <1>1. Edges = {<<Before(f), f>> : f \in Changes}
    BY DEF Edges
  <1>2. Audible = 0..(last - 1)
    BY DEF Whole
  <1>3. ASSUME NEW f \in 0..(last - 1)
        PROVE  Before(f) = f - 1
    <2> DEFINE S == {-1} \cup {g \in Audible : g < f}
    <2>1. f - 1 \in S
      <3>1. f = 0 \/ (f - 1 \in 0..(last - 1) /\ f - 1 < f)
        BY <1>0
      <3> HIDE DEF Audible
      <3> QED
        BY <1>2, <3>1
    <2>2. \A x \in S : x \in Int /\ x <= f - 1
      <3> HIDE DEF Audible
      <3>1. \A g \in Audible : g < f => g \in Int /\ g <= f - 1
        BY <1>0, <1>2
      <3>2. -1 \in Int /\ -1 <= f - 1
        BY <1>0
      <3> QED
        BY <3>1, <3>2
    <2> HIDE DEF S
    <2>3. \A x \in S : (\A y \in S : x >= y) => x = f - 1
      BY <2>1, <2>2
    <2>4. \A y \in S : f - 1 >= y
      BY <2>2
    <2>5. Max(S) = f - 1
      BY <2>1, <2>3, <2>4 DEF Max
    <2> QED
      BY <2>5 DEF S
  <1>4. \A f \in 0..(last - 1) : (InSurround(f) <=> Surround(f)) /\ (InSurround(f - 1) <=> Surround(f - 1))
    BY <1>0 DEF Surround
  <1> HIDE DEF Audible, Before, InSurround
  <1>5. Changes = Turns
    <2>1. \A f \in 0..(last - 1) :
              (InSurround(f) # InSurround(Before(f))) <=> ~(Surround(f) <=> Surround(f - 1))
      <3> SUFFICES ASSUME NEW f \in 0..(last - 1)
                   PROVE  (InSurround(f) # InSurround(Before(f))) <=> ~(Surround(f) <=> Surround(f - 1))
        OBVIOUS
      <3>1. InSurround(Before(f)) = InSurround(f - 1)
        BY <1>3
      <3>2. InSurround(f) \in BOOLEAN /\ InSurround(f - 1) \in BOOLEAN
        BY DEF InSurround
      <3> HIDE DEF Surround
      <3> QED
        BY <1>4, <3>1, <3>2
    <2> QED
      BY <1>2, <2>1 DEF Turns
  <1>6. \A f \in Turns : f \in 0..(last - 1)
    BY DEF Turns
  <1> HIDE DEF Changes, Turns
  <1> QED
    BY <1>1, <1>3, <1>5, <1>6

\* Changes that are apart in the sense of the property are far apart here.
LEMMA ApartIsFar ==
    ASSUME Open, Whole, Apart(Edges)
    PROVE  Far
  <1>1. last \in Nat
    BY OpenRecording
  <1> SUFFICES ASSUME NEW f \in Turns
               PROVE  /\ f > 0 => f - 1 > Wide + 2 * Slack
                      /\ \A g \in Turns : g < f => f - 1 - g > Wide + 2 * Slack
    BY DEF Far
  <1>2. <<f - 1, f>> \in Edges /\ <<f - 1, f>>[1] = f - 1 /\ <<f - 1, f>>[2] = f
    BY EdgesAre
  <1>3. \A b \in {0} \cup {e[2] : e \in Edges} : b < f => f - 1 - b > Wide + 2 * Slack
    <2> HIDE DEF Edges
    <2> QED
      BY <1>2 DEF Apart
  <1>4. \A g \in Turns : g \in {e[2] : e \in Edges}
    <2> SUFFICES ASSUME NEW g \in Turns PROVE g \in {e[2] : e \in Edges}
      OBVIOUS
    <2>1. <<g - 1, g>> \in Edges /\ <<g - 1, g>>[2] = g
      BY EdgesAre
    <2> HIDE DEF Edges
    <2> QED
      BY <2>1
  <1>5. f \in Int
    BY <1>1 DEF Turns
  <1>6. f > 0 => f - 1 - 0 > Wide + 2 * Slack
    BY <1>3
  <1>7. f - 1 - 0 = f - 1
    BY <1>5
  <1> HIDE DEF Edges, Turns
  <1> QED
    BY <1>3, <1>4, <1>6, <1>7

\* At the end of a pass over the frames the invariant says of the marks what is
\* to be shown of them.
LEMMA MarksFollow ==
    ASSUME IInv, MarksInv, Whole
    PROVE  MarksAtChanges
  <1> SUFFICES ASSUME pc = "scan", cur >= last, ~restarted, Apart(Edges)
               PROVE  /\ \A e \in Edges : e[2] + Skip < last => \E m \in marks : Around(m, e)
                      /\ \A m \in marks :
                            \E e \in Edges : Around(m, e) \/ (m = -1 /\ e[2] >= last - Limit - Slack)
                      /\ Cardinality(marks) <= Cardinality(Edges)
    BY DEF MarksAtChanges
  <1>1. /\ Open /\ last \in Nat /\ cur \in Nat /\ Skip \in Nat /\ Slack \in Nat /\ Limit \in Nat
        /\ Limit + Slack <= Skip
    BY StepFacts, OpenRecording DEF IInv, TypeInv
  <1>2. Far
    BY <1>1, ApartIsFar
  <1>3. Fits(marks, Passed(cur - Skip))
    BY <1>2 DEF MarksInv, Plain, FitInv, Settled
  <1>4. /\ \A f \in Turns : <<f - 1, f>> \in Edges
        /\ \A e \in Edges : \E f \in Turns : e = <<f - 1, f>>
    BY <1>1, EdgesAre
  <1>5. /\ \A f \in Turns : f \in Nat /\ f < last
        /\ \A f \in Passed(cur - Skip) : f \in Turns
        /\ \A f \in Turns : f <= cur - Skip => f \in Passed(cur - Skip)
    BY <1>1, PassedFacts DEF Turns
  <1> HIDE DEF Edges, Turns, Passed, Slack
  <1>6. ASSUME NEW m \in Int, NEW f \in Turns
        PROVE  Around(m, <<f - 1, f>>) <=> f - 1 - Slack <= m /\ m <= f + Slack
    <2>1. f \in Nat
      BY <1>5
    <2> QED
      BY <1>1, <2>1 DEF Around
  <1>7. ASSUME NEW e \in Edges, e[2] + Skip < last
        PROVE  \E m \in marks : Around(m, e)
    <2>1. PICK f \in Turns : e = <<f - 1, f>>
      BY <1>4
    <2>2. f \in Nat /\ f + Skip < last
      BY <1>5, <1>7, <2>1
    <2>3. f \in Passed(cur - Skip)
      BY <1>1, <1>5, <2>2
    <2>4. PICK m \in marks : Marked(m, f)
      BY <1>3, <2>3 DEF Fits
    <2>5. m \in Int
      BY <1>3 DEF Fits
    <2>6. f - 1 - Slack <= m /\ m <= f + Slack
      BY <1>1, <2>2, <2>4 DEF Marked
    <2> QED
      BY <1>6, <2>1, <2>5, <2>6
  <1>8. ASSUME NEW m \in marks
        PROVE  \E e \in Edges : Around(m, e) \/ (m = -1 /\ e[2] >= last - Limit - Slack)
    <2>1. PICK f \in Passed(cur - Skip) : Marked(m, f)
      BY <1>3 DEF Fits
    <2>2. m \in Int /\ f \in Turns
      BY <1>3, <1>5 DEF Fits
    <2>3. <<f - 1, f>> \in Edges /\ <<f - 1, f>>[2] = f
      BY <1>4, <2>2
    <2>4. Around(m, <<f - 1, f>>) \/ (m = -1 /\ f >= last - Limit - Slack)
      BY <1>6, <2>1, <2>2 DEF Marked
    <2> QED
      BY <2>3, <2>4
  <1>9. Cardinality(marks) <= Cardinality(Edges)
    <2>1. IsFiniteSet(Edges)
      <3> DEFINE h == [e \in Edges |-> e[2]]
      <3>1. \A e \in Edges : e[2] \in 0..(last - 1) /\ e = <<e[2] - 1, e[2]>>
        <4> SUFFICES ASSUME NEW e \in Edges
                     PROVE  e[2] \in 0..(last - 1) /\ e = <<e[2] - 1, e[2]>>
          OBVIOUS
        <4>1. PICK f \in Turns : e = <<f - 1, f>>
          BY <1>4
        <4> QED
          BY <1>1, <1>5, <4>1
      <3>2. h \in Injection(Edges, 0..(last - 1))
        BY <3>1 DEF Injection, IsInjective
      <3>3. IsFiniteSet(0..(last - 1))
        BY <1>1, FS_Interval
      <3> HIDE DEF h
      <3> QED
        BY <3>2, <3>3, FS_Injection
    <2> DEFINE of(m) == CHOOSE f \in Passed(cur - Skip) : Marked(m, f)
               h == [m \in marks |-> <<of(m) - 1, of(m)>>]
    <2>2. \A m \in marks : of(m) \in Passed(cur - Skip) /\ Marked(m, of(m))
      <3> HIDE DEF Marked
      <3> QED
        BY <1>3, Zenon DEF Fits
    <2> HIDE DEF of
    <2>3. h \in Injection(marks, Edges)
      <3>1. \A m \in marks : <<of(m) - 1, of(m)>> \in Edges
        BY <1>4, <1>5, <2>2
      <3>2. ASSUME NEW m \in marks, NEW n \in marks, h[m] = h[n]
            PROVE  m = n
        <4>1. of(m) = of(n)
          BY <3>2
        <4> HIDE DEF Marked, h
        <4> QED
          BY <1>3, <2>2, <4>1 DEF Fits
      <3> QED
        BY <3>1, <3>2 DEF Injection, IsInjective
    <2> HIDE DEF h
    <2> QED
      BY <2>1, <2>3, FS_Injection
  <1> QED
    BY <1>7, <1>8, <1>9

\* For every length, every way in which the recording grows, every step of the
\* scan and every recording in which each frame is heard: a pass over the frames
\* that was not broken off leaves one mark at each change between 5.1 and
\* anything else, and no other (mpeg_decoder.cpp, 196-232, with the search of
\* find_ac3start, the walk back to the picture, and the cleanup of a round,
\* tnoad.cpp, 185-248).  Frames that are silent or end early are not covered:
\* the search may stop in them, and where it stops depends on how many there are.
THEOREM MarksAtChangesHolds == Spec => [](Whole => MarksAtChanges)
  <1>1. Init => MarksInv
    BY InitCore DEF MarksInv, Core
  <1>2. IInv /\ MarksInv /\ [Next]_vars => MarksInv'
    BY MarksInvStep
  <1>3. IInv /\ MarksInv => (Whole => MarksAtChanges)
    BY MarksFollow
  <1> QED
    BY <1>1, <1>2, <1>3, Invariant, PTL DEF Spec
=============================================================================
