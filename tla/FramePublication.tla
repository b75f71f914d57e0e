------------------------- MODULE FramePublication -------------------------
(* The published pair of the spectrum view: SpectrumView::publishFrame on   *)
(* the message thread, readPublishedFrame and the head of paint on the      *)
(* thread that renders, which on two of the three platforms is another.     *)
(*                                                                          *)
(* A frame is named by the number of its publication; of its payload two    *)
(* locations stand for all of them (the input bins and the description of   *)
(* the frame, stored first and last).  Stores and loads are those of        *)
(* WeakMemory.                                                              *)
EXTENDS WeakMemory

CONSTANT MaxPublications  \* bound: publications

VARIABLES
    seq,        \* the stores to frameSeq
    bins,       \* the stores to the published bins
    note,       \* the stores to the published description
    known,      \* the stores that happen before what the renderer does next
    picture     \* what the renderer painted last: bins and description

pubVars == <<seq, bins, note, known, picture>>

\* The floor is stored at construction, before a renderer can exist.
PubInit ==
    /\ seq = <<Store(0, 0, 0)>> /\ bins = <<Store(0, 0, 0)>> /\ note = <<Store(0, 0, 0)>>
    /\ known = 0 /\ picture = [bins |-> 0, note |-> 0]

\* Mutant: the payload is stored with no release fence behind the odd count.
Unfenced(k) == k

\* The stores a payload store carries: those up to the fence, the odd count
\* among them.
Carried(k) == k + 1

\* publishFrame: odd, fence, payload, even.
PublishFrame ==
    LET k == Last(seq).at
        f == Newest(seq) \div 2 + 1
    IN  /\ f <= MaxPublications
        /\ seq'  = seq \o <<Store(k + 1, 2 * f - 1, k), Store(k + 4, 2 * f, k + 4)>>
        /\ bins' = Append(bins, Store(k + 2, f, Carried(k)))
        /\ note' = Append(note, Store(k + 3, f, Carried(k)))
        /\ UNCHANGED <<known, picture>>

\* The copies that one attempt can take after it read the even count c, each
\* confirmed or not by the count read again behind the fence.
Copies(k, c) ==
    UNION {LET after == FencedAll(k, {b, n})
           IN  {[ok |-> again.val = c, known |-> after, picture |-> [bins |-> b.val, note |-> n.val]] :
                    again \in Visible(seq, after)} :
           b \in Visible(bins, k), n \in Visible(note, k)}

\* One attempt of readPublishedFrame by a reader that knows k: an odd count is
\* a publication in progress.
Attempts(k) ==
    UNION {IF c.val % 2 = 0 THEN Copies(Acquired(k, c), c.val)
           ELSE {[ok |-> FALSE, known |-> k, picture |-> picture]} :
           c \in Visible(seq, k)}

\* paint: two attempts; a copy that is not confirmed is thrown away.
Paint ==
    /\ \E one \in Attempts(known) : \E two \in IF one.ok THEN {one} ELSE Attempts(one.known) :
          /\ known' = two.known
          /\ picture' = IF two.ok THEN two.picture ELSE picture
    /\ UNCHANGED <<seq, bins, note>>

PubNext == PublishFrame \/ Paint
PubSpec == PubInit /\ [][PubNext]_pubVars

-----------------------------------------------------------------------------
\* What is painted is a frame that was published, its bins under its own
\* description, and never an older one than the painting before: the detailed
\* protocol implements the register (SpectrumView.h, "the pair the renderer
\* draws is one tick's, whole").  A torn picture maps to no frame.
Register == INSTANCE FrameRegister
              WITH published <- Newest(seq) \div 2,
                   painted   <- IF picture.bins = picture.note THEN picture.bins ELSE -1

PaintsAreFrames == Register!Spec
=============================================================================
