-------------------------- MODULE TapeTrackerProofs --------------------------
(***************************************************************************)
(* Theorems about the vision pipeline of TapeTracker, for every picture    *)
(* and every kernel.                                                       *)
(*                                                                         *)
(* FindContours is a fold.  The library's induction theorems take an       *)
(* operator, which no prover here can instantiate; but that the subsets of *)
(* a finite set are well founded is a fact about sets.  What follows takes *)
(* a smallest counterexample of it instead of an induction.                *)
(***************************************************************************)
EXTENDS TapeTracker, FiniteSetTheorems, TLAPS

----------------------------------------------------------------------------
(* A family of subsets of a finite set has a smallest member: one that     *)
(* contains no other.                                                      *)
LEMMA SmallestSet ==
  ASSUME NEW S, IsFiniteSet(S), NEW some \in SUBSET (SUBSET S), some # {}
  PROVE  \E T \in some : \A U \in some : U \subseteq T => U = T
<1>1. IsWellFoundedOn(StrictSubsetOrdering(S), SUBSET S)
  BY FS_StrictSubsetOrderingWellFounded, FS_FiniteSubsetsOfFinite
<1>2. \E T \in some : \A U \in some : ~(<<U, T>> \in StrictSubsetOrdering(S))
  BY <1>1, WFMin
<1>3. \A U, T \in some : U \subseteq T /\ U # T => <<U, T>> \in StrictSubsetOrdering(S)
  BY DEF StrictSubsetOrdering
<1>4. QED BY <1>2, <1>3

(* Some number of a finite set of numbers is the least, some the greatest. *)
LEMMA LeastIn ==
  ASSUME NEW T, IsFiniteSet(T), T # {}, \A m \in T : m \in Int
  PROVE  \E n \in T : \A m \in T : n <= m
<1> DEFINE below(n) == {m \in T : m <= n}
           cuts == {below(n) : n \in T}
<1>1. cuts \in SUBSET (SUBSET T) /\ cuts # {}
  OBVIOUS
<1>2. PICK cut \in cuts : \A U \in cuts : U \subseteq cut => U = cut
  <2> HIDE DEF cuts
  <2>1. QED BY <1>1, SmallestSet
<1>3. PICK n \in T : cut = below(n)
  OBVIOUS
<1>4. ASSUME NEW m \in T, ~(n <= m) PROVE FALSE
  <2>1. m < n /\ m \in Int /\ n \in Int
    BY <1>4
  <2>2. \A k \in T : k \in Int
    OBVIOUS
  <2>6. \A k \in T : k <= m => k <= n
    BY <2>1, <2>2
  <2>7. below(m) \subseteq below(n)
    BY <2>6
  <2>3. below(m) = cut
    BY <1>2, <1>3, <2>7
  <2>4. n \in below(n) /\ n \notin below(m)
    BY <2>1
  <2>5. QED BY <1>3, <2>3, <2>4
<1>5. QED BY <1>4

(* ... and the greatest, by the same argument turned round.                *)
LEMMA GreatestIn ==
  ASSUME NEW T, IsFiniteSet(T), T # {}, \A m \in T : m \in Int
  PROVE  \E n \in T : \A m \in T : n >= m
<1> DEFINE above(n) == {m \in T : m >= n}
           cuts == {above(n) : n \in T}
<1>1. cuts \in SUBSET (SUBSET T) /\ cuts # {}
  OBVIOUS
<1>2. PICK cut \in cuts : \A U \in cuts : U \subseteq cut => U = cut
  <2> HIDE DEF cuts
  <2>1. QED BY <1>1, SmallestSet
<1>3. PICK n \in T : cut = above(n)
  OBVIOUS
<1>4. ASSUME NEW m \in T, ~(n >= m) PROVE FALSE
  <2>1. m > n /\ m \in Int /\ n \in Int
    BY <1>4
  <2>2. \A k \in T : k \in Int
    OBVIOUS
  <2>6. \A k \in T : k >= m => k >= n
    BY <2>1, <2>2
  <2>7. above(m) \subseteq above(n)
    BY <2>6
  <2>3. above(m) = cut
    BY <1>2, <1>3, <2>7
  <2>4. n \in above(n) /\ n \notin above(m)
    BY <2>1
  <2>5. QED BY <1>3, <2>3, <2>4
<1>5. QED BY <1>4

(* So the operators of the library find them.                              *)
LEMMA MaxMinIn ==
  ASSUME NEW a \in Int, NEW b \in Int, NEW T \in SUBSET (a .. b), T # {}
  PROVE  /\ Max(T) \in T /\ \A m \in T : m <= Max(T)
         /\ Min(T) \in T /\ \A m \in T : Min(T) <= m
<1>1. IsFiniteSet(T) /\ \A m \in T : m \in Int
  <2>1. IsFiniteSet(a .. b)
    BY FS_Interval
  <2>2. \A m \in T : m \in Int
    OBVIOUS
  <2>3. QED BY <2>1, <2>2, FS_Subset, Zenon
<1>2. (\E n \in T : \A m \in T : n >= m) /\ (\E n \in T : \A m \in T : n =< m)
  BY <1>1, GreatestIn, LeastIn
<1>3. Max(T) \in T /\ \A m \in T : Max(T) >= m
  BY <1>2, Zenon DEF Max
<1>4. Min(T) \in T /\ \A m \in T : Min(T) =< m
  BY <1>2, Zenon DEF Min
<1>5. QED BY <1>1, <1>3, <1>4

----------------------------------------------------------------------------
(* The fold of FindContours.                                               *)

First(s) == CHOOSE p \in s : TRUE
Rest(s) == s \ {First(s)}

Folded(g, image) ==
  g = [s \in SUBSET image |-> IF s = {} THEN {} ELSE Join(First(s), g[Rest(s)])]

(* The pixel the fold takes next is one of those left.                     *)
LEMMA FirstIn == ASSUME NEW s, s # {} PROVE First(s) \in s
BY DEF First

(* One step of such a fold.                                                *)
LEMMA FoldedValue ==
  ASSUME NEW image, NEW g, Folded(g, image), NEW s \in SUBSET image
  PROVE  g[s] = IF s = {} THEN {} ELSE Join(First(s), g[Rest(s)])
BY Zenon DEF Folded

(* A part of an image has the contours the fold of the whole gives it ...  *)
LEMMA FoldedUnique ==
  ASSUME NEW image, IsFiniteSet(image), NEW part \in SUBSET image,
         NEW g, Folded(g, image), NEW h, Folded(h, part)
  PROVE  g[part] = h[part]
<1> DEFINE bad == {s \in SUBSET part : g[s] # h[s]}
<1>1. SUFFICES ASSUME bad # {} PROVE FALSE
  OBVIOUS
<1>2. IsFiniteSet(part)
  BY FS_Subset
<1>3. PICK s \in bad : \A r \in bad : r \subseteq s => r = s
  <2>1. bad \in SUBSET (SUBSET part)
    OBVIOUS
  <2> HIDE DEF bad
  <2>2. QED BY <1>1, <1>2, <2>1, SmallestSet
<1>4. s \in SUBSET part /\ s \in SUBSET image /\ g[s] # h[s]
  OBVIOUS
<1>5. /\ g[s] = IF s = {} THEN {} ELSE Join(First(s), g[Rest(s)])
      /\ h[s] = IF s = {} THEN {} ELSE Join(First(s), h[Rest(s)])
  BY <1>4, FoldedValue
<1>6. s # {}
  BY <1>4, <1>5
<1>7. First(s) \in s
  BY <1>6, FirstIn
<1>8. Rest(s) \in SUBSET part /\ Rest(s) \subseteq s /\ Rest(s) # s
  BY <1>4, <1>7 DEF Rest
<1>9. g[Rest(s)] = h[Rest(s)]
  BY <1>3, <1>8
<1>10. QED BY <1>4, <1>5, <1>9

(* ... and the recursion has a solution: the one that gives each part what *)
(* a solution for its rest gives.                                          *)
LEMMA FoldedExists ==
  ASSUME NEW image, IsFiniteSet(image)
  PROVE  \E g : Folded(g, image)
<1> DEFINE bad == {s \in SUBSET image : ~\E g : Folded(g, s)}
<1>1. SUFFICES ASSUME bad # {} PROVE FALSE
  OBVIOUS
<1>2. PICK T \in bad : \A r \in bad : r \subseteq T => r = T
  <2>1. bad \in SUBSET (SUBSET image)
    OBVIOUS
  <2> HIDE DEF bad
  <2>2. QED BY <1>1, <2>1, SmallestSet
<1> DEFINE fold(s) == CHOOSE g : Folded(g, s)
<1>3. ASSUME NEW s \in SUBSET T, s # T PROVE Folded(fold(s), s)
  BY <1>2, <1>3
<1>4. ~\E g : Folded(g, T)
  OBVIOUS
<1> DEFINE h == [s \in SUBSET T |-> IF s = {} THEN {} ELSE Join(First(s), fold(Rest(s))[Rest(s)])]
<1>5. ASSUME NEW s \in SUBSET T, s # {}
      PROVE  h[Rest(s)] = fold(Rest(s))[Rest(s)]
  <2> DEFINE V == Rest(s)
  <2>1. First(s) \in s
    BY <1>5, FirstIn
  <2>2. V \in SUBSET T /\ V # T
    BY <2>1 DEF Rest
  <2>3. Folded(fold(V), V)
    BY <1>3, <2>2
  <2> HIDE DEF V
  <2>4. fold(V)[V] = IF V = {} THEN {} ELSE Join(First(V), fold(V)[Rest(V)])
    <3> HIDE DEF fold
    <3>1. QED BY <2>3, FoldedValue
  <2>5. h[V] = IF V = {} THEN {} ELSE Join(First(V), fold(Rest(V))[Rest(V)])
    <3> HIDE DEF fold
    <3>1. QED BY <2>2
  <2>6. ASSUME V # {} PROVE fold(V)[Rest(V)] = fold(Rest(V))[Rest(V)]
    <3>1. First(V) \in V
      BY <2>6, FirstIn
    <3>2. Rest(V) \in SUBSET V /\ Rest(V) \in SUBSET T /\ Rest(V) # T
      BY <2>2, <3>1 DEF Rest
    <3>3. Folded(fold(Rest(V)), Rest(V))
      BY <1>3, <3>2
    <3>4. IsFiniteSet(V)
      BY <2>2, FS_Subset
    <3> HIDE DEF fold
    <3>5. QED BY <2>3, <3>2, <3>3, <3>4, FoldedUnique
  <2> HIDE DEF fold, h
  <2>7. h[V] = fold(V)[V]
    BY <2>4, <2>5, <2>6
  <2>8. QED BY <2>7 DEF V
<1> HIDE DEF fold
<1>6. h = [s \in SUBSET T |-> IF s = {} THEN {} ELSE Join(First(s), h[Rest(s)])]
  <2>1. ASSUME NEW s \in SUBSET T
        PROVE (IF s = {} THEN {} ELSE Join(First(s), fold(Rest(s))[Rest(s)]))
               = IF s = {} THEN {} ELSE Join(First(s), h[Rest(s)])
    BY <1>5
  <2>2. QED BY <2>1, Zenon
<1>7. Folded(h, T)
  BY <1>6, Zenon DEF Folded
<1>8. QED BY <1>4, <1>7

(* FindContours is such a fold, of a finite image.                         *)
LEMMA ContoursFolded ==
  ASSUME NEW image, IsFiniteSet(image)
  PROVE  \E g : Folded(g, image) /\ FindContours(image) = g[image]
<1>1. FindContours(image) = (CHOOSE g : Folded(g, image))[image]
  BY DEF FindContours, FoldSet, MapThenFoldSet, Folded, First, Rest
<1>2. QED BY <1>1, FoldedExists

(* findContours adds one pixel to the contours of the others.              *)
LEMMA ContoursStep ==
  ASSUME NEW image, IsFiniteSet(image)
  PROVE  FindContours(image) = IF image = {} THEN {}
                               ELSE Join(First(image), FindContours(Rest(image)))
<1>1. PICK g : Folded(g, image) /\ FindContours(image) = g[image]
  BY ContoursFolded
<1>2. g[image] = IF image = {} THEN {} ELSE Join(First(image), g[Rest(image)])
  BY <1>1, FoldedValue
<1>3. ASSUME image # {} PROVE g[Rest(image)] = FindContours(Rest(image))
  <2>1. Rest(image) \in SUBSET image /\ IsFiniteSet(Rest(image))
    BY FS_Subset DEF Rest
  <2>2. PICK h : Folded(h, Rest(image)) /\ FindContours(Rest(image)) = h[Rest(image)]
    BY <2>1, ContoursFolded
  <2>3. QED BY <1>1, <2>1, <2>2, FoldedUnique
<1>4. QED BY <1>1, <1>2, <1>3

----------------------------------------------------------------------------
(* Contours are the components of the image.                               *)

(* A distance within n is a difference from -n to n.                       *)
LEMMA ApartBounds ==
  ASSUME NEW a \in Int, NEW b \in Int, NEW n \in Nat
  PROVE  Apart(a, b) <= n <=> (a - b <= n /\ b - a <= n)
BY DEF Apart

(* The coordinates of a pixel are integers, and make it.                   *)
LEMMA PixelInts ==
  ASSUME NEW p \in Pixels
  PROVE  p[1] \in Int /\ p[2] \in Int /\ p = <<p[1], p[2]>>
BY TrackerAssumption DEF Pixels

(* Nearness is mutual.                                                     *)
LEMMA WithinSymmetric ==
  ASSUME NEW p \in Pixels, NEW q \in Pixels, NEW n \in Nat
  PROVE  (Within(p, q, n) <=> Within(q, p, n)) /\ Within(p, p, n)
BY PixelInts, ApartBounds DEF Within

(* A picture has finitely many pixels, and so has each of its parts.       *)
LEMMA PixelsFinite == \A image \in SUBSET Pixels : IsFiniteSet(image)
<1>1. IsFiniteSet(0 .. Width - 1) /\ IsFiniteSet(0 .. Height - 1)
  BY TrackerAssumption, FS_Interval
<1>2. IsFiniteSet(Pixels)
  BY <1>1, FS_Product DEF Pixels
<1>3. QED BY <1>2, FS_Subset

(* However a connected set is split, the parts touch.                      *)
Connected(c) ==
  \A d \in SUBSET c : d # {} /\ d # c => \E p \in d, q \in c \ d : Within(p, q, 1)

Separate(a, b) == \A p \in a, q \in b : ~Within(p, q, 1)

ContoursOf(contours, image) ==
  /\ \A c \in contours : c \in SUBSET image /\ c # {}
  /\ \A p \in image : \E c \in contours : p \in c
  /\ \A a, b \in contours : a # b => Separate(a, b)
  /\ \A c \in contours : Connected(c)

(* A pixel joins the connected parts it touches into a connected one.      *)
LEMMA JoinConnected ==
  ASSUME NEW image \in SUBSET Pixels, NEW p \in Pixels \ image,
         NEW touched, 
         \A c \in touched : c \in SUBSET image /\ Connected(c) /\ \E q \in c : Within(p, q, 1)
  PROVE  Connected({p} \cup UNION touched)
<1> DEFINE c == {p} \cup UNION touched
<1>1. SUFFICES ASSUME NEW d \in SUBSET c, d # {}, d # c
               PROVE  \E r \in d, q \in c \ d : Within(r, q, 1)
  BY DEF Connected
<1>2. ASSUME NEW part \in touched, NEW r \in part \cap d, NEW q \in part \ d
      PROVE  \E r2 \in d, q2 \in c \ d : Within(r2, q2, 1)
  <2>1. part \cap d \in SUBSET part /\ part \cap d # {} /\ part \cap d # part
    BY <1>2
  <2>2. PICK r2 \in part \cap d, q2 \in part \ (part \cap d) : Within(r2, q2, 1)
    BY <2>1 DEF Connected
  <2>3. r2 \in d /\ q2 \in c \ d
    BY <2>2
  <2>4. QED BY <2>2, <2>3
<1>3. CASE p \in d
  <2>1. PICK q \in c : q \notin d
    BY <1>1
  <2>2. PICK part \in touched : q \in part
    BY <1>3, <2>1
  <2>3. PICK t \in part : Within(p, t, 1)
    OBVIOUS
  <2>4. CASE t \in d
    BY <1>2, <2>1, <2>2, <2>3, <2>4
  <2>5. CASE t \notin d
    BY <1>3, <2>3, <2>5
  <2>6. QED BY <2>4, <2>5
<1>4. CASE p \notin d
  <2>1. PICK r \in d : TRUE
    BY <1>1
  <2>2. PICK part \in touched : r \in part
    BY <1>4, <2>1
  <2>3. PICK t \in part : Within(p, t, 1)
    OBVIOUS
  <2>4. CASE t \notin d
    BY <1>2, <2>1, <2>2, <2>3, <2>4
  <2>5. CASE t \in d
    <3>1. t \in Pixels
      BY <2>3
    <3>2. Within(t, p, 1)
      BY <2>3, <3>1, WithinSymmetric
    <3>3. p \in c \ d
      BY <1>4
    <3>4. QED BY <2>5, <3>2, <3>3
  <2>6. QED BY <2>4, <2>5
<1>5. QED BY <1>3, <1>4

(* One more pixel joined to the contours of an image makes those of both.  *)
LEMMA JoinKeeps ==
  ASSUME NEW image \in SUBSET Pixels, NEW p \in Pixels \ image,
         NEW contours, ContoursOf(contours, image)
  PROVE  ContoursOf(Join(p, contours), image \cup {p})
<1> DEFINE touched == {c \in contours : \E q \in c : Within(p, q, 1)}
           joined == {p} \cup UNION touched
<1>1. Join(p, contours) = (contours \ touched) \cup {joined}
  BY DEF Join
<1>2. \A c \in contours : c \in SUBSET image /\ c # {} /\ Connected(c)
  BY DEF ContoursOf
<1>3. joined \in SUBSET (image \cup {p}) /\ joined # {}
  BY <1>2
<1>4. Connected(joined)
  BY <1>2, JoinConnected
<1>5. ASSUME NEW a \in contours \ touched PROVE Separate(a, joined) /\ Separate(joined, a)
  <2>1. ASSUME NEW r \in a, NEW q \in joined PROVE ~Within(r, q, 1) /\ ~Within(q, r, 1)
    <3>1. r \in Pixels /\ q \in Pixels
      BY <1>2, <1>3, <2>1
    <3>2. CASE q = p
      BY <3>1, <3>2, <1>5, <2>1, WithinSymmetric
    <3>3. CASE q # p
      <4>1. PICK b \in touched : q \in b
        BY <3>3
      <4>2. a # b /\ a \in contours /\ b \in contours
        BY <1>5, <4>1
      <4>3. Separate(a, b)
        BY <4>2 DEF ContoursOf
      <4>4. QED BY <3>1, <4>1, <4>3, WithinSymmetric DEF Separate
    <3>4. QED BY <3>2, <3>3
  <2>2. QED BY <2>1 DEF Separate
<1>6. \A a, b \in contours : a # b => Separate(a, b)
  BY DEF ContoursOf
<1>7. \A r \in image : \E c \in contours : r \in c
  BY DEF ContoursOf
<1>8. \A r \in image \cup {p} : \E c \in (contours \ touched) \cup {joined} : r \in c
  <2>1. ASSUME NEW r \in image PROVE \E c \in (contours \ touched) \cup {joined} : r \in c
    <3>1. PICK c \in contours : r \in c
      BY <1>7
    <3>2. CASE c \in touched
      BY <3>1, <3>2
    <3>3. QED BY <3>1, <3>2
  <2>2. QED BY <2>1
<1> HIDE DEF touched, joined
<1>9. \A c \in (contours \ touched) \cup {joined} : c \in SUBSET (image \cup {p}) /\ c # {} /\ Connected(c)
  BY <1>2, <1>3, <1>4
<1>10. \A a, b \in (contours \ touched) \cup {joined} : a # b => Separate(a, b)
  BY <1>5, <1>6
<1>11. QED BY <1>1, <1>8, <1>9, <1>10 DEF ContoursOf

(* Every contour is a connected part of the image, every pixel is in one,  *)
(* and no two contours touch.                                              *)
THEOREM ContoursAreComponents ==
  ASSUME NEW image \in SUBSET Pixels
  PROVE  ContoursOf(FindContours(image), image)
<1> DEFINE bad == {s \in SUBSET image : ~ContoursOf(FindContours(s), s)}
<1>1. SUFFICES ASSUME bad # {} PROVE FALSE
  OBVIOUS
<1>2. PICK s \in bad : \A r \in bad : r \subseteq s => r = s
  <2>1. bad \in SUBSET (SUBSET image) /\ IsFiniteSet(image)
    BY PixelsFinite
  <2> HIDE DEF bad
  <2>2. QED BY <1>1, <2>1, SmallestSet
<1>3. s \in SUBSET Pixels /\ IsFiniteSet(s) /\ ~ContoursOf(FindContours(s), s)
  BY PixelsFinite
<1>4. FindContours(s) = IF s = {} THEN {} ELSE Join(First(s), FindContours(Rest(s)))
  BY <1>3, ContoursStep
<1>5. CASE s = {}
  <2>1. ContoursOf({}, {})
    BY DEF ContoursOf
  <2>2. QED BY <1>3, <1>4, <1>5, <2>1
<1>6. CASE s # {}
  <2>1. First(s) \in s
    BY <1>6, FirstIn
  <2>2. /\ Rest(s) \in SUBSET image /\ Rest(s) \subseteq s /\ Rest(s) # s
        /\ First(s) \in Pixels \ Rest(s) /\ s = Rest(s) \cup {First(s)}
    BY <1>3, <2>1 DEF Rest
  <2>3. ContoursOf(FindContours(Rest(s)), Rest(s))
    BY <1>2, <2>2
  <2>4. ContoursOf(Join(First(s), FindContours(Rest(s))), Rest(s) \cup {First(s)})
    BY <2>2, <2>3, JoinKeeps
  <2>5. QED BY <1>3, <1>4, <1>6, <2>2, <2>4
<1>7. QED BY <1>5, <1>6

(* The order in which pixels are looked at does not matter: the contours   *)
(* are the connected parts that touch nothing else of the image.           *)
THEOREM ContoursDoNotDependOnOrder ==
  ASSUME NEW image \in SUBSET Pixels
  PROVE  FindContours(image) =
           {c \in SUBSET image : c # {} /\ Connected(c) /\ Separate(c, image \ c)}
<1> DEFINE contours == FindContours(image)
<1>1. /\ \A c \in contours : c \in SUBSET image /\ c # {} /\ Connected(c)
      /\ \A p \in image : \E c \in contours : p \in c
      /\ \A a, b \in contours : a # b => Separate(a, b)
  BY ContoursAreComponents DEF ContoursOf
<1> HIDE DEF contours
<1>2. ASSUME NEW c \in contours PROVE Separate(c, image \ c)
  <2>1. ASSUME NEW p \in c, NEW q \in image \ c PROVE ~Within(p, q, 1)
    <3>1. PICK b \in contours : q \in b
      BY <1>1
    <3>2. Separate(c, b)
      BY <1>1, <3>1
    <3>3. QED BY <3>1, <3>2 DEF Separate
  <2>2. QED BY <2>1 DEF Separate
<1>3. ASSUME NEW c \in SUBSET image, c # {}, Connected(c), Separate(c, image \ c)
      PROVE  c \in contours
  <2>1. PICK p \in c : TRUE
    BY <1>3
  <2>2. PICK a \in contours : p \in a
    BY <1>1
  <2>3. a \subseteq c
    <3>1. SUFFICES ASSUME a \cap c # a PROVE FALSE
      OBVIOUS
    <3>2. a \cap c \in SUBSET a /\ a \cap c # {} /\ a \cap c # a
      BY <2>2, <3>1
    <3>3. PICK r \in a \cap c, q \in a \ (a \cap c) : Within(r, q, 1)
      <4> DEFINE d == a \cap c
      <4>1. Connected(a)
        BY <1>1
      <4>2. \E r \in d, q \in a \ d : Within(r, q, 1)
        <5> HIDE DEF d
        <5>1. QED BY <3>2, <4>1 DEF Connected, d
      <4>3. QED BY <4>2
    <3>4. r \in c /\ q \in image \ c
      BY <1>1
    <3>5. QED BY <1>3, <3>3, <3>4 DEF Separate
  <2>4. c \subseteq a
    <3>1. SUFFICES ASSUME a # c PROVE FALSE
      OBVIOUS
    <3>2. PICK r \in a, q \in c \ a : Within(r, q, 1)
      BY <1>3, <2>2, <2>3, <3>1 DEF Connected
    <3>3. q \in image \ a
      OBVIOUS
    <3>4. Separate(a, image \ a)
      BY <1>2
    <3>5. QED BY <3>2, <3>3, <3>4 DEF Separate
  <2>5. a = c
    BY <2>3, <2>4
  <2>6. QED BY <2>5
<1>4. QED BY <1>1, <1>2, <1>3 DEF contours

----------------------------------------------------------------------------
(* The boxes of contours, and the two largest.                             *)

(* The sides of a box of pixels lie in the picture.                        *)
LEMMA CornersInFrame ==
  ASSUME NEW c \in SUBSET Pixels, c # {}
  PROVE  \E left, right \in 0 .. Width - 1 : \E top, bottom \in 0 .. Height - 1 :
           /\ MinAreaRect(c).center = <<right + left, bottom + top>>
           /\ MinAreaRect(c).size = (right - left) * (bottom - top)
           /\ left <= right /\ top <= bottom
<1> DEFINE xs == {p[1] : p \in c}
           ys == {p[2] : p \in c}
<1>1. xs \in SUBSET (0 .. Width - 1) /\ xs # {} /\ ys \in SUBSET (0 .. Height - 1) /\ ys # {}
  BY DEF Pixels
<1>2. Width \in Nat \ {0} /\ Height \in Nat \ {0}
  BY TrackerAssumption
<1>3. /\ MinAreaRect(c).center = <<Max(xs) + Min(xs), Max(ys) + Min(ys)>>
      /\ MinAreaRect(c).size = (Max(xs) - Min(xs)) * (Max(ys) - Min(ys))
  BY DEF MinAreaRect
<1> HIDE DEF xs, ys
<1>4. /\ Max(xs) \in xs /\ Min(xs) \in xs /\ Max(ys) \in ys /\ Min(ys) \in ys
      /\ Min(xs) <= Max(xs) /\ Min(ys) <= Max(ys)
  <2>1. Width - 1 \in Int /\ Height - 1 \in Int /\ 0 \in Int
    BY <1>2
  <2>2. /\ Max(xs) \in xs /\ Min(xs) \in xs /\ \A m \in xs : m <= Max(xs)
        /\ Max(ys) \in ys /\ Min(ys) \in ys /\ \A m \in ys : m <= Max(ys)
    BY <1>1, <2>1, MaxMinIn, Zenon
  <2>3. QED BY <2>2
<1>5. /\ Max(xs) \in 0 .. Width - 1 /\ Min(xs) \in 0 .. Width - 1
      /\ Max(ys) \in 0 .. Height - 1 /\ Min(ys) \in 0 .. Height - 1
  BY <1>1, <1>4
<1>6. QED BY <1>3, <1>4, <1>5

(* The centre of a contour's box lies in the picture, in half pixels.      *)
THEOREM BoxesInFrame ==
  ASSUME NEW image \in SUBSET Pixels, NEW c \in FindContours(image)
  PROVE  MinAreaRect(c).center \in (0 .. 2 * Width - 2) \X (0 .. 2 * Height - 2)
<1>1. c \in SUBSET Pixels /\ c # {}
  BY ContoursAreComponents DEF ContoursOf
<1>2. PICK left, right \in 0 .. Width - 1, top, bottom \in 0 .. Height - 1 :
        MinAreaRect(c).center = <<right + left, bottom + top>>
  BY <1>1, CornersInFrame
<1>3. right + left \in 0 .. 2 * Width - 2 /\ bottom + top \in 0 .. 2 * Height - 2
  BY TrackerAssumption
<1>4. QED BY <1>2, <1>3

(* Of finitely many contours one is beaten by none in area.                *)
LEMMA LargestIn ==
  ASSUME NEW S, IsFiniteSet(S), S # {}, \A c \in S : MinAreaRect(c).size \in Int
  PROVE  \E c \in S : \A d \in S : ~Cmp(d, c)
<1> DEFINE noSmaller(c) == {d \in S : MinAreaRect(d).size >= MinAreaRect(c).size}
           cuts == {noSmaller(c) : c \in S}
<1>1. cuts \in SUBSET (SUBSET S) /\ cuts # {}
  OBVIOUS
<1>2. PICK cut \in cuts : \A U \in cuts : U \subseteq cut => U = cut
  <2> HIDE DEF cuts
  <2>1. QED BY <1>1, SmallestSet
<1>3. PICK c \in S : cut = noSmaller(c)
  OBVIOUS
<1>4. ASSUME NEW d \in S, Cmp(d, c) PROVE FALSE
  <2>1. MinAreaRect(d).size > MinAreaRect(c).size
    BY <1>4 DEF Cmp
  <2>2. \A e \in S : MinAreaRect(e).size >= MinAreaRect(d).size => MinAreaRect(e).size >= MinAreaRect(c).size
    BY <2>1
  <2>3. noSmaller(d) \subseteq noSmaller(c)
    BY <2>2
  <2>4. noSmaller(d) = noSmaller(c)
    BY <1>2, <1>3, <2>3
  <2>5. c \in noSmaller(c) /\ c \notin noSmaller(d)
    BY <2>1
  <2>6. QED BY <2>4, <2>5
<1>5. QED BY <1>4

(* With two contours or more there are two to measure, however many are of *)
(* the same size: an update of the tracker never waits for a choice.       *)
THEOREM TwoLargestExist ==
  ASSUME NEW image \in SUBSET Pixels, Cardinality(FindContours(image)) > 1
  PROVE  FirstTwo(FindContours(image)) # {}
<1> DEFINE contours == FindContours(image)
<1>1. \A c \in contours : c \in SUBSET image /\ c # {}
  BY ContoursAreComponents DEF ContoursOf
<1>2. IsFiniteSet(contours)
  <2>1. IsFiniteSet(image)
    BY PixelsFinite
  <2>2. IsFiniteSet(SUBSET image)
    BY <2>1, FS_SUBSET
  <2>3. contours \in SUBSET (SUBSET image)
    BY <1>1
  <2>4. QED BY <2>2, <2>3, FS_Subset
<1>3. \A c \in contours : MinAreaRect(c).size \in Int
  <2>1. SUFFICES ASSUME NEW c \in contours PROVE MinAreaRect(c).size \in Int
    OBVIOUS
  <2>2. PICK left, right \in 0 .. Width - 1, top, bottom \in 0 .. Height - 1 :
          MinAreaRect(c).size = (right - left) * (bottom - top)
    BY <1>1, CornersInFrame
  <2>3. QED BY <2>2
<1>4. Cardinality(contours) > 1
  OBVIOUS
<1> HIDE DEF contours
<1>5. PICK first \in contours : \A d \in contours : ~Cmp(d, first)
  <2>1. contours # {}
    BY <1>4, FS_EmptySet
  <2>2. QED BY <1>2, <1>3, <2>1, LargestIn
<1> DEFINE others == contours \ {first}
<1>6. PICK second \in others : \A d \in others : ~Cmp(d, second)
  <2>1. others # {}
    <3>1. contours # {first}
      BY <1>4, FS_Singleton
    <3>2. QED BY <3>1
  <2>2. IsFiniteSet(others) /\ \A c \in others : MinAreaRect(c).size \in Int
    BY <1>2, <1>3, FS_Subset
  <2> HIDE DEF others
  <2>3. QED BY <2>1, <2>2, LargestIn
<1>7. <<first, second>> \in FirstTwo(contours)
  BY <1>5, <1>6 DEF FirstTwo
<1>8. QED BY <1>7 DEF contours

----------------------------------------------------------------------------
(* The closing of onlyGreen.                                               *)

(* No pixel of the tape's colour is lost by the filters, also not at the   *)
(* border of the frame.                                                    *)
THEOREM ClosingKeeps ==
  ASSUME NEW original \in [Pixels -> Colours]
  PROVE  Lit(original) \subseteq OnlyGreen(original)
<1>1. ASSUME NEW p \in Lit(original), NEW q \in Pixels, Within(p, q, Kernel)
      PROVE  q \in Dilation(Lit(original), Kernel)
  <2>1. p \in Pixels
    BY DEF Lit
  <2>2. Within(q, p, Kernel)
    BY <1>1, <2>1, PixelInts, ApartBounds, TrackerAssumption DEF Within
  <2>3. QED BY <2>2 DEF Dilation
<1>2. QED BY <1>1 DEF OnlyGreen, Erosion, Lit

(* The filters close every gap of up to 2 * Kernel pixels in a row: what   *)
(* lies between two pixels that stay is kept with them.                    *)
THEOREM RowGapsClose ==
  ASSUME NEW original, NEW p \in OnlyGreen(original), NEW q \in OnlyGreen(original),
         NEW r \in Pixels,
         p[2] = r[2], q[2] = r[2], p[1] <= r[1], r[1] <= q[1], q[1] - p[1] <= 2 * Kernel + 1
  PROVE  r \in OnlyGreen(original)
<1> DEFINE dilated == Dilation(Lit(original), Kernel)
<1>1. /\ p \in Pixels /\ \A s \in Pixels : Within(p, s, Kernel) => s \in dilated
      /\ q \in Pixels /\ \A s \in Pixels : Within(q, s, Kernel) => s \in dilated
  BY DEF OnlyGreen, Erosion
<1>2. Kernel \in Nat
  BY TrackerAssumption
<1>3. /\ p[1] \in Int /\ p[2] \in Int /\ q[1] \in Int /\ q[2] \in Int
      /\ r[1] \in Int /\ r[2] \in Int
  BY <1>1, PixelInts
<1> HIDE DEF dilated
<1>4. ASSUME NEW s \in Pixels, Within(r, s, Kernel)
      PROVE  s \in dilated
  <2>1. s[1] \in Int /\ s[2] \in Int
    BY PixelInts
  <2>2. /\ r[1] - s[1] <= Kernel /\ s[1] - r[1] <= Kernel
        /\ r[2] - s[2] <= Kernel /\ s[2] - r[2] <= Kernel
    BY <1>2, <1>3, <1>4, <2>1, ApartBounds DEF Within
  <2>3. CASE s[1] - p[1] <= Kernel
    <3>1. p[1] - s[1] <= Kernel
      BY <1>2, <1>3, <2>1, <2>2
    <3>2. Within(p, s, Kernel)
      BY <1>2, <1>3, <2>1, <2>2, <2>3, <3>1, ApartBounds DEF Within
    <3>3. QED BY <1>1, <3>2
  <2>4. CASE ~(s[1] - p[1] <= Kernel)
    <3>1. q[1] - s[1] <= Kernel /\ s[1] - q[1] <= Kernel
      BY <1>2, <1>3, <2>1, <2>2, <2>4
    <3>2. Within(q, s, Kernel)
      BY <1>2, <1>3, <2>1, <2>2, <3>1, ApartBounds DEF Within
    <3>3. QED BY <1>1, <3>2
  <2>5. QED BY <2>3, <2>4
<1>5. QED BY <1>4 DEF OnlyGreen, Erosion, dilated

(* ... and in a column.                                                    *)
THEOREM ColumnGapsClose ==
  ASSUME NEW original, NEW p \in OnlyGreen(original), NEW q \in OnlyGreen(original),
         NEW r \in Pixels,
         p[1] = r[1], q[1] = r[1], p[2] <= r[2], r[2] <= q[2], q[2] - p[2] <= 2 * Kernel + 1
  PROVE  r \in OnlyGreen(original)
<1> DEFINE dilated == Dilation(Lit(original), Kernel)
<1>1. /\ p \in Pixels /\ \A s \in Pixels : Within(p, s, Kernel) => s \in dilated
      /\ q \in Pixels /\ \A s \in Pixels : Within(q, s, Kernel) => s \in dilated
  BY DEF OnlyGreen, Erosion
<1>2. Kernel \in Nat
  BY TrackerAssumption
<1>3. /\ p[1] \in Int /\ p[2] \in Int /\ q[1] \in Int /\ q[2] \in Int
      /\ r[1] \in Int /\ r[2] \in Int
  BY <1>1, PixelInts
<1> HIDE DEF dilated
<1>4. ASSUME NEW s \in Pixels, Within(r, s, Kernel)
      PROVE  s \in dilated
  <2>1. s[1] \in Int /\ s[2] \in Int
    BY PixelInts
  <2>2. /\ r[1] - s[1] <= Kernel /\ s[1] - r[1] <= Kernel
        /\ r[2] - s[2] <= Kernel /\ s[2] - r[2] <= Kernel
    BY <1>2, <1>3, <1>4, <2>1, ApartBounds DEF Within
  <2>3. CASE s[2] - p[2] <= Kernel
    <3>1. p[2] - s[2] <= Kernel
      BY <1>2, <1>3, <2>1, <2>2
    <3>2. Within(p, s, Kernel)
      BY <1>2, <1>3, <2>1, <2>2, <2>3, <3>1, ApartBounds DEF Within
    <3>3. QED BY <1>1, <3>2
  <2>4. CASE ~(s[2] - p[2] <= Kernel)
    <3>1. q[2] - s[2] <= Kernel /\ s[2] - q[2] <= Kernel
      BY <1>2, <1>3, <2>1, <2>2, <2>4
    <3>2. Within(q, s, Kernel)
      BY <1>2, <1>3, <2>1, <2>2, <3>1, ApartBounds DEF Within
    <3>3. QED BY <1>1, <3>2
  <2>5. QED BY <2>3, <2>4
<1>5. QED BY <1>4 DEF OnlyGreen, Erosion, dilated

----------------------------------------------------------------------------
(* Strips of tape that melt.                                               *)

(* A line of pixels of the image, in a row, stays in one contour.          *)
LEMMA RowStays ==
  ASSUME NEW image \in SUBSET Pixels, NEW c \in FindContours(image),
         NEW p \in c, NEW q \in image, p[2] = q[2], p[1] <= q[1],
         \A x \in p[1] .. q[1] : <<x, p[2]>> \in image
  PROVE  q \in c
<1>1. c \in SUBSET image /\ Separate(c, image \ c)
  BY ContoursDoNotDependOnOrder
<1>2. /\ p[1] \in Int /\ p[2] \in Int /\ p = <<p[1], p[2]>>
      /\ q[1] \in Int /\ q[2] \in Int /\ q = <<q[1], q[2]>>
  BY <1>1, PixelInts
<1> DEFINE outside == {x \in p[1] .. q[1] : <<x, p[2]>> \notin c}
<1>3. SUFFICES ASSUME outside # {} PROVE FALSE
  BY <1>2
<1>4. PICK n \in outside : \A m \in outside : n <= m
  <2>1. IsFiniteSet(p[1] .. q[1]) /\ outside \in SUBSET (p[1] .. q[1])
    BY <1>2, FS_Interval
  <2>2. IsFiniteSet(outside)
    BY <2>1, FS_Subset
  <2>3. \A m \in outside : m \in Int
    BY <1>2
  <2> HIDE DEF outside
  <2>4. QED BY <1>3, <2>2, <2>3, LeastIn
<1>5. n \in Int /\ n \in p[1] .. q[1] /\ n # p[1] /\ n - 1 \in p[1] .. q[1] /\ n - 1 \notin outside
  BY <1>2, <1>4
<1>6. <<n - 1, p[2]>> \in c /\ <<n, p[2]>> \in image \ c
  BY <1>5
<1>7. Within(<<n - 1, p[2]>>, <<n, p[2]>>, 1)
  BY <1>2, <1>5 DEF Within, Apart
<1>8. QED BY <1>1, <1>6, <1>7 DEF Separate

(* ... and so does one in a column.                                        *)
LEMMA ColumnStays ==
  ASSUME NEW image \in SUBSET Pixels, NEW c \in FindContours(image),
         NEW p \in c, NEW q \in image, p[1] = q[1], p[2] <= q[2],
         \A y \in p[2] .. q[2] : <<p[1], y>> \in image
  PROVE  q \in c
<1>1. c \in SUBSET image /\ Separate(c, image \ c)
  BY ContoursDoNotDependOnOrder
<1>2. /\ p[1] \in Int /\ p[2] \in Int /\ p = <<p[1], p[2]>>
      /\ q[1] \in Int /\ q[2] \in Int /\ q = <<q[1], q[2]>>
  BY <1>1, PixelInts
<1> DEFINE outside == {y \in p[2] .. q[2] : <<p[1], y>> \notin c}
<1>3. SUFFICES ASSUME outside # {} PROVE FALSE
  BY <1>2
<1>4. PICK n \in outside : \A m \in outside : n <= m
  <2>1. IsFiniteSet(p[2] .. q[2]) /\ outside \in SUBSET (p[2] .. q[2])
    BY <1>2, FS_Interval
  <2>2. IsFiniteSet(outside)
    BY <2>1, FS_Subset
  <2>3. \A m \in outside : m \in Int
    BY <1>2
  <2> HIDE DEF outside
  <2>4. QED BY <1>3, <2>2, <2>3, LeastIn
<1>5. n \in Int /\ n \in p[2] .. q[2] /\ n # p[2] /\ n - 1 \in p[2] .. q[2] /\ n - 1 \notin outside
  BY <1>2, <1>4
<1>6. <<p[1], n - 1>> \in c /\ <<p[1], n>> \in image \ c
  BY <1>5
<1>7. Within(<<p[1], n - 1>>, <<p[1], n>>, 1)
  BY <1>2, <1>5 DEF Within, Apart
<1>8. QED BY <1>1, <1>6, <1>7 DEF Separate

(* Two pixels of one row that the filters leave no further apart than they *)
(* close are of one contour ...                                            *)
LEMMA RowMelts ==
  ASSUME NEW original, NEW a \in FindContours(OnlyGreen(original)),
         NEW p \in a, NEW q \in OnlyGreen(original),
         p[2] = q[2], p[1] <= q[1], q[1] - p[1] <= 2 * Kernel + 1
  PROVE  q \in a
<1>1. OnlyGreen(original) \in SUBSET Pixels
  BY DEF OnlyGreen, Erosion
<1>2. p \in OnlyGreen(original)
  BY <1>1, ContoursAreComponents DEF ContoursOf
<1>3. ASSUME NEW x \in p[1] .. q[1] PROVE <<x, p[2]>> \in OnlyGreen(original)
  <2>1. p \in Pixels /\ q \in Pixels
    BY <1>1, <1>2
  <2>2. <<x, p[2]>> \in Pixels
    BY <2>1, TrackerAssumption DEF Pixels
  <2>3. p[1] <= x /\ x <= q[1]
    BY <2>1, PixelInts
  <2>4. QED BY <1>2, <2>2, <2>3, RowGapsClose
<1>4. QED BY <1>1, <1>3, RowStays

(* ... and of one column.                                                  *)
LEMMA ColumnMelts ==
  ASSUME NEW original, NEW a \in FindContours(OnlyGreen(original)),
         NEW p \in a, NEW q \in OnlyGreen(original),
         p[1] = q[1], p[2] <= q[2], q[2] - p[2] <= 2 * Kernel + 1
  PROVE  q \in a
<1>1. OnlyGreen(original) \in SUBSET Pixels
  BY DEF OnlyGreen, Erosion
<1>2. p \in OnlyGreen(original)
  BY <1>1, ContoursAreComponents DEF ContoursOf
<1>3. ASSUME NEW y \in p[2] .. q[2] PROVE <<p[1], y>> \in OnlyGreen(original)
  <2>1. p \in Pixels /\ q \in Pixels
    BY <1>1, <1>2
  <2>2. <<p[1], y>> \in Pixels
    BY <2>1, TrackerAssumption DEF Pixels
  <2>3. p[2] <= y /\ y <= q[2]
    BY <2>1, PixelInts
  <2>4. QED BY <1>2, <2>2, <2>3, ColumnGapsClose
<1>4. QED BY <1>1, <1>3, ColumnStays

(* Contours of one picture are more than a filter apart, in every row and  *)
(* every column, whatever the camera delivers: of two strips of tape that  *)
(* hang nearer than that, contours sees one.                               *)
THEOREM GapsAreWide == GapWiderThanKernel
<1> DEFINE image == OnlyGreen(frame)
<1>1. SUFFICES ASSUME NEW a \in FindContours(image), NEW b \in FindContours(image), a # b,
                      NEW p \in a, NEW q \in b
               PROVE  /\ p[2] = q[2] => Apart(p[1], q[1]) > 2 * Kernel + 1
                      /\ p[1] = q[1] => Apart(p[2], q[2]) > 2 * Kernel + 1
  BY DEF GapWiderThanKernel
<1>2. image \in SUBSET Pixels
  BY DEF OnlyGreen, Erosion
<1>3. p \in image /\ q \in image
  BY <1>2, ContoursAreComponents DEF ContoursOf
<1>4. p \in Pixels /\ q \in Pixels
  BY <1>2, <1>3
<1>5. p \notin b /\ q \notin a
  <2>1. Separate(a, b)
    BY <1>1, <1>2, ContoursAreComponents DEF ContoursOf
  <2>2. Within(p, p, 1) /\ Within(q, q, 1)
    BY <1>4, WithinSymmetric
  <2>3. QED BY <2>1, <2>2 DEF Separate
<1>6. /\ p[1] \in Int /\ p[2] \in Int /\ q[1] \in Int /\ q[2] \in Int
      /\ Kernel \in Nat
  BY <1>4, PixelInts, TrackerAssumption
<1>7. ASSUME p[2] = q[2] PROVE Apart(p[1], q[1]) > 2 * Kernel + 1
  <2>1. p[1] <= q[1] => ~(q[1] - p[1] <= 2 * Kernel + 1)
    BY <1>3, <1>5, <1>7, RowMelts
  <2>2. q[1] <= p[1] => ~(p[1] - q[1] <= 2 * Kernel + 1)
    BY <1>3, <1>5, <1>7, RowMelts
  <2>3. QED BY <1>6, <2>1, <2>2 DEF Apart
<1>8. ASSUME p[1] = q[1] PROVE Apart(p[2], q[2]) > 2 * Kernel + 1
  <2>1. p[2] <= q[2] => ~(q[2] - p[2] <= 2 * Kernel + 1)
    BY <1>3, <1>5, <1>8, ColumnMelts
  <2>2. q[2] <= p[2] => ~(p[2] - q[2] <= 2 * Kernel + 1)
    BY <1>3, <1>5, <1>8, ColumnMelts
  <2>3. QED BY <1>6, <2>1, <2>2 DEF Apart
<1>9. QED BY <1>7, <1>8
=============================================================================
