----------------------------- MODULE FragmentProofs -----------------------------
(***************************************************************************)
(* Reassembly is right for any instructions, cut at any sizes into any     *)
(* number of fragments, however they are lost, repeated and overtaken.     *)
(* The argument: an id names one instruction cut in one way, so all that   *)
(* was ever sent under it are pieces of that, told apart by their number;  *)
(* the assembly holds fragments of one id only; and holding as many of     *)
(* them as there are is holding them all.                                  *)
(***************************************************************************)
EXTENDS Fragment, SequenceTheorems, WellFoundedInduction,
        FiniteSetTheorems, TLAPS

(***************************************************************************)
(* Folds.  f takes every subset of S to the fold over it: base over none,  *)
(* and otherwise g of the element c picks and the fold over the others.    *)
(* Where a proof by induction over sets or numbers is due, a least         *)
(* counterexample is refuted instead.                                      *)
(***************************************************************************)
Folds(f, S, base, g, c) ==
  f = [T \in SUBSET S |->
         IF T = {} THEN base ELSE g[<<c[T], f[T \ {c[T]}]>>]]

Picks(c, S) == \A T \in SUBSET S : T # {} => c[T] \in T

(* A set of finite sets has one that contains no other of them.            *)
LEMMA MinimalSet ==
  ASSUME NEW S, IsFiniteSet(S), NEW Q \in SUBSET SUBSET S, Q # {}
  PROVE  \E T \in Q : \A U \in Q : U \subseteq T => U = T
<1>1. IsWellFoundedOn(StrictSubsetOrdering(S), SUBSET S)
  BY FS_StrictSubsetOrderingWellFounded, FS_FiniteSubsetsOfFinite
<1>2. PICK T \in Q : \A U \in Q : ~ (<<U, T>> \in StrictSubsetOrdering(S))
  BY <1>1, WFMin
<1>3. \A U \in Q : U \subseteq T => U = T
  BY <1>2 DEF StrictSubsetOrdering
<1> QED  BY <1>3

(* Folds over two sets agree on what they have in common.                  *)
LEMMA FoldsAgree ==
  ASSUME NEW S1, NEW S2, NEW base, NEW g, NEW c, NEW f1, NEW f2,
         Folds(f1, S1, base, g, c), Folds(f2, S2, base, g, c),
         NEW U, IsFiniteSet(U), U \subseteq S1, U \subseteq S2, Picks(c, U)
  PROVE  f1[U] = f2[U]
<1> DEFINE Q == {T \in SUBSET U : f1[T] # f2[T]}
<1> SUFFICES ASSUME Q # {} PROVE FALSE
  OBVIOUS
<1>1. PICK T \in Q : \A W \in Q : W \subseteq T => W = T
  <2>1. Q \in SUBSET SUBSET U
    OBVIOUS
  <2> HIDE DEF Q
  <2> QED  BY <2>1, MinimalSet
<1>2. /\ f1[T] = IF T = {} THEN base ELSE g[<<c[T], f1[T \ {c[T]}]>>]
      /\ f2[T] = IF T = {} THEN base ELSE g[<<c[T], f2[T \ {c[T]}]>>]
  BY T \in SUBSET S1, T \in SUBSET S2 DEF Folds
<1>3. T # {} /\ c[T] \in T
  BY <1>2 DEF Picks
<1>4. f1[T \ {c[T]}] = f2[T \ {c[T]}]
  BY <1>1, <1>3
<1> QED  BY <1>2, <1>3, <1>4

(* The equation of a fold has a solution.                                  *)
LEMMA FoldsExist ==
  ASSUME NEW S, IsFiniteSet(S), NEW V, NEW base \in V, NEW c, Picks(c, S),
         NEW g \in [S \X V -> V]
  PROVE  \E f \in [SUBSET S -> V] : Folds(f, S, base, g, c)
<1> DEFINE Is(f, T) == f \in [SUBSET T -> V] /\ Folds(f, T, base, g, c)
           Q == {T \in SUBSET S : ~ \E f : Is(f, T)}
           G(T) == CHOOSE f : Is(f, T)
<1> SUFFICES ASSUME Q # {} PROVE FALSE
  OBVIOUS
<1>1. PICK T \in Q : \A W \in Q : W \subseteq T => W = T
  <2>1. Q \in SUBSET SUBSET S
    OBVIOUS
  <2> HIDE DEF Q
  <2> QED  BY <2>1, MinimalSet
<1> DEFINE h == [W \in SUBSET T |->
                   IF W = {} THEN base
                   ELSE g[<<c[W], G(W \ {c[W]})[W \ {c[W]}]>>]]
<1>2. \A W \in SUBSET T : W # {} => c[W] \in W
  BY DEF Picks
<1>3. \A W \in SUBSET T : W # T => Is(G(W), W)
  <2> SUFFICES ASSUME NEW W \in SUBSET T, W # T PROVE Is(G(W), W)
    OBVIOUS
  <2>1. W \notin Q /\ W \in SUBSET S
    BY <1>1
  <2>2. \E f : Is(f, W)
    BY <2>1
  <2> HIDE DEF Is
  <2> QED  BY <2>2
<1>4. \A W \in SUBSET T : IsFiniteSet(W) /\ Picks(c, W)
  BY FS_Subset DEF Picks
<1> HIDE DEF G
<1>5. ASSUME NEW W \in SUBSET T, W # T
      PROVE  h[W] = G(W)[W] /\ h[W] \in V
  <2>1. Is(G(W), W)
    BY <1>3, <1>5
  <2>2. G(W)[W] = IF W = {} THEN base ELSE g[<<c[W], G(W)[W \ {c[W]}]>>]
    BY <2>1 DEF Folds
  <2>3. CASE W = {}
    BY <2>2, <2>3
  <2>4. CASE W # {}
    <3> DEFINE Y == W \ {c[W]}
    <3>1. Y \subseteq W /\ Y \in SUBSET T /\ Y # T
      BY <1>2, <2>4
    <3>2. Is(G(Y), Y)
      BY <1>3, <3>1
    <3>3. G(W)[Y] = G(Y)[Y]
      <4>1. Folds(G(W), W, base, g, c) /\ Folds(G(Y), Y, base, g, c)
        BY <2>1, <3>2
      <4>2. IsFiniteSet(Y) /\ Picks(c, Y)
        BY <1>4, <3>1
      <4> HIDE DEF Y
      <4> QED  BY <3>1, <4>1, <4>2, FoldsAgree
    <3>4. h[W] = g[<<c[W], G(Y)[Y]>>]
      BY <2>4
    <3>5. G(W)[W] \in V
      BY <2>1
    <3> QED  BY <2>2, <2>4, <3>3, <3>4, <3>5
  <2> QED  BY <2>3, <2>4
<1>6. h = [W \in SUBSET T |-> IF W = {} THEN base ELSE g[<<c[W], h[W \ {c[W]}]>>]]
  <2> SUFFICES ASSUME NEW W \in SUBSET T, W # {}
               PROVE  h[W] = g[<<c[W], h[W \ {c[W]}]>>]
    OBVIOUS
  <2> DEFINE Y == W \ {c[W]}
  <2>1. Y \in SUBSET T /\ Y # T
    BY <1>2
  <2>2. h[Y] = G(Y)[Y]
    BY <1>5, <2>1
  <2>3. h[W] = g[<<c[W], G(Y)[Y]>>]
    OBVIOUS
  <2> QED  BY <2>2, <2>3
<1>7. h \in [SUBSET T -> V]
  <2> SUFFICES ASSUME NEW W \in SUBSET T PROVE h[W] \in V
    OBVIOUS
  <2>1. CASE W = {}
    BY <2>1
  <2>2. CASE W # {}
    <3> DEFINE Y == W \ {c[W]}
    <3>1. Y \in SUBSET T /\ Y # T /\ c[W] \in S
      BY <1>2, <2>2
    <3>2. h[Y] \in V
      BY <1>5, <3>1
    <3>3. h[W] = g[<<c[W], h[Y]>>]
      BY <1>6, <2>2
    <3> HIDE DEF h, Y
    <3> QED  BY <3>1, <3>2, <3>3
  <2> QED  BY <2>1, <2>2
<1>8. Is(h, T)
  BY <1>6, <1>7, Zenon DEF Folds
<1> HIDE DEF Is, h
<1> QED  BY <1>1, <1>8

--------------------------------------------------------------------------------

LastOf(id) == Final(cut[id].inst, cut[id].mtu)
PieceOf(id, n) == Piece(id, cut[id].inst, cut[id].mtu, n)

(* The fragmenter remembers what it gave its last id to.                   *)
Remembers ==
  /\ cut \in Seq(Cut)
  /\ next_instruction_id = Len(cut)
  /\ IF cut = <<>> THEN last_instruction = None /\ last_mtu = None
     ELSE /\ last_instruction = cut[Len(cut)].inst
          /\ last_mtu = cut[Len(cut)].mtu

(* Whatever was sent under an id is a piece of what was cut under it.      *)
SentPieces ==
  \A f \in net : /\ f.id \in DOMAIN cut
                 /\ LastOf(f.id) < MAX_FRAGMENTS
                 /\ f.fragment_num \in 0..LastOf(f.id)
                 /\ f = PieceOf(f.id, f.fragment_num)

BytesOf(h, S) == MapThenSumSet(LAMBDA n : Length(h[n]), S)

(* What is collected under an id, as a record like the ones the operators  *)
(* of the receiver pass along.                                             *)
Collects(a, id) ==
  /\ a \in [held : {a.held}, bytes : {a.bytes}, total : {a.total}, id : {a.id}]
  /\ a.id = id
  /\ DOMAIN a.held \subseteq 0..LastOf(id)
  /\ a.total \in {None, LastOf(id) + 1}
  /\ \A n \in DOMAIN a.held : a.held[n] = PieceOf(id, n).contents
  /\ a.held = [n \in DOMAIN a.held |-> a.held[n]]
  /\ a.bytes = BytesOf(a.held, DOMAIN a.held)

Assembly ==
  [held |-> held, bytes |-> bytes_held, total |-> fragments_total, id |-> current_id]

IInv ==
  /\ Remembers
  /\ SentPieces
  /\ current_id = None => Assembly = Empty(None)
  /\ current_id # None =>
       /\ current_id \in DOMAIN cut /\ LastOf(current_id) < MAX_FRAGMENTS
       /\ Collects(Assembly, current_id)
  /\ bytes_held \in 0..MAX_ASSEMBLY_BYTES
  /\ NeverLeftComplete

(* The number of an instruction's last piece.                              *)
LEMMA FinalIsNatural ==
  ASSUME NEW inst \in Instruction, NEW mtu \in Mtu
  PROVE  Final(inst, mtu) \in Nat
<1> DEFINE s == Size(inst) - 1
<1>1. s \in Nat /\ mtu \in Nat \ {0}
  BY FragmentConstants
<1> HIDE DEF s
<1>2. s \div mtu \in Nat
  BY <1>1
<1> QED  BY <1>2 DEF Final, s

(* The same of an instruction that was cut.                                *)
LEMMA LastIsNatural ==
  ASSUME Remembers, NEW id \in DOMAIN cut
  PROVE  /\ id # None
         /\ cut[id].inst \in Instruction /\ cut[id].mtu \in Mtu
         /\ LastOf(id) \in Nat
<1>1. cut[id] \in Cut /\ id \in Nat
  BY DEF Remembers
<1> QED  BY <1>1, FinalIsNatural, FragmentConstants DEF Cut, LastOf

(* A piece is a range of bytes, in order.                                  *)
LEMMA PieceLength ==
  ASSUME Remembers, NEW id \in DOMAIN cut, NEW n \in 0..LastOf(id)
  PROVE  /\ PieceOf(id, n).contents \in Contents
         /\ Length(PieceOf(id, n).contents) \in Nat
<1> DEFINE last == LastOf(id)
           mtu == cut[id].mtu
           size == Size(cut[id].inst)
           to == IF n = last THEN size ELSE (n + 1) * mtu
<1>1. last \in Nat /\ mtu \in Mtu /\ cut[id].inst \in Instruction
  BY LastIsNatural
<1>2. mtu \in Nat \ {0} /\ size \in Nat \ {0}
  <2> HIDE DEF mtu, last
  <2> QED  BY <1>1, FragmentConstants DEF size
<1>3. PieceOf(id, n).contents = [of |-> cut[id].inst, from |-> n * mtu, to |-> to]
  BY Zenon DEF PieceOf, Piece, LastOf
<1>4. last = (size - 1) \div mtu
  BY DEF LastOf, Final
<1>5. last * mtu <= size - 1
  <2> HIDE DEF size, mtu, last
  <2>1. size - 1 \in Nat /\ mtu > 0
    BY <1>2
  <2> DEFINE s == size - 1
  <2> HIDE DEF s
  <2>2. s \in Nat /\ mtu \in Nat \ {0} => (s \div mtu) * mtu <= s
    OBVIOUS
  <2> QED  BY <1>2, <1>4, <2>1, <2>2 DEF s
<1> HIDE DEF size, mtu, last
<1>6. n * mtu \in Nat /\ (n + 1) * mtu \in Nat /\ (n + 1) * mtu = n * mtu + mtu
  BY <1>1, <1>2
<1>7. to \in Nat /\ to - n * mtu \in Nat
  <2>1. CASE n = last
    <3>1. n * mtu <= size - 1
      BY <1>5, <2>1
    <3> QED  BY <1>2, <1>6, <2>1, <3>1
  <2>2. CASE n # last
    BY <1>2, <1>6, <2>2
  <2> QED  BY <2>1, <2>2
<1> HIDE DEF to
<1>8. PieceOf(id, n).contents \in Contents
  BY <1>1, <1>3, <1>6, <1>7 DEF Contents
<1>9. Length(PieceOf(id, n).contents) = to - n * mtu
  BY <1>3 DEF Length
<1> QED  BY <1>7, <1>8, <1>9

--------------------------------------------------------------------------------
(***************************************************************************)
(* The bytes of fragments: what the sum over them is, whatever order it is *)
(* taken in.                                                               *)
(***************************************************************************)
Lengths(h, S) == IsFiniteSet(S) /\ \A n \in S : Length(h[n]) \in Nat

(* The equation MapThenSumSet solves.                                      *)
Sums(f, h, S) ==
  f = [T \in SUBSET S |->
         IF T = {} THEN 0
         ELSE LET x == CHOOSE x \in T : TRUE
              IN  Length(h[x]) + f[T \ {x}]]

(* The counter sums by the recursion of the library's fold.                *)
LEMMA SumSolves ==
  ASSUME NEW h, NEW S
  PROVE  BytesOf(h, S) = (CHOOSE f : Sums(f, h, S))[S]
  BY Zenon DEF BytesOf, Sums, MapThenSumSet, MapThenFoldSet

(* Its sums are numbers.                                                   *)
LEMMA SumsTyped ==
  ASSUME NEW h, NEW S, Lengths(h, S), NEW f, Sums(f, h, S)
  PROVE  f \in [SUBSET S -> Nat]
<1> DEFINE Q == {T \in SUBSET S : f[T] \notin Nat}
<1>1. ASSUME Q # {} PROVE FALSE
  <2>1. Q \in SUBSET SUBSET S
    OBVIOUS
  <2> HIDE DEF Q
  <2>2. PICK T \in Q : \A W \in Q : W \subseteq T => W = T
    BY <1>1, <2>1, MinimalSet DEF Lengths
  <2> USE DEF Q
  <2> DEFINE x == CHOOSE x \in T : TRUE
  <2>3. f[T] = IF T = {} THEN 0 ELSE Length(h[x]) + f[T \ {x}]
    BY DEF Sums
  <2>4. T # {} /\ x \in T /\ Length(h[x]) \in Nat
    BY <2>3 DEF Lengths
  <2>5. f[T \ {x}] \in Nat
    BY <2>2, <2>4
  <2> QED  BY <2>3, <2>4, <2>5
<1>2. \A T \in SUBSET S : f[T] \in Nat
  BY <1>1
<1> QED  BY <1>2 DEF Sums

(* The sum of nothing, and of one piece more.                              *)
LEMMA SumStep ==
  ASSUME NEW h, NEW S, Lengths(h, S)
  PROVE  /\ BytesOf(h, {}) = 0
         /\ BytesOf(h, S) \in Nat
         /\ S # {} => LET x == CHOOSE x \in S : TRUE
                      IN  BytesOf(h, S) = Length(h[x]) + BytesOf(h, S \ {x})
<1> DEFINE c == [T \in SUBSET S |-> CHOOSE x \in T : TRUE]
           g == [p \in S \X Nat |-> Length(h[p[1]]) + p[2]]
           F(T) == CHOOSE f : Sums(f, h, T)
<1>1. Picks(c, S)
  BY DEF Picks
<1>2. \A T \in SUBSET S : Lengths(h, T) /\ Picks(c, T)
  BY <1>1, FS_Subset DEF Lengths, Picks
<1>3. ASSUME NEW T \in SUBSET S, NEW f \in [SUBSET T -> Nat]
      PROVE  Folds(f, T, 0, g, c) <=> Sums(f, h, T)
  <2> DEFINE X(W) == CHOOSE x \in W : TRUE
  <2>1. ASSUME NEW W \in SUBSET T, W # {}
        PROVE  g[<<c[W], f[W \ {c[W]}]>>] = Length(h[X(W)]) + f[W \ {X(W)}]
    <3>1. c[W] = X(W) /\ X(W) \in S /\ W \ {X(W)} \in SUBSET T
      BY <2>1
    <3> HIDE DEF X, c
    <3>2. f[W \ {X(W)}] \in Nat
      BY <1>3, <3>1
    <3> QED  BY <3>1, <3>2
  <2> HIDE DEF g, c
  <2> QED  BY <2>1 DEF Folds, Sums
<1> HIDE DEF g
<1>4. ASSUME NEW T \in SUBSET S
      PROVE  Sums(F(T), h, T) /\ F(T) \in [SUBSET T -> Nat]
  <2> DEFINE gT == [p \in T \X Nat |-> Length(h[p[1]]) + p[2]]
  <2>1. gT \in [T \X Nat -> Nat]
    <3>1. \A p \in T \X Nat : Length(h[p[1]]) + p[2] \in Nat
      BY DEF Lengths
    <3> QED  BY <3>1
  <2>2. IsFiniteSet(T) /\ Picks(c, T)
    BY <1>2 DEF Lengths
  <2> HIDE DEF gT, c
  <2>3. PICK f \in [SUBSET T -> Nat] : Folds(f, T, 0, gT, c)
    BY <2>1, <2>2, FoldsExist
  <2>4. Sums(f, h, T)
    <3> DEFINE X(W) == CHOOSE x \in W : TRUE
    <3>1. ASSUME NEW W \in SUBSET T, W # {}
          PROVE  gT[<<c[W], f[W \ {c[W]}]>>] = Length(h[X(W)]) + f[W \ {X(W)}]
      <4>1. c[W] = X(W) /\ X(W) \in T /\ W \ {X(W)} \in SUBSET T
        BY <3>1 DEF c
      <4> HIDE DEF X
      <4>2. f[W \ {X(W)}] \in Nat
        BY <2>3, <4>1
      <4> QED  BY <4>1, <4>2 DEF gT
    <3> QED  BY <2>3, <3>1 DEF Folds, Sums
  <2>5. Sums(F(T), h, T)
    BY <2>4
  <2> HIDE DEF F
  <2> QED  BY <2>5, <1>2, SumsTyped
<1>5. \A T \in SUBSET S : BytesOf(h, T) = F(T)[T]
  BY SumSolves
<1> HIDE DEF F
<1>6. F(S)[S] = IF S = {} THEN 0
                ELSE LET x == CHOOSE x \in S : TRUE
                     IN  Length(h[x]) + F(S)[S \ {x}]
  BY <1>4 DEF Sums
<1>7. ASSUME NEW T \in SUBSET S PROVE F(S)[T] = F(T)[T]
  <2>1. Folds(F(S), S, 0, g, c) /\ Folds(F(T), T, 0, g, c)
    BY <1>3, <1>4
  <2>2. IsFiniteSet(T) /\ Picks(c, T)
    BY <1>2 DEF Lengths
  <2> HIDE DEF c
  <2> QED  BY <2>1, <2>2, FoldsAgree
<1>8. BytesOf(h, {}) = 0
  <2>1. F({})[{}] = 0
    BY <1>4 DEF Sums
  <2> QED  BY <2>1, <1>5
<1>9. BytesOf(h, S) \in Nat
  <2>1. S \in SUBSET S
    OBVIOUS
  <2>2. F(S)[S] \in Nat
    BY <1>4, <2>1
  <2> QED  BY <1>5, <2>1, <2>2
<1>10. ASSUME S # {}
       PROVE  LET x == CHOOSE x \in S : TRUE
              IN  BytesOf(h, S) = Length(h[x]) + BytesOf(h, S \ {x})
  <2> DEFINE x == CHOOSE x \in S : TRUE
  <2>1. S \ {x} \in SUBSET S
    OBVIOUS
  <2>2. F(S)[S] = Length(h[x]) + F(S)[S \ {x}]
    BY <1>6, <1>10
  <2> HIDE DEF x
  <2>3. BytesOf(h, S) = Length(h[x]) + BytesOf(h, S \ {x})
    BY <1>5, <1>7, <2>1, <2>2
  <2> QED  BY <2>3 DEF x
<1> QED  BY <1>8, <1>9, <1>10

(* Any element may be taken out first.                                     *)
LEMMA SumRemove ==
  ASSUME NEW h, NEW S, Lengths(h, S), NEW x \in S
  PROVE  BytesOf(h, S) = Length(h[x]) + BytesOf(h, S \ {x})
<1> DEFINE Wrong(T, y) == BytesOf(h, T) # Length(h[y]) + BytesOf(h, T \ {y})
           Q == {T \in SUBSET S : \E y \in T : Wrong(T, y)}
<1> SUFFICES ASSUME Q # {} PROVE FALSE
  OBVIOUS
<1>1. PICK T \in Q : \A W \in Q : W \subseteq T => W = T
  <2>1. Q \in SUBSET SUBSET S
    OBVIOUS
  <2> HIDE DEF Q
  <2> QED  BY <2>1, MinimalSet DEF Lengths
<1>2. PICK y \in T : Wrong(T, y)
  OBVIOUS
<1> DEFINE z == CHOOSE z \in T : TRUE
<1>3. \A W \in SUBSET S : Lengths(h, W) /\ BytesOf(h, W) \in Nat
  <2>1. \A W \in SUBSET S : Lengths(h, W)
    BY FS_Subset DEF Lengths
  <2> QED  BY <2>1, SumStep
<1>4. z \in T /\ BytesOf(h, T) = Length(h[z]) + BytesOf(h, T \ {z})
  BY <1>3, SumStep
<1> HIDE DEF z
<1>5. z # y
  BY <1>2, <1>4
<1>6. /\ BytesOf(h, T \ {z}) = Length(h[y]) + BytesOf(h, (T \ {z}) \ {y})
      /\ BytesOf(h, T \ {y}) = Length(h[z]) + BytesOf(h, (T \ {y}) \ {z})
  BY <1>1, <1>4, <1>5
<1>7. (T \ {z}) \ {y} = (T \ {y}) \ {z}
  OBVIOUS
<1>8. Length(h[y]) \in Nat /\ Length(h[z]) \in Nat /\ BytesOf(h, (T \ {y}) \ {z}) \in Nat
  BY <1>3, <1>4 DEF Lengths
<1> QED  BY <1>2, <1>4, <1>6, <1>7, <1>8

(* The sum over a set is those over a part of it and over the rest.        *)
LEMMA SumApart ==
  ASSUME NEW h, NEW S, Lengths(h, S), NEW P \in SUBSET S
  PROVE  BytesOf(h, S) = BytesOf(h, P) + BytesOf(h, S \ P)
<1> DEFINE Q == {T \in SUBSET S : BytesOf(h, S) # BytesOf(h, T) + BytesOf(h, S \ T)}
<1> SUFFICES ASSUME Q # {} PROVE FALSE
  OBVIOUS
<1>1. PICK T \in Q : \A W \in Q : W \subseteq T => W = T
  <2>1. Q \in SUBSET SUBSET S
    OBVIOUS
  <2> HIDE DEF Q
  <2> QED  BY <2>1, MinimalSet DEF Lengths
<1>2. \A W \in SUBSET S : Lengths(h, W) /\ BytesOf(h, W) \in Nat /\ BytesOf(h, {}) = 0
  <2>1. \A W \in SUBSET S : Lengths(h, W)
    BY FS_Subset DEF Lengths
  <2> QED  BY <2>1, SumStep
<1>3. T # {}
  <2>1. S \ {} = S
    OBVIOUS
  <2> QED  BY <1>2, <2>1
<1>4. PICK x \in T : TRUE
  BY <1>3
<1>5. BytesOf(h, S) = BytesOf(h, T \ {x}) + BytesOf(h, S \ (T \ {x}))
  BY <1>1
<1>6. BytesOf(h, T) = Length(h[x]) + BytesOf(h, T \ {x})
  BY <1>2, SumRemove
<1>7. BytesOf(h, S \ (T \ {x})) = Length(h[x]) + BytesOf(h, S \ T)
  <2>1. (S \ (T \ {x})) \ {x} = S \ T
    OBVIOUS
  <2>2. Lengths(h, S \ (T \ {x})) /\ x \in S \ (T \ {x})
    BY <1>2
  <2> QED  BY <2>1, <2>2, SumRemove
<1>8. Length(h[x]) \in Nat /\ BytesOf(h, T \ {x}) \in Nat /\ BytesOf(h, S \ T) \in Nat
  BY <1>2 DEF Lengths
<1> QED  BY <1>5, <1>6, <1>7, <1>8

(* Only the contents of its own fragments matter to a sum.                 *)
LEMMA SumSame ==
  ASSUME NEW h, NEW k, NEW S, Lengths(h, S), \A n \in S : k[n] = h[n]
  PROVE  BytesOf(k, S) = BytesOf(h, S)
<1> DEFINE Q == {T \in SUBSET S : BytesOf(k, T) # BytesOf(h, T)}
<1> SUFFICES ASSUME Q # {} PROVE FALSE
  OBVIOUS
<1>1. PICK T \in Q : \A W \in Q : W \subseteq T => W = T
  <2>1. Q \in SUBSET SUBSET S
    OBVIOUS
  <2> HIDE DEF Q
  <2> QED  BY <2>1, MinimalSet DEF Lengths
<1>2. Lengths(h, T) /\ Lengths(k, T)
  BY FS_Subset DEF Lengths
<1>3. T # {}
  BY <1>2, SumStep
<1> DEFINE x == CHOOSE x \in T : TRUE
<1>4. /\ BytesOf(h, T) = Length(h[x]) + BytesOf(h, T \ {x})
      /\ BytesOf(k, T) = Length(k[x]) + BytesOf(k, T \ {x})
  BY <1>2, <1>3, SumStep
<1>5. x \in T
  BY <1>3
<1> HIDE DEF x
<1>6. BytesOf(k, T \ {x}) = BytesOf(h, T \ {x})
  BY <1>1, <1>5
<1> QED  BY <1>4, <1>5, <1>6

--------------------------------------------------------------------------------
(* What arrives keeps to the id it is collected under.                     *)

(* A collection just begun.                                                *)
LEMMA EmptyCollects ==
  ASSUME NEW id
  PROVE  Collects(Empty(id), id) /\ ~Complete(Empty(id))
<1> DEFINE none == [n \in {} |-> None]
<1>1. DOMAIN none = {} /\ none = [n \in DOMAIN none |-> none[n]]
  OBVIOUS
<1>2. BytesOf(none, {}) = 0
  BY SumStep, FS_EmptySet DEF Lengths
<1>3. Empty(id) = [held |-> none, bytes |-> 0, total |-> None, id |-> id]
  BY DEF Empty
<1> HIDE DEF none
<1> QED  BY <1>1, <1>2, <1>3 DEF Collects, Complete

(* The pieces collected have lengths.                                      *)
LEMMA CollectedLengths ==
  ASSUME Remembers, NEW id \in DOMAIN cut, NEW a, Collects(a, id)
  PROVE  Lengths(a.held, DOMAIN a.held)
<1>1. IsFiniteSet(0..LastOf(id))
  BY LastIsNatural, FS_Interval
<1>2. IsFiniteSet(DOMAIN a.held)
  BY <1>1, FS_Subset DEF Collects
<1> QED  BY <1>2, PieceLength DEF Collects, Lengths

(* A piece of another instruction starts the collection again.             *)
LEMMA ArrivingCollects ==
  ASSUME IInv, NEW f \in net
  PROVE  Collects(Arriving(f), f.id)
<1> DEFINE a == Superseded(f)
<1>1. f.id \in DOMAIN cut /\ f.id # None /\ LastOf(f.id) \in Nat
      /\ f.fragment_num \in 0..LastOf(f.id)
      /\ f = PieceOf(f.id, f.fragment_num)
  BY LastIsNatural DEF IInv, SentPieces
<1>2. Collects(a, f.id)
  <2>1. CASE current_id = f.id
    BY <2>1, <1>1 DEF IInv, Collects, Assembly, Superseded
  <2>2. CASE current_id # f.id
    BY <2>2, EmptyCollects DEF Superseded
  <2> QED  BY <2>1, <2>2
<1> HIDE DEF a
<1>3. CASE ~f.final_fragment
  BY <1>2, <1>3 DEF Arriving, WithTotal, a
<1>4. CASE f.final_fragment
  <2>1. f.fragment_num = LastOf(f.id)
    <3>1. PieceOf(f.id, f.fragment_num).final_fragment = (f.fragment_num = LastOf(f.id))
      BY Zenon DEF PieceOf, Piece, LastOf
    <3>2. PieceOf(f.id, f.fragment_num).final_fragment
      BY <1>1, <1>4, Zenon
    <3> QED  BY <3>1, <3>2, Zenon
  <2> DEFINE past == {n \in DOMAIN a.held : n > f.fragment_num}
             kept == [n \in DOMAIN a.held \ past |-> a.held[n]]
             sum == a.bytes - BytesOf(a.held, past)
             r == [a EXCEPT !.total = f.fragment_num + 1, !.held = kept, !.bytes = sum]
  <2>2. Arriving(f) = r
    BY <1>4, Zenon DEF Arriving, WithTotal, BytesOf, a
  <2>3. /\ DOMAIN kept \subseteq DOMAIN a.held
        /\ \A n \in DOMAIN kept : kept[n] = a.held[n]
        /\ kept = [n \in DOMAIN kept |-> kept[n]]
    OBVIOUS
  <2>5. sum = BytesOf(kept, DOMAIN kept)
    <3>1. Lengths(a.held, DOMAIN a.held)
      BY <1>1, <1>2, CollectedLengths DEF IInv
    <3>2. Lengths(a.held, past) /\ Lengths(a.held, DOMAIN a.held \ past)
      BY <3>1, FS_Subset DEF Lengths
    <3>3. BytesOf(a.held, DOMAIN a.held) =
            BytesOf(a.held, past) + BytesOf(a.held, DOMAIN a.held \ past)
      BY <3>1, SumApart
    <3>4. DOMAIN kept = DOMAIN a.held \ past
      OBVIOUS
    <3> HIDE DEF kept, past
    <3>5. BytesOf(a.held, past) \in Nat /\ BytesOf(a.held, DOMAIN kept) \in Nat
      BY <3>2, <3>4, SumStep
    <3>6. BytesOf(kept, DOMAIN kept) = BytesOf(a.held, DOMAIN kept)
      BY <2>3, <3>2, <3>4, SumSame
    <3>7. a.bytes = BytesOf(a.held, DOMAIN a.held)
      BY <1>2 DEF Collects
    <3> QED  BY <3>3, <3>4, <3>5, <3>6, <3>7
  <2> HIDE DEF kept, sum
  <2>4. /\ r \in [held : {r.held}, bytes : {r.bytes}, total : {r.total}, id : {r.id}]
        /\ r.held = kept /\ r.total = f.fragment_num + 1 /\ r.id = a.id
        /\ r.bytes = sum
    <3>1. PICK h, b, t, i : a = [held |-> h, bytes |-> b, total |-> t, id |-> i]
      BY <1>2 DEF Collects
    <3> QED  BY <3>1
  <2> HIDE DEF r
  <2>6. /\ DOMAIN r.held \subseteq 0..LastOf(f.id) /\ r.id = f.id
        /\ r.total \in {None, LastOf(f.id) + 1}
        /\ \A n \in DOMAIN r.held : r.held[n] = PieceOf(f.id, n).contents
    BY <1>2, <2>1, <2>3, <2>4 DEF Collects
  <2>7. /\ r.held = [n \in DOMAIN r.held |-> r.held[n]]
        /\ r.bytes = BytesOf(r.held, DOMAIN r.held)
    <3>1. r.held = kept /\ r.bytes = sum
      BY <2>4
    <3> DEFINE Good(h, b) == h = [n \in DOMAIN h |-> h[n]] /\ b = BytesOf(h, DOMAIN h)
    <3>2. Good(kept, sum)
      <4>1. kept = [n \in DOMAIN kept |-> kept[n]]
        BY DEF kept
      <4>2. sum = BytesOf(kept, DOMAIN kept)
        BY <2>5
      <4> QED  BY <4>1, <4>2
    <3> HIDE DEF Good
    <3>3. Good(r.held, r.bytes)
      BY <3>1, <3>2, Zenon
    <3> QED  BY <3>3, Zenon DEF Good
  <2> QED  BY <2>2, <2>4, <2>6, <2>7, Zenon DEF Collects
<1> QED  BY <1>3, <1>4

(* A piece put in its place leaves a collection of one instruction.        *)
LEMMA InsertedCollects ==
  ASSUME IInv, NEW f \in net
  PROVE  Collects(Inserted(Arriving(f), f), f.id)
<1> DEFINE a == Arriving(f)
<1>1. Collects(a, f.id)
  BY ArrivingCollects
<1>2. /\ f.fragment_num \in 0..LastOf(f.id)
      /\ f.contents = PieceOf(f.id, f.fragment_num).contents
  BY DEF IInv, SentPieces
<1> HIDE DEF a
<1>3. CASE f.fragment_num \in DOMAIN a.held
  BY <1>1, <1>3 DEF Inserted, a
<1>4. CASE f.fragment_num \notin DOMAIN a.held
  <2> DEFINE n == f.fragment_num
             new == [m \in DOMAIN a.held \cup {n} |->
                       IF m = n THEN f.contents ELSE a.held[m]]
             b == a.bytes + Length(f.contents)
  <2>1. Inserted(a, f) = [held |-> new, bytes |-> b, total |-> a.total, id |-> a.id]
    BY <1>1, <1>4 DEF Inserted, Collects
  <2>2. /\ DOMAIN new = DOMAIN a.held \cup {n}
        /\ new = [m \in DOMAIN new |-> new[m]]
        /\ new[n] = f.contents /\ \A m \in DOMAIN a.held : new[m] = a.held[m]
    BY <1>4
  <2>3. b = BytesOf(new, DOMAIN new)
    <3>1. f.id \in DOMAIN cut /\ Remembers
      BY DEF IInv, SentPieces
    <3>2. Lengths(a.held, DOMAIN a.held) /\ Length(f.contents) \in Nat
      BY <1>1, <1>2, <3>1, CollectedLengths, PieceLength
    <3>3. IsFiniteSet(DOMAIN new)
      BY <2>2, <3>2, FS_AddElement DEF Lengths
    <3> HIDE DEF new
    <3>4. Lengths(new, DOMAIN new)
      BY <2>2, <3>2, <3>3 DEF Lengths
    <3>5. BytesOf(new, DOMAIN new) = Length(new[n]) + BytesOf(new, DOMAIN new \ {n})
      BY <2>2, <3>4, SumRemove
    <3>6. DOMAIN new \ {n} = DOMAIN a.held
      BY <1>4, <2>2
    <3>7. BytesOf(new, DOMAIN a.held) = BytesOf(a.held, DOMAIN a.held)
      BY <2>2, <3>2, SumSame
    <3>8. BytesOf(a.held, DOMAIN a.held) \in Nat /\ a.bytes = BytesOf(a.held, DOMAIN a.held)
      BY <1>1, <3>2, SumStep DEF Collects
    <3>9. BytesOf(new, DOMAIN new) = Length(f.contents) + a.bytes
      BY <2>2, <3>5, <3>6, <3>7, <3>8
    <3> QED  BY <3>2, <3>8, <3>9
  <2> HIDE DEF b, new
  <2> QED  BY <1>1, <1>2, <2>1, <2>2, <2>3 DEF Collects, a
<1> QED  BY <1>3, <1>4 DEF a

(* Holding as many fragments as the final one announced is holding every   *)
(* piece, and together the pieces are the instruction.                     *)
LEMMA CompleteDecodes ==
  ASSUME Remembers, NEW id \in DOMAIN cut, NEW a, Collects(a, id), Complete(a)
  PROVE  Decodes(a.held, cut[id].inst)
<1> DEFINE last == LastOf(id)
           mtu == cut[id].mtu
           At(n) == n * mtu
<1>1. last \in Nat /\ mtu \in Nat \ {0} /\ last + 1 # None
  <2>1. last \in Nat /\ mtu \in Mtu
    BY LastIsNatural
  <2> HIDE DEF last, mtu
  <2> QED  BY <2>1, FragmentConstants
<1>0. At(0) = 0
  BY <1>1
<1>2. a.total = last + 1 /\ Cardinality(DOMAIN a.held) = last + 1
  BY DEF Collects, Complete
<1>3. IsFiniteSet(0..last) /\ Cardinality(0..last) = last + 1
  BY <1>1, FS_Interval
<1>4. DOMAIN a.held = 0..last
  BY <1>2, <1>3, FS_Subset DEF Collects
<1>5. \A n \in 0..last :
        /\ a.held[n].of = cut[id].inst
        /\ a.held[n].from = At(n)
        /\ a.held[n].to = IF n = last THEN Size(cut[id].inst) ELSE At(n + 1)
  <2> SUFFICES ASSUME NEW n \in 0..last
               PROVE  /\ a.held[n].of = cut[id].inst
                      /\ a.held[n].from = At(n)
                      /\ a.held[n].to = IF n = last THEN Size(cut[id].inst) ELSE At(n + 1)
    OBVIOUS
  <2>1. a.held[n] = PieceOf(id, n).contents
    BY <1>4 DEF Collects
  <2>2. PieceOf(id, n).contents =
          [of |-> cut[id].inst, from |-> At(n),
           to |-> IF n = last THEN Size(cut[id].inst) ELSE At(n + 1)]
    BY Zenon DEF PieceOf, Piece, LastOf
  <2> HIDE DEF last, At
  <2> QED  BY <2>1, <2>2
<1> HIDE DEF last, mtu, At
<1> SUFFICES ASSUME NEW n \in 0..last
             PROVE  /\ a.held[n].of = cut[id].inst
                    /\ a.held[n].from = IF n = 0 THEN 0 ELSE a.held[n - 1].to
                    /\ n + 1 \notin 0..last => a.held[n].to = Size(cut[id].inst)
  BY <1>4 DEF Decodes
<1>6. a.held[n].from = IF n = 0 THEN 0 ELSE a.held[n - 1].to
  <2>1. CASE n = 0
    BY <2>1, <1>0, <1>1, <1>5
  <2>2. CASE n # 0
    <3>1. n - 1 \in 0..last /\ n - 1 # last /\ (n - 1) + 1 = n
      BY <2>2, <1>1
    <3>2. a.held[n - 1].to = At((n - 1) + 1)
      BY <3>1, <1>5
    <3> QED  BY <2>2, <3>1, <3>2, <1>5
  <2> QED  BY <2>1, <2>2
<1>7. n + 1 \notin 0..last => n = last
  BY <1>1
<1> QED  BY <1>5, <1>6, <1>7

--------------------------------------------------------------------------------
(* A record that collects, and is not complete, keeps the invariant.       *)
LEMMA AssembleKeeps ==
  ASSUME IInv, NEW id \in DOMAIN cut, LastOf(id) < MAX_FRAGMENTS,
         NEW a, Collects(a, id), ~Complete(a), a.bytes <= MAX_ASSEMBLY_BYTES,
         Assemble(a)
  PROVE  IInv'
<1>1. Remembers' /\ SentPieces'
  BY DEF IInv, Assemble, fragmenter, Remembers, SentPieces, PieceOf, LastOf
<1>2. LastOf(id) \in Nat /\ id # None /\ id \in DOMAIN cut'
  BY LastIsNatural DEF IInv, Assemble
<1>3. current_id' = id /\ Collects(Assembly, current_id)'
  BY DEF Collects, Assembly, Assemble, PieceOf, LastOf
<1>4. NeverLeftComplete'
  <2>1. CASE a.total = None
    BY <2>1 DEF Assemble, NeverLeftComplete
  <2>2. CASE a.total # None
    <3>1. a.total = LastOf(id) + 1 /\ Cardinality(DOMAIN a.held) # LastOf(id) + 1
      BY <2>2 DEF Collects, Complete
    <3>2. IsFiniteSet(0..LastOf(id)) /\ Cardinality(0..LastOf(id)) = LastOf(id) + 1
      BY <1>2, FS_Interval
    <3>3. /\ Cardinality(DOMAIN a.held) \in Nat
          /\ Cardinality(DOMAIN a.held) <= LastOf(id) + 1
      <4>1. DOMAIN a.held \in SUBSET (0..LastOf(id))
        BY DEF Collects
      <4> QED  BY <3>2, <4>1, FS_Subset, FS_CardinalityType
    <3>4. Cardinality(DOMAIN a.held) < a.total
      BY <3>1, <3>3, <1>2
    <3> QED  BY <3>4 DEF Assemble, NeverLeftComplete
  <2> QED  BY <2>1, <2>2
<1>5. bytes_held' \in 0..MAX_ASSEMBLY_BYTES
  <2>1. Lengths(a.held, DOMAIN a.held)
    BY CollectedLengths DEF IInv
  <2>2. BytesOf(a.held, DOMAIN a.held) \in Nat
    BY <2>1, SumStep
  <2>3. a.bytes \in Nat
    BY <2>2 DEF Collects
  <2> QED  BY <2>3, FragmentConstants DEF Assemble
<1>6. LastOf(id)' < MAX_FRAGMENTS
  BY DEF Assemble, LastOf
<1> QED  BY <1>1, <1>2, <1>3, <1>4, <1>5, <1>6 DEF IInv

(* Starting over, after too many bytes or a complete instruction.          *)
LEMMA EmptyKeeps ==
  ASSUME IInv, NEW f \in net, Assemble(Empty(f.id))
  PROVE  IInv'
<1>1. f.id \in DOMAIN cut /\ LastOf(f.id) < MAX_FRAGMENTS
  BY DEF IInv, SentPieces
<1>2. Empty(f.id).bytes <= MAX_ASSEMBLY_BYTES
  BY FragmentConstants DEF Empty
<1> QED  BY <1>1, <1>2, EmptyCollects, AssembleKeeps

(* What does not overflow still fits once it is in.                        *)
LEMMA InsertedFits ==
  ASSUME IInv, NEW f \in net, ~Overflows(Arriving(f), f)
  PROVE  Inserted(Arriving(f), f).bytes <= MAX_ASSEMBLY_BYTES
<1> DEFINE a == Arriving(f)
<1>1. f.id \in DOMAIN cut /\ Remembers /\ Collects(a, f.id)
  BY ArrivingCollects DEF IInv, SentPieces
<1>2. Length(f.contents) \in Nat
  BY <1>1, PieceLength DEF IInv, SentPieces
<1>3. Lengths(a.held, DOMAIN a.held)
  BY <1>1, CollectedLengths
<1>4. BytesOf(a.held, DOMAIN a.held) \in Nat
  BY <1>3, SumStep
<1>5. a.bytes \in Nat /\ a.bytes + Length(f.contents) <= MAX_ASSEMBLY_BYTES
  BY <1>1, <1>2, <1>4, FragmentConstants DEF Collects, Overflows
<1>6. PICK h, b, t, i : a = [held |-> h, bytes |-> b, total |-> t, id |-> i]
  BY <1>1 DEF Collects
<1> HIDE DEF a
<1>7. Inserted(a, f).bytes \in {a.bytes, a.bytes + Length(f.contents)}
  BY <1>6 DEF Inserted
<1>8. Inserted(a, f).bytes <= MAX_ASSEMBLY_BYTES
  BY <1>2, <1>5, <1>7, FragmentConstants
<1> QED  BY <1>8 DEF a

(* An instruction is cut into pieces.                                      *)
LEMMA MakeKeeps == IInv /\ MakeFragments => IInv'
<1> SUFFICES ASSUME IInv, MakeFragments
             PROVE  IInv'
  OBVIOUS
<1>1. PICK inst \in Instruction, mtu \in Mtu :
        LET id == IF Changed(inst, mtu) THEN next_instruction_id + 1
                  ELSE next_instruction_id
        IN  /\ next_instruction_id' = id
            /\ last_instruction' = inst /\ last_mtu' = mtu
            /\ cut' = IF id = Len(cut) THEN cut
                      ELSE Append(cut, [inst |-> inst, mtu |-> mtu])
            /\ net' = IF Final(inst, mtu) >= MAX_FRAGMENTS THEN net
                      ELSE net \cup {Piece(id, inst, mtu, n) : n \in 0..Final(inst, mtu)}
            /\ UNCHANGED assembly
  BY DEF MakeFragments
<1> DEFINE id == next_instruction_id'
<1>2. cut \in Seq(Cut) /\ next_instruction_id = Len(cut) /\ Len(cut) \in Nat
      /\ [inst |-> inst, mtu |-> mtu] \in Cut
  BY DEF IInv, Remembers, Cut
(* Under the id, old or new, stands this instruction, cut like this.       *)
<1>3. /\ cut' \in Seq(Cut) /\ id = Len(cut') /\ id \in DOMAIN cut' /\ cut' # <<>>
      /\ cut'[id].inst = inst /\ cut'[id].mtu = mtu
      /\ DOMAIN cut \subseteq DOMAIN cut'
      /\ \A i \in DOMAIN cut : cut'[i] = cut[i]
  <2>1. CASE Changed(inst, mtu)
    <3>1. cut' = Append(cut, [inst |-> inst, mtu |-> mtu]) /\ id = Len(cut) + 1
      BY <1>1, <1>2, <2>1
    <3> QED  BY <3>1, <1>2
  <2>2. CASE ~Changed(inst, mtu)
    <3>1. cut' = cut /\ id = Len(cut)
      BY <1>1, <1>2, <2>2
    <3>2. last_instruction # None /\ Header(inst) = Header(last_instruction)
          /\ last_mtu = mtu
      BY <2>2 DEF Changed
    <3>3. cut # <<>> /\ last_instruction = cut[Len(cut)].inst
          /\ last_mtu = cut[Len(cut)].mtu
      BY <3>2 DEF IInv, Remembers
    <3>4. Len(cut) \in DOMAIN cut /\ cut[Len(cut)] \in Cut
      BY <3>3, <1>2
    <3>5. inst = last_instruction
      BY <3>2, <3>3, <3>4, HeaderNamesInstruction DEF Cut
    <3> QED  BY <3>1, <3>2, <3>3, <3>4, <3>5, <1>2
  <2> QED  BY <2>1, <2>2
<1>4. Remembers'
  BY <1>1, <1>3 DEF Remembers
<1>5. SentPieces'
  <2> SUFFICES ASSUME NEW f \in net'
               PROVE  /\ f.id \in DOMAIN cut'
                      /\ Final(cut'[f.id].inst, cut'[f.id].mtu) < MAX_FRAGMENTS
                      /\ f.fragment_num \in 0..Final(cut'[f.id].inst, cut'[f.id].mtu)
                      /\ f = Piece(f.id, cut'[f.id].inst, cut'[f.id].mtu, f.fragment_num)
    BY DEF SentPieces, PieceOf, LastOf
  <2>1. CASE f \in net
    BY <2>1, <1>3 DEF IInv, SentPieces, PieceOf, LastOf
  <2>2. CASE f \notin net
    <3>1. PICK n \in 0..Final(inst, mtu) : f = Piece(id, inst, mtu, n)
      BY <2>2, <1>1
    <3>3. Final(inst, mtu) < MAX_FRAGMENTS
      BY <2>2, <1>1, FinalIsNatural, FragmentConstants
    <3>2. f.id = id /\ f.fragment_num = n
      BY <3>1 DEF Piece
    <3> QED  BY <3>1, <3>2, <3>3, <1>3
  <2> QED  BY <2>1, <2>2
<1>6. UNCHANGED <<held, bytes_held, fragments_total, current_id>>
  BY <1>1 DEF assembly
<1>7. current_id # None => /\ current_id' \in DOMAIN cut' /\ LastOf(current_id)' < MAX_FRAGMENTS
                           /\ Collects(Assembly, current_id)'
  BY <1>3, <1>6 DEF IInv, Collects, Assembly, PieceOf, LastOf
<1>8. (current_id = None => Assembly = Empty(None))'
  BY <1>6 DEF IInv, Assembly
<1> QED  BY <1>4, <1>5, <1>6, <1>7, <1>8 DEF IInv, NeverLeftComplete

(* The inductive invariant holds of every reachable state.                 *)
THEOREM Invariance == Spec => []IInv
<1>1. Init => IInv
  <2> SUFFICES ASSUME Init PROVE IInv
    OBVIOUS
  <2>1. cut \in Seq(Cut) /\ Len(cut) = 0
    BY DEF Init
  <2>2. Assembly = Empty(None) /\ bytes_held \in 0..MAX_ASSEMBLY_BYTES
    BY FragmentConstants DEF Init, Assembly, Empty
  <2> QED  BY <2>1, <2>2 DEF Init, IInv, Remembers, SentPieces, NeverLeftComplete
<1>2. IInv /\ [Next]_vars => IInv'
  <2> SUFFICES ASSUME IInv, [Next]_vars PROVE IInv'
    OBVIOUS
  <2>1. CASE MakeFragments
    BY <2>1, MakeKeeps
  <2>2. CASE AddFragment
    <3>1. PICK f \in net : /\ ~Overflows(Arriving(f), f)
                           /\ ~Complete(Inserted(Arriving(f), f))
                           /\ Assemble(Inserted(Arriving(f), f))
      BY <2>2 DEF AddFragment
    <3>2. f.id \in DOMAIN cut /\ LastOf(f.id) < MAX_FRAGMENTS
      BY DEF IInv, SentPieces
    <3>3. Inserted(Arriving(f), f).bytes <= MAX_ASSEMBLY_BYTES
      BY <3>1, InsertedFits
    <3> QED  BY <3>1, <3>2, <3>3, InsertedCollects, AssembleKeeps
  <2>3. CASE AddFragmentOverflows
    <3>1. PICK f \in net : Assemble(Empty(f.id))
      BY <2>3 DEF AddFragmentOverflows
    <3> QED  BY <3>1, EmptyKeeps
  <2>4. CASE GetAssembly
    <3>1. PICK f \in net :
            LET a == Inserted(Arriving(f), f)
            IN  /\ Complete(a)
                /\ Assemble(IF \E inst \in Instruction : Decodes(a.held, inst)
                            THEN Empty(f.id) ELSE a)
      BY <2>4 DEF GetAssembly
    <3>2. f.id \in DOMAIN cut /\ Remembers
      BY DEF IInv, SentPieces
    <3>3. Decodes(Inserted(Arriving(f), f).held, cut[f.id].inst)
      BY <3>1, <3>2, InsertedCollects, CompleteDecodes
    <3>4. cut[f.id].inst \in Instruction
      BY <3>2, LastIsNatural
    <3>5. Assemble(Empty(f.id))
      BY <3>1, <3>3, <3>4
    <3> QED  BY <3>5, EmptyKeeps
  <2>5. CASE UNCHANGED vars
    BY <2>5 DEF vars, fragmenter, assembly, IInv, Remembers, SentPieces, Collects,
                Assembly, Empty, PieceOf, LastOf, NeverLeftComplete
  <2> QED  BY <2>1, <2>2, <2>3, <2>4, <2>5 DEF Next
<1> QED  BY <1>1, <1>2, PTL DEF Spec

(* add_fragment: what is collected under one id is one instruction's, each *)
(* number the piece of that number, in whatever order datagrams arrive.    *)
THEOREM OneAtATime == Spec => []OneInstructionAtATime
<1>1. IInv => OneInstructionAtATime
  BY DEF IInv, OneInstructionAtATime, Collects, Assembly, PieceOf
<1> QED  BY <1>1, Invariance, PTL

(* get_assembly: an instruction is handed on by the datagram that          *)
(* completes it, and never found unreadable.                               *)
THEOREM HandedOnAtOnce == Spec => []NeverLeftComplete
<1>1. IInv => NeverLeftComplete
  BY DEF IInv
<1> QED  BY <1>1, Invariance, PTL

(* add_fragment: the bytes counted against the limit are the bytes held,   *)
(* though fragments are repeated, dropped as past the end, and superseded. *)
THEOREM BytesCounted == Spec => []BytesAccounted
<1>1. IInv => BytesAccounted
  <2> SUFFICES ASSUME IInv PROVE bytes_held = BytesOf(held, DOMAIN held)
    BY Zenon DEF BytesAccounted, BytesOf
  <2>1. CASE current_id = None
    <3>1. Collects(Assembly, None)
      BY <2>1, EmptyCollects DEF IInv
    <3> QED  BY <3>1 DEF Collects, Assembly
  <2>2. CASE current_id # None
    BY <2>2 DEF IInv, Collects, Assembly
  <2> QED  BY <2>1, <2>2
<1> QED  BY <1>1, Invariance, PTL

(* The types: no more fragments or bytes are held than the limits allow,   *)
(* and the count of bytes does not go below none.                          *)
THEOREM TypeCorrect == Spec => []TypeOK
<1>1. IInv => TypeOK
  <2> SUFFICES ASSUME IInv PROVE TypeOK
    OBVIOUS
  <2>1. Remembers /\ SentPieces /\ bytes_held \in 0..MAX_ASSEMBLY_BYTES
    BY DEF IInv
  <2>2. /\ next_instruction_id \in Nat /\ cut \in Seq(Cut)
        /\ last_instruction \in Instruction \cup {None} /\ last_mtu \in Mtu \cup {None}
    <3>1. CASE cut = <<>>
      BY <2>1, <3>1 DEF Remembers
    <3>2. CASE cut # <<>>
      <4>1. Len(cut) \in DOMAIN cut /\ cut \in Seq(Cut) /\ Len(cut) \in Nat
        BY <2>1, <3>2 DEF Remembers
      <4>2. cut[Len(cut)] \in Cut
        BY <4>1
      <4> QED  BY <2>1, <3>2, <4>1, <4>2 DEF Remembers, Cut
    <3> QED  BY <3>1, <3>2
  <2>3. net \subseteq FragmentType
    <3> SUFFICES ASSUME NEW f \in net PROVE f \in FragmentType
      OBVIOUS
    <3>1. /\ f.id \in DOMAIN cut /\ f.fragment_num \in 0..LastOf(f.id)
          /\ f = PieceOf(f.id, f.fragment_num)
      BY <2>1 DEF SentPieces
    <3> DEFINE id == f.id
               n == f.fragment_num
    <3>2. PieceOf(id, n).contents \in Contents /\ id \in Nat /\ n \in Nat
      BY <2>1, <2>2, <3>1, PieceLength, LastIsNatural
    <3>3. \E c : PieceOf(id, n) =
            [id |-> id, fragment_num |-> n, final_fragment |-> n = LastOf(id), contents |-> c]
      BY Zenon DEF PieceOf, Piece, LastOf
    <3> HIDE DEF id, n
    <3>4. PieceOf(id, n) \in FragmentType
      BY <3>2, <3>3 DEF FragmentType
    <3> QED  BY <3>1, <3>4 DEF id, n
  <2>4. CASE current_id = None
    <3>1. DOMAIN held = {} /\ held = [n \in DOMAIN held |-> held[n]] /\ fragments_total = None
      BY <2>4 DEF IInv, Assembly, Empty
    <3> QED  BY <2>1, <2>2, <2>3, <2>4, <3>1 DEF TypeOK
  <2>5. CASE current_id # None
    <3>1. current_id \in DOMAIN cut /\ LastOf(current_id) < MAX_FRAGMENTS
          /\ Collects(Assembly, current_id)
      BY <2>5 DEF IInv
    <3>2. LastOf(current_id) \in Nat /\ current_id \in Nat
      BY <2>1, <2>2, <3>1, LastIsNatural
    <3>3. /\ DOMAIN held \subseteq 0..LastOf(current_id)
          /\ held = [n \in DOMAIN held |-> held[n]]
          /\ fragments_total \in {None, LastOf(current_id) + 1}
          /\ \A n \in DOMAIN held : held[n] = PieceOf(current_id, n).contents
      BY <3>1 DEF Collects, Assembly
    <3>4. \A n \in DOMAIN held : held[n] \in Contents
      BY <2>1, <3>1, <3>3, PieceLength
    <3>5. /\ DOMAIN held \subseteq 0..MAX_FRAGMENTS - 1
          /\ fragments_total \in 1..MAX_FRAGMENTS \cup {None}
      BY <3>1, <3>2, <3>3, FragmentConstants
    <3> QED  BY <2>1, <2>2, <2>3, <3>2, <3>3, <3>4, <3>5 DEF TypeOK
  <2> QED  BY <2>4, <2>5
<1> QED  BY <1>1, Invariance, PTL
================================================================================
