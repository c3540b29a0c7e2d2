---------------------------- MODULE SimnetProofs ----------------------------
(***************************************************************************)
(* The simnet session keeps its promises for any set of accounts,          *)
(* contracts, transactions and epochs, and any number of blocks: a         *)
(* rejected signed transaction leaves no trace, and the balances that are  *)
(* reported are those of the chain; and a session implements the ledger of *)
(* SimnetLedger.                                                           *)
(*                                                                         *)
(* The first part is about the store and the block tables alone: what is   *)
(* read after a write, after a block, and after a tentative block is taken *)
(* back.                                                                   *)
(***************************************************************************)
EXTENDS Simnet, WellFoundedInduction, TLAPS

\* A non-empty set of naturals has a least element.
LEMMA LeastNatural ==
    ASSUME NEW S \in SUBSET Nat, S # {}
    PROVE  \E m \in S : \A n \in S : m <= n
<1> DEFINE R == {ss \in Nat \X Nat : ss[1] < ss[2]}
<1>1. IsWellFoundedOn(R, Nat)
  BY NatLessThanWellFounded, Zenon DEF OpToRel
<1>2. PICK m \in S : \A n \in S : ~(<<n, m>> \in R)
  <2> HIDE DEF R
  <2> QED  BY <1>1, WFMin, Zenon
<1>3. \A n \in S : <<n, m>> \in Nat \X Nat /\ <<n, m>>[1] = n /\ <<n, m>>[2] = m
  OBVIOUS
<1>4. ASSUME NEW n \in S PROVE ~(n < m)
  BY <1>2, <1>3, Zenon
<1>5. QED  BY <1>4

\* A non-empty set of naturals with a bound has a greatest element.
LEMMA GreatestNatural ==
    ASSUME NEW n \in Nat, NEW S \in SUBSET (0..n), S # {}
    PROVE  \E m \in S : \A k \in S : k <= m
<1> DEFINE T == {x \in 0..n : n - x \in S}
<1>1. T \in SUBSET Nat
  OBVIOUS
<1>2. T # {}
  <2>1. PICK s \in S : TRUE
    OBVIOUS
  <2>2. s \in 0..n /\ n - s \in 0..n /\ n - (n - s) = s
    BY <2>1
  <2>3. QED  BY <2>1, <2>2
<1>3. PICK t \in T : \A u \in T : t <= u
  <2> HIDE DEF T
  <2> QED  BY <1>1, <1>2, LeastNatural
<1>4. ASSUME NEW k \in S PROVE k <= n - t
  <2>1. k \in 0..n /\ n - k \in 0..n /\ n - (n - k) = k
    OBVIOUS
  <2>2. n - k \in T
    BY <2>1
  <2>3. t \in 0..n /\ t <= n - k
    BY <2>2, <1>3
  <2>4. QED  BY <2>1, <2>3
<1>5. QED  BY <1>4

-----------------------------------------------------------------------------
\* The keys with a value from genesis on.
AccountKeys == {"nonce", "balance"} \X Accounts

\* A store whose account keys are set at genesis and not set above a height.
StoreOK(s, height) ==
    /\ s \in [Cells -> Nat \cup {Absent}]
    /\ \A key \in AccountKeys :
          /\ s[<<key, 0>>] # Absent
          /\ \A h \in Heights : h > height => s[<<key, h>>] = Absent

LEMMA CellsOfAccounts ==
    \A key \in AccountKeys : /\ key \in Keys
                             /\ \A h \in Heights : <<key, h>> \in Cells
BY DEF AccountKeys, Keys, Cells

LEMMA HeightsAreNaturals ==
    /\ Heights \in SUBSET Nat /\ 0 \in Heights /\ UnknownHeight \in Nat
    /\ \A h \in Heights : 0..h \in SUBSET Heights
    /\ \A h \in 0..MaxHeight : h \in Heights
BY ChainAssumption DEF Heights, UnknownHeight

\* A read returns the latest write at or below the height.
LEMMA ReadIsLatest ==
    ASSUME NEW s, NEW key, NEW h \in Nat, NEW g \in 0..h,
           s[<<key, g>>] # Absent, \A l \in (g + 1)..h : s[<<key, l>>] = Absent
    PROVE  ReadAt(s, key, h) = s[<<key, g>>]
<1> DEFINE W == {l \in 0..h : s[<<key, l>>] # Absent}
<1>1. g \in W
  OBVIOUS
<1>2. \A l \in W : l <= g
  OBVIOUS
<1>3. \A x \in W : (\A l \in W : l <= x) => x = g
  BY <1>1, <1>2
<1>4. (CHOOSE x \in W : \A l \in W : l <= x) = g
  BY <1>1, <1>2, <1>3
<1>5. QED  BY <1>1, <1>4 DEF ReadAt

\* An account key has a latest write.
LEMMA LatestExists ==
    ASSUME NEW s, NEW height, StoreOK(s, height), NEW key \in AccountKeys, NEW h \in Heights
    PROVE  \E g \in 0..h : s[<<key, g>>] # Absent /\ \A l \in (g + 1)..h : s[<<key, l>>] = Absent
<1> DEFINE W == {l \in 0..h : s[<<key, l>>] # Absent}
<1>1. h \in Nat
  BY HeightsAreNaturals
<1>2. W \in SUBSET (0..h) /\ 0 \in W
  BY <1>1 DEF StoreOK
<1>3. PICK g \in W : \A l \in W : l <= g
  <2> HIDE DEF W
  <2> QED  BY <1>1, <1>2, GreatestNatural
<1>4. \A l \in (g + 1)..h : l \in 0..h /\ ~(l <= g)
  BY <1>1, <1>3
<1>5. QED  BY <1>3, <1>4

\* What is read of an account key is a value.
LEMMA ReadIsValue ==
    ASSUME NEW s, NEW height, StoreOK(s, height), NEW key \in AccountKeys, NEW h \in Heights
    PROVE  ReadAt(s, key, h) \in Nat
<1>1. PICK g \in 0..h : s[<<key, g>>] # Absent /\ \A l \in (g + 1)..h : s[<<key, l>>] = Absent
  BY LatestExists
<1>2. h \in Nat /\ <<key, g>> \in Cells
  BY HeightsAreNaturals, CellsOfAccounts
<1>3. ReadAt(s, key, h) = s[<<key, g>>]
  BY <1>1, <1>2, ReadIsLatest
<1>4. QED  BY <1>1, <1>2, <1>3 DEF StoreOK

\* Two stores that agree on a key up to a height are read alike.
LEMMA ReadAlike ==
    ASSUME NEW s, NEW t, NEW key, NEW h \in Nat,
           \A l \in 0..h : s[<<key, l>>] = t[<<key, l>>]
    PROVE  ReadAt(s, key, h) = ReadAt(t, key, h)
<1> DEFINE W == {l \in 0..h : s[<<key, l>>] # Absent}
<1>1. W = {l \in 0..h : t[<<key, l>>] # Absent}
  OBVIOUS
<1>2. CASE W = {}
  BY <1>1, <1>2 DEF ReadAt
<1>3. CASE W # {}
  <2>1. PICK g \in W : \A l \in W : l <= g
    <3> HIDE DEF W
    <3>1. W \in SUBSET (0..h)
      BY DEF W
    <3>2. QED  BY <3>1, <1>3, GreatestNatural
  <2>2. g \in 0..h /\ s[<<key, g>>] # Absent
    OBVIOUS
  <2>3. \A l \in (g + 1)..h : s[<<key, l>>] = Absent
    BY <2>1, <2>2
  <2>4. QED  BY <2>2, <2>3, ReadIsLatest
<1>4. QED  BY <1>2, <1>3

\* A new block is read like the one below it.
LEMMA ReadAbove ==
    ASSUME NEW s, NEW height, StoreOK(s, height), NEW key \in AccountKeys,
           height \in Nat, height + 1 \in Heights
    PROVE  ReadAt(s, key, height + 1) = ReadAt(s, key, height)
<1>1. height \in Heights
  BY ChainAssumption DEF Heights, UnknownHeight
<1>2. PICK g \in 0..height :
         s[<<key, g>>] # Absent /\ \A l \in (g + 1)..height : s[<<key, l>>] = Absent
  BY <1>1, LatestExists
<1>3. s[<<key, height + 1>>] = Absent
  <2>1. \A h \in Heights : h > height => s[<<key, h>>] = Absent
    BY DEF StoreOK
  <2>2. height + 1 > height
    OBVIOUS
  <2>3. QED  BY <2>1, <2>2
<1>4. \A l \in (g + 1)..(height + 1) : l \in (g + 1)..height \/ l = height + 1
  OBVIOUS
<1>5. g \in 0..(height + 1) /\ \A l \in (g + 1)..(height + 1) : s[<<key, l>>] = Absent
  BY <1>2, <1>3, <1>4
<1>6. QED  BY <1>2, <1>5, ReadIsLatest

-----------------------------------------------------------------------------
\* Two stores with the same values of the keys that transactions write.
SameKeys(s, t) == \A key \in Keys : \A h \in Heights : t[<<key, h>>] = s[<<key, h>>]

LEMMA SameKeysReadAlike ==
    ASSUME NEW s, NEW height, StoreOK(s, height),
           NEW t \in [Cells -> Nat \cup {Absent}], SameKeys(s, t)
    PROVE  /\ StoreOK(t, height)
           /\ \A key \in Keys : \A h \in Heights : ReadAt(t, key, h) = ReadAt(s, key, h)
<1>1. StoreOK(t, height)
  BY CellsOfAccounts, HeightsAreNaturals DEF StoreOK, SameKeys
<1>2. ASSUME NEW key \in Keys, NEW h \in Heights
      PROVE  ReadAt(t, key, h) = ReadAt(s, key, h)
  <2>1. h \in Nat /\ \A l \in 0..h : l \in Heights
    BY HeightsAreNaturals
  <2>2. QED  BY <2>1, ReadAlike DEF SameKeys
<1>3. QED  BY <1>1, <1>2

\* A write to a cell of another key: the epoch, the block time, the tenure.
LEMMA PutKeepsKeys ==
    ASSUME NEW s \in [Cells -> Nat \cup {Absent}], NEW cell \in Cells, NEW v \in Nat,
           cell[1] \notin Keys
    PROVE  PutStore(s, cell, v) \in [Cells -> Nat \cup {Absent}] /\ SameKeys(s, PutStore(s, cell, v))
<1>1. PutStore(s, cell, v) \in [Cells -> Nat \cup {Absent}]
  BY DEF PutStore
<1>2. ASSUME NEW key \in Keys, NEW h \in Heights
      PROVE  PutStore(s, cell, v)[<<key, h>>] = s[<<key, h>>]
  <2>1. <<key, h>> \in Cells /\ <<key, h>>[1] = key
    BY DEF Cells
  <2>2. <<key, h>> # cell
    BY <2>1
  <2>3. QED  BY <2>1, <2>2 DEF PutStore
<1>3. QED  BY <1>1, <1>2 DEF SameKeys

\* The contracts a store knows; their metadata has no height.
Held(s) == {c \in Contracts : s[<<<<"contract", c>>, 0>>] # Absent}

LEMMA ContractCells ==
    \A c \in Contracts : <<"contract", c>> \in Keys /\ <<<<"contract", c>>, 0>> \in Cells
BY HeightsAreNaturals DEF Keys, Cells

LEMMA SameKeysHold ==
    ASSUME NEW s, NEW t, SameKeys(s, t)
    PROVE  Held(t) = Held(s)
BY ContractCells, HeightsAreNaturals DEF Held, SameKeys

\* The cells of the epoch, the block time and the tenure.
LEMMA SystemCells ==
    \A h \in Heights : \A key \in {<<"epoch">>, <<"time">>, <<"tenure">>} :
        <<key, h>> \in Cells /\ <<key, h>>[1] \notin Keys
BY DEF Cells, Keys

\* A frame is read through: a commit at the current height makes its values
\* those the store is read with, and leaves the other keys alone.
LEMMA CommitIsRead ==
    ASSUME NEW s, NEW height \in 0..MaxHeight, StoreOK(s, height),
           NEW w \in [Keys -> Nat \cup {Absent}]
    PROVE  /\ StoreOK(CommitStore(s, w, height), height)
           /\ \A key \in AccountKeys :
                 ReadAt(CommitStore(s, w, height), key, height) =
                     IF w[key] # Absent THEN w[key] ELSE ReadAt(s, key, height)
<1> DEFINE t == CommitStore(s, w, height)
<1>1. \A key \in AccountKeys : \A h \in Heights :
         <<key, h>> \in Written(w, height) <=> w[key] # Absent /\ h = height
  <2> SUFFICES ASSUME NEW key \in AccountKeys, NEW h \in Heights
               PROVE  <<key, h>> \in Written(w, height) <=> w[key] # Absent /\ h = height
    OBVIOUS
  <2>1. key[1] # "contract" /\ key \in Keys /\ <<key, h>> \in Cells
    BY CellsOfAccounts DEF AccountKeys
  <2>2. QED  BY <2>1 DEF Written, CellOf
<1>2. t \in [Cells -> Nat \cup {Absent}]
  BY DEF CommitStore, Written, StoreOK
<1>3. \A key \in AccountKeys : \A h \in Heights :
         t[<<key, h>>] = IF w[key] # Absent /\ h = height THEN w[key] ELSE s[<<key, h>>]
  <2> SUFFICES ASSUME NEW key \in AccountKeys, NEW h \in Heights
               PROVE  t[<<key, h>>] =
                        IF w[key] # Absent /\ h = height THEN w[key] ELSE s[<<key, h>>]
    OBVIOUS
  <2>1. <<key, h>> \in Cells /\ <<key, h>>[1] = key
    BY CellsOfAccounts
  <2>2. QED  BY <2>1, <1>1 DEF CommitStore
<1>4. height \in Heights /\ height \in Nat
  BY HeightsAreNaturals
<1> HIDE DEF t
<1>5. StoreOK(t, height)
  BY <1>2, <1>3, <1>4, HeightsAreNaturals DEF StoreOK
<1>6. ASSUME NEW key \in AccountKeys
      PROVE  ReadAt(t, key, height) = IF w[key] # Absent THEN w[key] ELSE ReadAt(s, key, height)
  <2>1. CASE w[key] # Absent
    <3>1. t[<<key, height>>] = w[key]
      BY <2>1, <1>3, <1>4
    <3>2. \A l \in (height + 1)..height : t[<<key, l>>] = Absent
      BY <1>4
    <3>3. QED  BY <2>1, <3>1, <3>2, <1>4, ReadIsLatest
  <2>2. CASE w[key] = Absent
    <3>1. \A l \in 0..height : t[<<key, l>>] = s[<<key, l>>]
      BY <2>2, <1>3, <1>4, HeightsAreNaturals
    <3>2. QED  BY <2>2, <3>1, <1>4, ReadAlike
  <2>3. QED  BY <2>1, <2>2
<1>7. QED  BY <1>5, <1>6 DEF t

\* A commit adds the contracts of its frame.
LEMMA CommitHolds ==
    ASSUME NEW s, NEW height, NEW w \in [Keys -> Nat \cup {Absent}]
    PROVE  Held(CommitStore(s, w, height)) =
               Held(s) \cup {c \in Contracts : w[<<"contract", c>>] # Absent}
<1> DEFINE t == CommitStore(s, w, height)
<1>1. ASSUME NEW c \in Contracts
      PROVE  t[<<<<"contract", c>>, 0>>] =
                 IF w[<<"contract", c>>] # Absent THEN w[<<"contract", c>>]
                 ELSE s[<<<<"contract", c>>, 0>>]
  <2> DEFINE key == <<"contract", c>>
             cell == <<key, 0>>
  <2>1. key \in Keys /\ cell \in Cells /\ cell[1] = key /\ key[1] = "contract"
    BY ContractCells
  <2> HIDE DEF key
  <2>2. CellOf(cell[1], height) = cell
    BY <2>1 DEF CellOf
  <2> HIDE DEF cell
  <2>3. cell \in Written(w, height) <=> w[key] # Absent
    BY <2>1, <2>2 DEF Written
  <2>4. t[cell] = IF w[key] # Absent THEN w[key] ELSE s[cell]
    BY <2>1, <2>3 DEF CommitStore
  <2>5. QED  BY <2>4 DEF cell, key
<1> HIDE DEF t
<1>2. QED  BY <1>1 DEF Held, t

-----------------------------------------------------------------------------
\* A chain with a block at its tip, and nothing between the tip and the height.
ChainOK(c) == c \in ChainType /\ c.open = c.height /\ c.blocks[c.height] # Absent

\* The block that follows: a burn block before epoch 3.0.
NextChain(c) == IF c.epoch < Nakamoto THEN AdvanceBurn(c) ELSE AdvanceStacks(c)

LEMMA AdvanceStacksOK ==
    ASSUME NEW c, ChainOK(c), c.height < MaxHeight
    PROVE  /\ ChainOK(AdvanceStacks(c))
           /\ AdvanceStacks(c).height = c.height + 1
           /\ AdvanceStacks(c).epoch = c.epoch /\ AdvanceStacks(c).burn = c.burn
           /\ AdvanceStacks(c).burnTime = c.burnTime /\ AdvanceStacks(c).tenure = c.tenure
           /\ \A h \in Heights \ {c.height + 1} : AdvanceStacks(c).blocks[h] = c.blocks[h]
<1> USE ChainAssumption
<1> DEFINE d == AdvanceStacks(c)
           info == [time |-> NextStacksTime(c), burn |-> c.burn, tenure |-> c.tenure]
<1>1. c.height + 1 \in 0..MaxHeight /\ c.height + 1 \in Heights /\ c.height \in Heights
  BY DEF ChainOK, ChainType, Heights, UnknownHeight
<1>2. c.blocks[c.height].time \in Nat
  BY <1>1 DEF ChainOK, ChainType, BlockInfo
<1>3. info \in [time : Nat, burn : Nat, tenure : Nat]
  BY <1>2 DEF NextStacksTime, ChainOK, ChainType
<1>4. info \in BlockInfo /\ info # Absent
  BY <1>3 DEF BlockInfo
<1> HIDE DEF info
<1> DEFINE f == [c.blocks EXCEPT ![c.height + 1] = info]
           n == c.height + 1
<1>5. f \in [Heights -> BlockInfo] /\ f[n] = info /\ n \in 0..MaxHeight
  BY <1>1, <1>4 DEF ChainOK, ChainType
<1>6. d = [c EXCEPT !.height = n, !.blocks = f, !.open = n]
  BY DEF AdvanceStacks, info
<1>7. c \in ChainType
  BY DEF ChainOK
<1> HIDE DEF d, f, n
<1>8. /\ d \in ChainType /\ d.height = n /\ d.open = n /\ d.blocks = f /\ d.epoch = c.epoch
      /\ d.burn = c.burn /\ d.burnTime = c.burnTime /\ d.tenure = c.tenure
  BY <1>5, <1>6, <1>7, Zenon DEF ChainType
<1>9. \A h \in Heights \ {n} : f[h] = c.blocks[h]
  BY <1>7 DEF f, n, ChainType
<1>10. QED  BY <1>4, <1>5, <1>8, <1>9 DEF ChainOK, d, n

LEMMA AdvanceBurnOK ==
    ASSUME NEW c, ChainOK(c), c.height < MaxHeight
    PROVE  /\ ChainOK(AdvanceBurn(c))
           /\ AdvanceBurn(c).height = c.height + 1
           /\ AdvanceBurn(c).epoch = c.epoch
           /\ \A h \in Heights \ {c.height + 1} : AdvanceBurn(c).blocks[h] = c.blocks[h]
<1> USE ChainAssumption
<1> DEFINE b == [c EXCEPT !.burnTime = NextBurnTime(c), !.burn = @ + 1, !.tenure = @ + 1]
<1>1. c.height \in Heights
  BY DEF ChainOK, ChainType, Heights, UnknownHeight
<1>2. c.blocks[c.open].time \in Nat
  BY <1>1 DEF ChainOK, ChainType, BlockInfo
<1>3. NextBurnTime(c) \in Nat
  BY <1>2 DEF NextBurnTime, ChainOK, ChainType
<1>4. b \in ChainType /\ b.height = c.height /\ b.open = c.open /\ b.blocks = c.blocks
      /\ b.epoch = c.epoch
  <2>1. c.burn + 1 \in Nat /\ c.tenure + 1 \in Nat /\ c \in ChainType
    BY DEF ChainOK, ChainType
  <2>2. QED  BY <2>1, <1>3, Zenon DEF ChainType
<1>5. ChainOK(b)
  BY <1>4 DEF ChainOK
<1>6. AdvanceBurn(c) = AdvanceStacks(b)
  BY DEF AdvanceBurn
<1>7. QED
  <2> HIDE DEF b
  <2> QED  BY <1>4, <1>5, <1>6, AdvanceStacksOK

LEMMA NextChainOK ==
    ASSUME NEW c, ChainOK(c), c.height < MaxHeight
    PROVE  /\ ChainOK(NextChain(c)) /\ NextChain(c).height = c.height + 1
           /\ NextChain(c).epoch = c.epoch
           /\ \A h \in Heights \ {c.height + 1} : NextChain(c).blocks[h] = c.blocks[h]
BY AdvanceBurnOK, AdvanceStacksOK DEF NextChain

\* set_current_epoch
LEMMA EnterEpochOK ==
    ASSUME NEW c, ChainOK(c), NEW e \in Nat, e >= Nakamoto => c.height < MaxHeight
    PROVE  /\ ChainOK(EnterEpoch(c, e))
           /\ EnterEpoch(c, e).height = IF e >= Nakamoto THEN c.height + 1 ELSE c.height
<1> DEFINE b == [c EXCEPT !.epoch = e]
<1>1. c \in ChainType
  BY DEF ChainOK
<1>2. b \in ChainType /\ b.height = c.height /\ b.open = c.open /\ b.blocks = c.blocks
  BY <1>1, Zenon DEF ChainType
<1>3. ChainOK(b)
  BY <1>2 DEF ChainOK
<1>4. EnterEpoch(c, e) = IF e >= Nakamoto THEN AdvanceBurn(b) ELSE b
  BY DEF EnterEpoch
<1>5. QED
  <2> HIDE DEF b
  <2> QED  BY <1>2, <1>3, <1>4, AdvanceBurnOK

\* BlockAdvanceUndo::restore after checkpoint_next_block and one block: the
\* tables are what they were, although only one entry of each was kept.
LEMMA RestoreUndoes ==
    ASSUME NEW c, ChainOK(c), c.height < MaxHeight, NEW tip
    PROVE  RestoreChain(NextChain(c), Checkpoint(c, tip)) = c
<1> DEFINE d == NextChain(c)
           u == Checkpoint(c, tip)
           r == RestoreChain(d, u)
           f == [d.blocks EXCEPT ![u.height + 1] = u.block]
           burn == IF u.burnKept THEN u.burn ELSE d.burn
           burnTime == IF u.burnKept THEN u.burnTime ELSE d.burnTime
           tenure == IF u.burnKept THEN u.tenure ELSE d.tenure
<1>1. /\ u.height = c.height /\ u.open = c.open /\ u.block = c.blocks[c.height + 1]
      /\ u.burnKept = (c.epoch < Nakamoto)
      /\ u.burn = c.burn /\ u.burnTime = c.burnTime /\ u.tenure = c.tenure
  BY DEF Checkpoint
<1>2. c \in ChainType /\ d \in ChainType
  BY NextChainOK DEF ChainOK
<1>3. c.height + 1 \in Heights
  BY <1>2, ChainAssumption DEF ChainType, Heights, UnknownHeight
<1>4. d.epoch = c.epoch /\ \A h \in Heights \ {c.height + 1} : d.blocks[h] = c.blocks[h]
  BY NextChainOK
<1>5. ~(c.epoch < Nakamoto) => d.burn = c.burn /\ d.burnTime = c.burnTime /\ d.tenure = c.tenure
  BY AdvanceStacksOK DEF NextChain
<1>6. burn = c.burn /\ burnTime = c.burnTime /\ tenure = c.tenure
  BY <1>1, <1>5
<1>7. r = [d EXCEPT !.blocks = f, !.burn = burn, !.burnTime = burnTime, !.tenure = tenure,
                    !.height = u.height, !.open = u.open]
  BY Zenon DEF RestoreChain
<1> HIDE DEF d, u
<1>8. f = c.blocks
  BY <1>1, <1>2, <1>3, <1>4 DEF ChainType
<1> HIDE DEF r, f, burn, burnTime, tenure
<1>9. /\ c.height \in 0..MaxHeight /\ c.open \in 0..MaxHeight /\ c.blocks \in [Heights -> BlockInfo]
      /\ c.burn \in Nat /\ c.burnTime \in Nat /\ c.tenure \in Nat
  BY <1>2 DEF ChainType
<1>10. r = [d EXCEPT !.blocks = c.blocks, !.burn = c.burn, !.burnTime = c.burnTime,
                     !.tenure = c.tenure, !.height = c.height, !.open = c.open]
  BY <1>1, <1>6, <1>7, <1>8, Zenon
<1>11. /\ r \in ChainType /\ r.blocks = c.blocks /\ r.burn = c.burn /\ r.burnTime = c.burnTime
       /\ r.tenure = c.tenure /\ r.height = c.height /\ r.open = c.open /\ r.epoch = d.epoch
  BY <1>2, <1>9, <1>10, Zenon DEF ChainType
<1>12. r = c
  BY <1>2, <1>4, <1>11 DEF ChainType
<1>13. QED  BY <1>12 DEF r, d, u

-----------------------------------------------------------------------------
JournalType ==
    [open : BOOLEAN, touched : [Cells -> BOOLEAN], first : [Cells -> Nat \cup {Absent}]]

LEMMA FreshJournals == /\ ClosedJournal \in JournalType /\ ~ClosedJournal.open
                       /\ OpenJournal \in JournalType /\ OpenJournal.open
                       /\ \A c \in Cells : ~OpenJournal.touched[c]
<1>1. ClosedJournal \in JournalType
  BY DEF ClosedJournal, JournalType
<1>2. ~ClosedJournal.open /\ \A c \in Cells : ~ClosedJournal.touched[c]
  BY DEF ClosedJournal
<1>3. OpenJournal \in JournalType /\ OpenJournal.open /\ OpenJournal.touched = ClosedJournal.touched
  BY <1>1, Zenon DEF OpenJournal, JournalType
<1>4. QED  BY <1>1, <1>2, <1>3

\* An open journal undoes a write to a cell as it undoes what came before.
LEMMA PutIsUndone ==
    ASSUME NEW s \in [Cells -> Nat \cup {Absent}], NEW j \in JournalType,
           NEW cell \in Cells, NEW v
    PROVE  /\ PutJournal(j, s, cell) \in JournalType
           /\ PutJournal(j, s, cell).open = j.open
           /\ j.open => UndoWrites(PutStore(s, cell, v), PutJournal(j, s, cell)) = UndoWrites(s, j)
<1> DEFINE k == PutJournal(j, s, cell)
           t == PutStore(s, cell, v)
           touched == [j.touched EXCEPT ![cell] = TRUE]
           first == [j.first EXCEPT ![cell] = s[cell]]
<1>1. t = [s EXCEPT ![cell] = v]
  BY DEF PutStore
<1>2. CASE j.open /\ ~j.touched[cell]
  <2>1. touched \in [Cells -> BOOLEAN] /\ first \in [Cells -> Nat \cup {Absent}]
    BY DEF JournalType
  <2>2. k = [j EXCEPT !.touched = touched, !.first = first]
    BY <1>2, Zenon DEF PutJournal
  <2>3. k \in JournalType /\ k.open = j.open /\ k.touched = touched /\ k.first = first
    <3> HIDE DEF k, touched, first
    <3> QED  BY <2>1, <2>2, Zenon DEF JournalType
  <2> HIDE DEF k, t
  <2>4. \A c \in Cells : (IF k.touched[c] THEN k.first[c] ELSE t[c])
                       = (IF j.touched[c] THEN j.first[c] ELSE s[c])
    BY <2>3, <1>1, <1>2 DEF JournalType
  <2>5. QED  BY <2>3, <2>4 DEF UndoWrites, k, t
<1>3. CASE ~(j.open /\ ~j.touched[cell])
  <2>1. k = j
    BY <1>3, Zenon DEF PutJournal
  <2> HIDE DEF k, t
  <2>2. j.open => \A c \in Cells : (IF j.touched[c] THEN j.first[c] ELSE t[c])
                                 = (IF j.touched[c] THEN j.first[c] ELSE s[c])
    BY <1>1, <1>3 DEF JournalType
  <2>3. QED  BY <2>1, <2>2 DEF UndoWrites, k, t
<1>4. QED  BY <1>2, <1>3

\* The same of a commit.
LEMMA CommitIsUndone ==
    ASSUME NEW s \in [Cells -> Nat \cup {Absent}], NEW j \in JournalType, NEW w, NEW h
    PROVE  /\ CommitJournal(j, s, w, h) \in JournalType
           /\ CommitJournal(j, s, w, h).open = j.open
           /\ j.open => UndoWrites(CommitStore(s, w, h), CommitJournal(j, s, w, h))
                      = UndoWrites(s, j)
<1> DEFINE k == CommitJournal(j, s, w, h)
           t == CommitStore(s, w, h)
           fresh == {c \in Written(w, h) : j.open /\ ~j.touched[c]}
           touched == [c \in Cells |-> j.touched[c] \/ c \in fresh]
           first == [c \in Cells |-> IF c \in fresh THEN s[c] ELSE j.first[c]]
<1>1. Written(w, h) \in SUBSET Cells
  BY DEF Written
<1>2. touched \in [Cells -> BOOLEAN] /\ first \in [Cells -> Nat \cup {Absent}]
  BY DEF JournalType
<1>3. k = [j EXCEPT !.touched = touched, !.first = first]
  BY Zenon DEF CommitJournal
<1>4. k \in JournalType /\ k.open = j.open /\ k.touched = touched /\ k.first = first
  <2> HIDE DEF k, touched, first
  <2> QED  BY <1>2, <1>3, Zenon DEF JournalType
<1>5. \A c \in Cells : t[c] = IF c \in Written(w, h) THEN w[c[1]] ELSE s[c]
  BY DEF CommitStore
<1> HIDE DEF k, t
<1>6. j.open => \A c \in Cells : (IF k.touched[c] THEN k.first[c] ELSE t[c])
                               = (IF j.touched[c] THEN j.first[c] ELSE s[c])
  BY <1>1, <1>4, <1>5 DEF JournalType
<1>7. QED  BY <1>4, <1>6 DEF UndoWrites, k, t

-----------------------------------------------------------------------------
(* The session. *)

Nonces(s, height) == [a \in Accounts |-> ReadAt(s, <<"nonce", a>>, height)]
Balances(s, height) == [a \in Accounts |-> ReadAt(s, <<"balance", a>>, height)]

\* Balances as they are read through the writes of a frame.
Through(f, s, height) ==
    [a \in Accounts |-> IF f[<<"balance", a>>] # Absent THEN f[<<"balance", a>>]
                        ELSE Balances(s, height)[a]]

Executing == pc \in {"admit", "payload", "settle", "finish"}

\* The operation in progress and the transaction it executes.
Phases ==
    /\ mode = "none" <=> pc = "idle"
    /\ pc \in {"drain", "listed"} => mode = pc
    /\ Executing => tx \in Signed \cup Calls
    /\ mode = "tentative" => Executing
    /\ journal.open <=> mode = "tentative"

\* The tables and the store belong together, and the mirror to both.
Session ==
    /\ ChainOK(chain) /\ cur = chain.height
    /\ StoreOK(store, chain.height) /\ journal \in JournalType
    /\ mirror = Balances(store, chain.height)

\* The balances once the fee of a signed transaction was taken.
FeeTaken == IF IsSigned THEN [mirror EXCEPT ![Payer(tx)] = @ - tx.fee] ELSE mirror

\* What the open frame stands for: the fee, then the fee and the payload.
Framed ==
    /\ frame \in [Keys -> Nat \cup {Absent}]
    /\ \A a \in Accounts : frame[<<"nonce", a>>] = Absent
    /\ pc \notin {"payload", "settle"} => frame = EmptyFrame
    /\ pc = "payload" => Through(frame, store, chain.height) = FeeTaken
    /\ pc = "settle" => Through(frame, store, chain.height) =
                            ProcessEvents(FeeTaken, tx.origin, tx.to, result.moved)

\* A tentative block is one block above the session it began in, and its journal
\* still knows the store of that session.
Undoable ==
    mode = "tentative" =>
        /\ ChainOK(before.chain) /\ before.cur = before.chain.height
        /\ before.chain.height < MaxHeight
        /\ StoreOK(before.store, before.chain.height)
        /\ before.mirror = Balances(before.store, before.chain.height)
        /\ chain = NextChain(before.chain) /\ undo = Checkpoint(before.chain, before.cur)
        /\ UndoWrites(store, journal) = before.store
        /\ (pc = "finish" /\ result.included) \/ mirror = before.mirror

\* The variables no store is behind.
Control ==
    /\ pc \in {"idle", "drain", "listed", "admit", "payload", "settle", "finish"}
    /\ mode \in {"none", "tentative", "call", "drain", "listed"}
    /\ queue \in Seq(Signed)
    /\ tx \in Signed \cup Calls \cup {None}
    /\ result \in [included : BOOLEAN, moved : Nat]
    /\ listed \in 0..MaxPerBlock /\ snippets \in 0..MaxSnippets
    /\ boot \in [Epochs -> Nat]

IInv == Control /\ Phases /\ Session /\ Framed /\ Undoable

-----------------------------------------------------------------------------
\* The tip that serves reads is the height of the chain.
LEMMA TipIsHeight ==
    ASSUME NEW c, ChainOK(c)
    PROVE  HeightOf(c.blocks, c.height) = c.height /\ c.height \in Heights
           /\ c.height \in 0..MaxHeight /\ c.height \in Nat
<1>1. c.height \in 0..MaxHeight
  BY DEF ChainOK, ChainType
<1>2. c.height \in Heights
  BY <1>1, HeightsAreNaturals
<1>3. QED  BY <1>1, <1>2, ChainAssumption DEF ChainOK, HeightOf

LEMMA HeightIsTip == Session => Height = chain.height
BY TipIsHeight DEF Session, Height

LEMMA AccountKeysAre ==
    \A a \in Accounts : <<"nonce", a>> \in AccountKeys /\ <<"balance", a>> \in AccountKeys
BY DEF AccountKeys

\* Every account has a nonce and a balance.
LEMMA ReadsAreNaturals ==
    ASSUME NEW s, NEW height \in Heights, NEW top, StoreOK(s, top)
    PROVE  Nonces(s, height) \in [Accounts -> Nat] /\ Balances(s, height) \in [Accounts -> Nat]
BY AccountKeysAre, ReadIsValue DEF Nonces, Balances

\* What the session reads, in terms of the store and the frame.
LEMMA WhatIsRead ==
    ASSUME Session, Framed
    PROVE  /\ NonceOf = Nonces(store, chain.height)
           /\ BalanceOf = Through(frame, store, chain.height)
           /\ NonceOf \in [Accounts -> Nat] /\ BalanceOf \in [Accounts -> Nat]
<1>1. Height = chain.height /\ chain.height \in Heights
  BY HeightIsTip, TipIsHeight DEF Session
<1>2. NonceOf = Nonces(store, chain.height)
  BY <1>1 DEF NonceOf, Nonces, Value, Framed
<1>3. BalanceOf = Through(frame, store, chain.height)
  BY <1>1 DEF BalanceOf, Balances, Through, Value
<1>4. Nonces(store, chain.height) \in [Accounts -> Nat]
      /\ Balances(store, chain.height) \in [Accounts -> Nat]
  BY <1>1, ReadsAreNaturals DEF Session
<1>5. \A a \in Accounts : <<"balance", a>> \in Keys
  BY DEF Keys
<1>6. QED  BY <1>2, <1>3, <1>4, <1>5 DEF Through, Framed

LEMMA EmptyFrameIsFramed ==
    /\ EmptyFrame \in [Keys -> Nat \cup {Absent}]
    /\ \A key \in Keys : EmptyFrame[key] = Absent
    /\ \A a \in Accounts : EmptyFrame[<<"nonce", a>>] = Absent
    /\ \A s, height : Through(EmptyFrame, s, height) = Balances(s, height)
<1>1. \A a \in Accounts : <<"balance", a>> \in Keys /\ <<"nonce", a>> \in Keys
  BY DEF Keys
<1>2. QED  BY <1>1 DEF EmptyFrame, Through, Balances

\* Outside an execution the mirror is what is read.
LEMMA MirrorIsRead ==
    ASSUME Session, Framed, pc \notin {"payload", "settle"}
    PROVE  BalanceOf = mirror
BY WhatIsRead, EmptyFrameIsFramed DEF Session, Framed

\* Stores that agree on the keys give the same accounts.
LEMMA SameAccounts ==
    ASSUME NEW s, NEW top, StoreOK(s, top), NEW t \in [Cells -> Nat \cup {Absent}], SameKeys(s, t),
           NEW height \in Heights
    PROVE  /\ StoreOK(t, top)
           /\ Nonces(t, height) = Nonces(s, height) /\ Balances(t, height) = Balances(s, height)
           /\ Held(t) = Held(s)
<1>1. \A a \in Accounts : <<"nonce", a>> \in Keys /\ <<"balance", a>> \in Keys
  BY AccountKeysAre, CellsOfAccounts
<1>2. QED  BY <1>1, SameKeysReadAlike, SameKeysHold DEF Nonces, Balances

\* A block on top changes no account.
LEMMA SameAccountsAbove ==
    ASSUME NEW s, NEW height \in Nat, StoreOK(s, height), height + 1 \in Heights
    PROVE  /\ StoreOK(s, height + 1)
           /\ Nonces(s, height + 1) = Nonces(s, height)
           /\ Balances(s, height + 1) = Balances(s, height)
<1>1. StoreOK(s, height + 1)
  BY HeightsAreNaturals DEF StoreOK
<1>2. QED  BY <1>1, AccountKeysAre, ReadAbove DEF Nonces, Balances

-----------------------------------------------------------------------------
\* What the steps that make a block, and those that open the database, do to
\* the stores.
NewBlock(s, j, next) ==
    /\ chain' = next /\ ChainOK(next) /\ next.height = chain.height + 1 /\ cur' = next.height
    /\ StoreOK(store', next.height) /\ SameKeys(s, store')
    /\ Nonces(store', next.height) = Nonces(s, chain.height)
    /\ Balances(store', next.height) = Balances(s, chain.height)
    /\ journal' \in JournalType /\ journal'.open = j.open
    /\ j.open => UndoWrites(store', journal') = UndoWrites(s, j)

LEMMA SameKeysCompose ==
    ASSUME NEW r, NEW s, NEW t, SameKeys(r, s), SameKeys(s, t)
    PROVE  SameKeys(r, t)
BY DEF SameKeys

\* advance_chain_tip and its variants.
LEMMA AdvanceStep ==
    ASSUME Session, NEW j \in JournalType, NEW burnBlock \in BOOLEAN, Advance(store, j, burnBlock)
    PROVE  NewBlock(store, j, IF burnBlock THEN AdvanceBurn(chain) ELSE AdvanceStacks(chain))
<1> DEFINE next == IF burnBlock THEN AdvanceBurn(chain) ELSE AdvanceStacks(chain)
           timeCell == <<<<"time">>, Height>>
           tenureCell == <<<<"tenure">>, next.height>>
           timed == chain.epoch >= MarfedTime
           s1 == IF timed THEN PutStore(store, timeCell, next.blocks[next.height].time) ELSE store
           j1 == IF timed THEN PutJournal(j, store, timeCell) ELSE j
           Type == [Cells -> Nat \cup {Absent}]
<1>1. /\ chain.height < MaxHeight /\ chain' = next /\ cur' = next.open
      /\ store' = IF burnBlock THEN PutStore(s1, tenureCell, next.tenure) ELSE s1
      /\ journal' = IF burnBlock THEN PutJournal(j1, s1, tenureCell) ELSE j1
  BY DEF Advance
<1>2. ChainOK(next) /\ next.height = chain.height + 1
  BY <1>1, AdvanceBurnOK, AdvanceStacksOK DEF Session
<1>3. Height \in Heights /\ chain.height \in Nat /\ chain.height \in Heights
  BY HeightIsTip, TipIsHeight DEF Session
<1>4. next.height \in Heights /\ next.tenure \in Nat /\ next.blocks[next.height].time \in Nat
  <2> HIDE DEF next
  <2>1. next.height \in Heights
    BY <1>2, TipIsHeight
  <2>2. QED  BY <2>1, <1>2 DEF ChainOK, ChainType, BlockInfo
<1>5. timeCell \in Cells /\ timeCell[1] \notin Keys /\ tenureCell \in Cells /\ tenureCell[1] \notin Keys
  BY <1>3, <1>4, SystemCells
<1>6. store \in Type /\ StoreOK(store, chain.height)
  BY DEF Session, StoreOK
<1> HIDE DEF next, timeCell, tenureCell, timed
<1>7. /\ s1 \in Type /\ SameKeys(store, s1) /\ j1 \in JournalType /\ j1.open = j.open
      /\ j.open => UndoWrites(s1, j1) = UndoWrites(store, j)
  <2>1. CASE timed
    BY <2>1, <1>4, <1>5, <1>6, PutKeepsKeys, PutIsUndone
  <2>2. CASE ~timed
    BY <2>2, <1>6 DEF SameKeys
  <2>3. QED  BY <2>1, <2>2
<1> HIDE DEF s1, j1
<1>8. /\ store' \in Type /\ SameKeys(store, store')
      /\ journal' \in JournalType /\ journal'.open = j.open
      /\ j.open => UndoWrites(store', journal') = UndoWrites(store, j)
  <2>1. CASE burnBlock
    <3>1. store' \in Type /\ SameKeys(s1, store')
      BY <2>1, <1>1, <1>4, <1>5, <1>7, PutKeepsKeys
    <3>2. SameKeys(store, store')
      BY <3>1, <1>7, SameKeysCompose
    <3>3. /\ journal' \in JournalType /\ journal'.open = j1.open
          /\ j1.open => UndoWrites(store', journal') = UndoWrites(s1, j1)
      BY <2>1, <1>1, <1>5, <1>7, PutIsUndone
    <3>4. QED  BY <3>1, <3>2, <3>3, <1>7
  <2>2. CASE ~burnBlock
    BY <2>2, <1>1, <1>7
  <2>3. QED  BY <2>1, <2>2
<1>9. StoreOK(store', chain.height)
  BY <1>3, <1>6, <1>8, SameAccounts
<1>10. /\ Nonces(store', chain.height) = Nonces(store, chain.height)
       /\ Balances(store', chain.height) = Balances(store, chain.height)
  BY <1>3, <1>6, <1>8, SameAccounts
<1>11. /\ StoreOK(store', next.height)
       /\ Nonces(store', next.height) = Nonces(store', chain.height)
       /\ Balances(store', next.height) = Balances(store', chain.height)
  BY <1>2, <1>3, <1>4, <1>9, SameAccountsAbove
<1>12. next.open = next.height
  BY <1>2 DEF ChainOK
<1>13. QED  BY <1>1, <1>2, <1>8, <1>10, <1>11, <1>12 DEF NewBlock, next

\* A write of the epoch at the tip.
LEMMA EpochWrite ==
    ASSUME Session
    PROVE  LET s == PutStore(store, <<<<"epoch">>, Height>>, chain.epoch)
           IN  /\ StoreOK(s, chain.height) /\ SameKeys(store, s)
               /\ Nonces(s, chain.height) = Nonces(store, chain.height)
               /\ Balances(s, chain.height) = Balances(store, chain.height)
<1> DEFINE cell == <<<<"epoch">>, Height>>
           s == PutStore(store, cell, chain.epoch)
<1>1. Height \in Heights /\ chain.height \in Heights /\ chain.epoch \in Nat
  BY HeightIsTip, TipIsHeight DEF Session, ChainOK, ChainType
<1>2. cell \in Cells /\ cell[1] \notin Keys
  BY <1>1, SystemCells
<1>3. store \in [Cells -> Nat \cup {Absent}] /\ StoreOK(store, chain.height)
  BY DEF Session, StoreOK
<1> HIDE DEF cell
<1>4. s \in [Cells -> Nat \cup {Absent}] /\ SameKeys(store, s)
  BY <1>1, <1>2, <1>3, PutKeepsKeys
<1> HIDE DEF s
<1>5. /\ StoreOK(s, chain.height) /\ Nonces(s, chain.height) = Nonces(store, chain.height)
      /\ Balances(s, chain.height) = Balances(store, chain.height)
  BY <1>1, <1>3, <1>4, SameAccounts
<1>6. QED  BY <1>4, <1>5 DEF s, cell

\* open_database
LEMMA OpenDatabaseStep ==
    ASSUME Session, OpenDatabase
    PROVE  /\ StoreOK(store', chain.height) /\ SameKeys(store, store')
           /\ Nonces(store', chain.height) = Nonces(store, chain.height)
           /\ Balances(store', chain.height) = Balances(store, chain.height)
           /\ journal' \in JournalType /\ journal'.open = journal.open
           /\ journal.open => UndoWrites(store', journal') = UndoWrites(store, journal)
<1> DEFINE cell == <<<<"epoch">>, Height>>
<1>1. Height \in Heights
  BY HeightIsTip, TipIsHeight DEF Session
<1>2. cell \in Cells
  BY <1>1, SystemCells
<1>3. store \in [Cells -> Nat \cup {Absent}] /\ journal \in JournalType
  BY DEF Session, StoreOK
<1>4. store' = PutStore(store, cell, chain.epoch) /\ journal' = PutJournal(journal, store, cell)
  BY DEF OpenDatabase
<1> HIDE DEF cell
<1>5. /\ journal' \in JournalType /\ journal'.open = journal.open
      /\ journal.open => UndoWrites(store', journal') = UndoWrites(store, journal)
  BY <1>2, <1>3, <1>4, PutIsUndone
<1>6. QED  BY <1>4, <1>5, EpochWrite DEF cell

-----------------------------------------------------------------------------
\* Initial states.
LEMMA GenesisOK ==
    /\ ChainOK(GenesisChain) /\ GenesisChain.height = 0 /\ GenesisChain.open = 0
    /\ StoreOK(GenesisStore, 0)
    /\ Balances(GenesisStore, 0) = GenesisBalance
    /\ Nonces(GenesisStore, 0) = [a \in Accounts |-> 0]
    /\ GenesisBoot \in [Epochs -> Nat]
<1> USE ChainAssumption, SimnetAssumption
<1>1. ChainOK(GenesisChain) /\ GenesisChain.height = 0 /\ GenesisChain.open = 0
  <2> DEFINE info == [time |-> StacksGap, burn |-> 0, tenure |-> 0]
             blocks == [h \in Heights |-> IF h = 0 THEN info ELSE Absent]
  <2>1. info \in [time : Nat, burn : Nat, tenure : Nat]
    OBVIOUS
  <2>2. info # Absent /\ info \in BlockInfo
    BY <2>1 DEF BlockInfo
  <2> HIDE DEF info
  <2>3. blocks \in [Heights -> BlockInfo] /\ blocks[0] # Absent
    BY <2>2, HeightsAreNaturals DEF BlockInfo
  <2>4. GenesisChain = [height |-> 0, open |-> 0, blocks |-> blocks, burn |-> 0, burnTime |-> 0,
                        tenure |-> 0, epoch |-> FirstEpoch]
    BY DEF GenesisChain, info
  <2> HIDE DEF blocks
  <2>5. QED  BY <2>3, <2>4 DEF ChainOK, ChainType
<1>2. GenesisStore \in [Cells -> Nat \cup {Absent}]
  <2>1. \A c \in Cells : c[1][1] = "balance" => c[1][2] \in Accounts
    BY DEF Cells, Keys
  <2>2. QED  BY <2>1 DEF GenesisStore
<1>3. \A a \in Accounts : \A h \in Heights :
        /\ GenesisStore[<<<<"nonce", a>>, h>>] = IF h = 0 THEN 0 ELSE Absent
        /\ GenesisStore[<<<<"balance", a>>, h>>] = IF h = 0 THEN GenesisBalance[a] ELSE Absent
  <2> SUFFICES ASSUME NEW a \in Accounts, NEW h \in Heights
               PROVE  /\ GenesisStore[<<<<"nonce", a>>, h>>] = IF h = 0 THEN 0 ELSE Absent
                      /\ GenesisStore[<<<<"balance", a>>, h>>] =
                            IF h = 0 THEN GenesisBalance[a] ELSE Absent
    OBVIOUS
  <2>1. <<<<"nonce", a>>, h>> \in Cells /\ <<<<"balance", a>>, h>> \in Cells
    BY AccountKeysAre, CellsOfAccounts
  <2>2. QED  BY <2>1 DEF GenesisStore
<1>4. \A a \in Accounts : GenesisBalance[a] \in Nat /\ GenesisBalance[a] # Absent /\ 0 # Absent
  OBVIOUS
<1>5. StoreOK(GenesisStore, 0)
  <2>1. ASSUME NEW key \in AccountKeys
        PROVE  /\ GenesisStore[<<key, 0>>] # Absent
               /\ \A h \in Heights : h > 0 => GenesisStore[<<key, h>>] = Absent
    <3>1. PICK a \in Accounts : key = <<"nonce", a>> \/ key = <<"balance", a>>
      BY DEF AccountKeys
    <3>2. 0 \in Heights /\ \A h \in Heights : h > 0 => h # 0
      BY HeightsAreNaturals
    <3>3. CASE key = <<"nonce", a>>
      BY <3>2, <3>3, <1>3, <1>4, Zenon
    <3>4. CASE key = <<"balance", a>>
      BY <3>2, <3>4, <1>3, <1>4, Zenon
    <3>5. QED  BY <3>1, <3>3, <3>4
  <2>2. QED  BY <1>2, <2>1 DEF StoreOK
<1>6. ASSUME NEW a \in Accounts
      PROVE  /\ ReadAt(GenesisStore, <<"nonce", a>>, 0) = 0
             /\ ReadAt(GenesisStore, <<"balance", a>>, 0) = GenesisBalance[a]
  <2>1. 0 \in 0..0 /\ \A l \in (0 + 1)..0 : FALSE
    OBVIOUS
  <2>2. /\ GenesisStore[<<<<"nonce", a>>, 0>>] = 0
        /\ GenesisStore[<<<<"balance", a>>, 0>>] = GenesisBalance[a]
    BY <1>3, HeightsAreNaturals, Zenon
  <2> DEFINE nonce == <<"nonce", a>>
             balance == <<"balance", a>>
  <2>3. GenesisStore[<<nonce, 0>>] # Absent /\ GenesisStore[<<balance, 0>>] # Absent
    BY <2>2, <1>4
  <2> HIDE DEF nonce, balance
  <2>4. /\ ReadAt(GenesisStore, nonce, 0) = GenesisStore[<<nonce, 0>>]
        /\ ReadAt(GenesisStore, balance, 0) = GenesisStore[<<balance, 0>>]
    BY <2>1, <2>3, ReadIsLatest
  <2>5. QED  BY <2>2, <2>4 DEF nonce, balance
<1>7. GenesisBoot \in [Epochs -> Nat]
  BY DEF GenesisBoot
<1>8. QED  BY <1>1, <1>5, <1>6, <1>7 DEF Nonces, Balances

LEMMA InitOK == Init => IInv
<1> SUFFICES ASSUME Init PROVE IInv
  OBVIOUS
<1> USE DEF Init
<1>1. Control
  <2>1. <<>> \in Seq(Signed)
    OBVIOUS
  <2>2. Undecided \in [included : BOOLEAN, moved : Nat]
    BY DEF Undecided
  <2>3. QED  BY <2>1, <2>2, GenesisOK, SimnetAssumption DEF Control, None
<1>2. Phases
  BY FreshJournals DEF Phases, Executing
<1>3. Session
  BY GenesisOK, FreshJournals DEF Session
<1>4. Framed
  BY EmptyFrameIsFramed DEF Framed
<1>5. Undoable
  BY DEF Undoable
<1>6. QED  BY <1>1, <1>2, <1>3, <1>4, <1>5 DEF IInv

-----------------------------------------------------------------------------
\* Steps of a session that is between two operations: none is tentative after
\* them, and no frame is open.
LEMMA IdleStep ==
    ASSUME IInv, pc = "idle", UNCHANGED <<frame, pc, mode, tx, result, listed>>,
           Session', journal'.open = FALSE, queue' \in Seq(Signed), snippets' \in 0..MaxSnippets,
           boot' \in [Epochs -> Nat]
    PROVE  IInv'
<1>1. mode = "none"
  BY DEF IInv, Phases
<1>2. Control'
  BY DEF IInv, Control
<1>3. Phases'
  BY <1>1 DEF IInv, Phases, Executing
<1>4. Framed'
  BY DEF IInv, Framed
<1>5. Undoable'
  BY <1>1 DEF Undoable
<1>6. QED  BY <1>2, <1>3, <1>4, <1>5 DEF IInv

\* A block on top of a session, in terms of Session.
LEMMA NewBlockSession ==
    ASSUME Session, NEW j \in JournalType, NEW next, NewBlock(store, j, next), mirror' = mirror
    PROVE  Session'
BY DEF Session, NewBlock

LEMMA MineEmptyBlockStep ==
    ASSUME IInv, NEW burnBlock \in BOOLEAN, MineEmptyBlock(burnBlock)
    PROVE  IInv'
<1> USE DEF MineEmptyBlock
<1>1. Session /\ journal \in JournalType /\ journal.open = FALSE
  BY DEF IInv, Phases, Session, JournalType
<1>2. PICK next : NewBlock(store, journal, next)
  BY <1>1, AdvanceStep
<1>3. Session' /\ journal'.open = FALSE
  BY <1>1, <1>2, NewBlockSession DEF NewBlock
<1>4. QED  BY <1>3, IdleStep DEF IInv, Control

\* update_epoch: a block from epoch 3.0 on, and no account changes.
LEMMA SetEpochStores ==
    ASSUME IInv, NEW epoch \in Epochs, SetEpoch(epoch)
    PROVE  /\ Session' /\ journal'.open = FALSE /\ SameKeys(store, store')
           /\ chain'.height \in {chain.height, chain.height + 1}
           /\ Nonces(store', chain'.height) = Nonces(store, chain.height)
           /\ Balances(store', chain'.height) = Balances(store, chain.height)
<1> DEFINE next == EnterEpoch(chain, epoch)
           epochCell == <<<<"epoch">>, Height>>
           timeCell == <<<<"time">>, Height>>
           tenureCell == <<<<"tenure">>, next.height>>
           naka == epoch >= Nakamoto
           s1 == PutStore(store, epochCell, epoch)
           s2 == IF naka /\ epoch >= MarfedTime
                 THEN PutStore(s1, timeCell, next.blocks[next.height].time) ELSE s1
           Type == [Cells -> Nat \cup {Absent}]
<1>1. Session /\ journal.open = FALSE /\ epoch \in Nat
  BY SimnetAssumption DEF SetEpoch, IInv, Phases, Session, JournalType
<1>2. /\ ChainOK(next) /\ next.height = IF naka THEN chain.height + 1 ELSE chain.height
      /\ chain' = next /\ next.open = next.height
  BY <1>1, EnterEpochOK DEF SetEpoch, Session, ChainOK
<1>3. cur' = next.height
  BY <1>1, <1>2 DEF SetEpoch, Session
<1>4. Height \in Heights /\ chain.height \in Heights /\ chain.height \in Nat
  BY <1>1, HeightIsTip, TipIsHeight DEF Session
<1>5. next.height \in Heights /\ next.tenure \in Nat /\ next.blocks[next.height].time \in Nat
  <2> HIDE DEF next
  <2>1. next.height \in Heights
    BY <1>2, TipIsHeight
  <2>2. QED  BY <2>1, <1>2 DEF ChainOK, ChainType, BlockInfo
<1>6. /\ epochCell \in Cells /\ epochCell[1] \notin Keys /\ timeCell \in Cells
      /\ timeCell[1] \notin Keys /\ tenureCell \in Cells /\ tenureCell[1] \notin Keys
  BY <1>4, <1>5, SystemCells
<1>7. store \in Type /\ StoreOK(store, chain.height)
  BY <1>1 DEF Session, StoreOK
<1>8. store' = IF naka THEN PutStore(s2, tenureCell, next.tenure) ELSE s2
  BY DEF SetEpoch
<1> HIDE DEF next, epochCell, timeCell, tenureCell, naka
<1>9. s1 \in Type /\ SameKeys(store, s1)
  BY <1>1, <1>6, <1>7, PutKeepsKeys
<1> HIDE DEF s1
<1>10. s2 \in Type /\ SameKeys(store, s2)
  <2>1. CASE naka /\ epoch >= MarfedTime
    <3>1. s2 \in Type /\ SameKeys(s1, s2)
      BY <2>1, <1>5, <1>6, <1>9, PutKeepsKeys
    <3>2. QED  BY <3>1, <1>9, SameKeysCompose
  <2>2. CASE ~(naka /\ epoch >= MarfedTime)
    BY <2>2, <1>9
  <2>3. QED  BY <2>1, <2>2
<1> HIDE DEF s2
<1>11. store' \in Type /\ SameKeys(store, store')
  <2>1. CASE naka
    <3>1. store' = PutStore(s2, tenureCell, next.tenure)
      BY <2>1, <1>8
    <3>2. store' \in Type /\ SameKeys(s2, store')
      BY <3>1, <1>5, <1>6, <1>10, PutKeepsKeys
    <3>3. QED  BY <3>2, <1>10, SameKeysCompose
  <2>2. CASE ~naka
    BY <2>2, <1>8, <1>10
  <2>3. QED  BY <2>1, <2>2
<1>12. /\ StoreOK(store', chain.height)
       /\ Nonces(store', chain.height) = Nonces(store, chain.height)
       /\ Balances(store', chain.height) = Balances(store, chain.height)
  BY <1>4, <1>7, <1>11, SameAccounts
<1>13. /\ StoreOK(store', next.height)
       /\ Nonces(store', next.height) = Nonces(store, chain.height)
       /\ Balances(store', next.height) = Balances(store, chain.height)
  BY <1>2, <1>4, <1>5, <1>12, SameAccountsAbove
<1>14. Session'
  BY <1>1, <1>2, <1>3, <1>13 DEF SetEpoch, Session
<1>15. QED  BY <1>1, <1>2, <1>11, <1>13, <1>14 DEF SetEpoch

LEMMA SetEpochStep ==
    ASSUME IInv, NEW epoch \in Epochs, SetEpoch(epoch)
    PROVE  IInv'
<1>1. boot' \in [Epochs -> Nat]
  BY DEF SetEpoch, BootAfter, IInv, Control
<1>2. QED  BY <1>1, SetEpochStores, IdleStep DEF SetEpoch, IInv, Control

\* What a commit of balances does to the mirror and to the store.
LEMMA CommitBalances ==
    ASSUME Session, NEW w \in [Keys -> Nat \cup {Absent}]
    PROVE  LET s == CommitStore(store, w, chain.height)
           IN  /\ StoreOK(s, chain.height)
               /\ Balances(s, chain.height) = Through(w, store, chain.height)
               /\ \A a \in Accounts : Nonces(s, chain.height)[a] =
                     IF w[<<"nonce", a>>] # Absent THEN w[<<"nonce", a>>]
                     ELSE Nonces(store, chain.height)[a]
               /\ Held(s) = Held(store) \cup {c \in Contracts : w[<<"contract", c>>] # Absent}
<1> DEFINE s == CommitStore(store, w, chain.height)
<1>1. chain.height \in 0..MaxHeight /\ StoreOK(store, chain.height)
  BY TipIsHeight DEF Session
<1>2. /\ StoreOK(s, chain.height)
      /\ \A key \in AccountKeys : ReadAt(s, key, chain.height) =
            IF w[key] # Absent THEN w[key] ELSE ReadAt(store, key, chain.height)
  BY <1>1, CommitIsRead
<1>3. Held(s) = Held(store) \cup {c \in Contracts : w[<<"contract", c>>] # Absent}
  BY CommitHolds
<1> HIDE DEF s
<1>4. QED  BY <1>2, <1>3, AccountKeysAre DEF s, Through, Balances, Nonces

\* EvalSnippet and MintStx: the mirror follows what is written.
LEMMA EvalSnippetStores ==
    ASSUME IInv, NEW from \in Accounts, NEW to \in Accounts, NEW amount \in SnippetAmounts,
           EvalSnippet(from, to, amount)
    PROVE  /\ Session' /\ from # to /\ mirror[from] >= amount /\ mirror \in [Accounts -> Nat]
           /\ Nonces(store', chain.height) = Nonces(store, chain.height) /\ Held(store') = Held(store)
<1> DEFINE paid == [EmptyFrame EXCEPT ![<<"balance", from>>] = BalanceOf[from] - amount,
                                      ![<<"balance", to>>] = BalanceOf[to] + amount]
           s == CommitStore(store, paid, Height)
<1>1. /\ Session /\ Framed /\ journal.open = FALSE /\ amount \in Nat
      /\ from # to /\ HasFunds(BalanceOf, from, amount)
  BY SimnetAssumption DEF EvalSnippet, IInv, Phases, Session, JournalType
<1>2. BalanceOf = mirror /\ BalanceOf \in [Accounts -> Nat] /\ Height = chain.height
  BY <1>1, MirrorIsRead, WhatIsRead, HeightIsTip DEF EvalSnippet
<1>3. /\ paid \in [Keys -> Nat \cup {Absent}]
      /\ paid[<<"balance", from>>] = mirror[from] - amount
      /\ paid[<<"balance", to>>] = mirror[to] + amount
      /\ \A a \in Accounts \ {from, to} : paid[<<"balance", a>>] = Absent
      /\ \A a \in Accounts : paid[<<"nonce", a>>] = Absent
      /\ \A c \in Contracts : paid[<<"contract", c>>] = Absent
  <2>1. mirror[from] - amount \in Nat /\ mirror[to] + amount \in Nat
    BY <1>1, <1>2 DEF HasFunds
  <2>2. /\ \A a \in Accounts : <<"balance", a>> \in Keys /\ <<"nonce", a>> \in Keys
        /\ \A c \in Contracts : <<"contract", c>> \in Keys
    BY DEF Keys
  <2>3. QED  BY <1>1, <1>2, <2>1, <2>2, EmptyFrameIsFramed
<1> HIDE DEF paid
<1>4. Through(paid, store, chain.height) = ProcessEvents(mirror, from, to, amount)
  <2>1. mirror = Balances(store, chain.height) /\ mirror \in [Accounts -> Nat]
    BY <1>1, <1>2 DEF Session
  <2>2. mirror[from] - amount # Absent /\ mirror[to] + amount # Absent
    BY <1>1, <2>1, ChainAssumption
  <2>3. Through(paid, store, chain.height) =
          [a \in Accounts |-> IF a = from THEN mirror[a] - amount
                              ELSE IF a = to THEN mirror[a] + amount ELSE mirror[a]]
    BY <1>1, <1>3, <2>1, <2>2 DEF Through
  <2>4. ProcessEvents(mirror, from, to, amount) =
          [a \in Accounts |-> IF a = from THEN mirror[a] - amount
                              ELSE IF a = to THEN mirror[a] + amount ELSE mirror[a]]
    BY <1>1, <2>1 DEF ProcessEvents, CreditToken, DebitToken
  <2>5. QED  BY <2>3, <2>4
<1>5. /\ StoreOK(s, chain.height)
      /\ Balances(s, chain.height) = Through(paid, store, chain.height)
      /\ Nonces(s, chain.height) = Nonces(store, chain.height) /\ Held(s) = Held(store)
  <2>1. /\ StoreOK(s, chain.height)
        /\ Balances(s, chain.height) = Through(paid, store, chain.height)
        /\ Held(s) = Held(store) \cup {c \in Contracts : paid[<<"contract", c>>] # Absent}
        /\ \A a \in Accounts : Nonces(s, chain.height)[a] =
              IF paid[<<"nonce", a>>] # Absent THEN paid[<<"nonce", a>>]
              ELSE Nonces(store, chain.height)[a]
    BY <1>1, <1>2, <1>3, CommitBalances
  <2> HIDE DEF s
  <2>2. Held(s) = Held(store)
    BY <2>1, <1>3
  <2>3. QED  BY <2>1, <2>2, <1>3 DEF Nonces
<1>6. /\ store' = PutStore(s, <<<<"epoch">>, Height>>, chain.epoch)
      /\ mirror' = ProcessEvents(mirror, from, to, amount)
  BY DEF EvalSnippet, paid
<1> HIDE DEF s
<1>7. /\ StoreOK(store', chain.height) /\ Balances(store', chain.height) = Balances(s, chain.height)
      /\ Nonces(store', chain.height) = Nonces(s, chain.height) /\ Held(store') = Held(s)
  <2> DEFINE cell == <<<<"epoch">>, Height>>
  <2>1. Height \in Heights /\ chain.height \in Heights /\ chain.epoch \in Nat
    BY <1>1, HeightIsTip, TipIsHeight DEF Session, ChainOK, ChainType
  <2>2. cell \in Cells /\ cell[1] \notin Keys /\ store' = PutStore(s, cell, chain.epoch)
    BY <1>6, <2>1, SystemCells
  <2> HIDE DEF cell
  <2>3. s \in [Cells -> Nat \cup {Absent}]
    BY <1>5 DEF StoreOK
  <2>4. store' \in [Cells -> Nat \cup {Absent}] /\ SameKeys(s, store')
    BY <2>1, <2>2, <2>3, PutKeepsKeys
  <2>5. QED  BY <1>5, <2>1, <2>4, SameAccounts
<1>8. Session'
  BY <1>1, <1>4, <1>5, <1>6, <1>7 DEF EvalSnippet, Session, chainVars
<1>9. QED  BY <1>1, <1>2, <1>5, <1>7, <1>8 DEF HasFunds

LEMMA EvalSnippetStep ==
    ASSUME IInv, NEW from \in Accounts, NEW to \in Accounts, NEW amount \in SnippetAmounts,
           EvalSnippet(from, to, amount)
    PROVE  IInv'
<1>1. /\ snippets' \in 0..MaxSnippets /\ queue' \in Seq(Signed) /\ boot' \in [Epochs -> Nat]
      /\ journal'.open = FALSE
  BY SimnetAssumption DEF EvalSnippet, IInv, Control, Phases, Session, JournalType
<1>2. QED  BY <1>1, EvalSnippetStores, IdleStep DEF EvalSnippet

LEMMA MintStxStores ==
    ASSUME IInv, NEW account \in Accounts, NEW amount \in SnippetAmounts, MintStx(account, amount)
    PROVE  /\ Session'
           /\ Nonces(store', chain.height) = Nonces(store, chain.height) /\ Held(store') = Held(store)
<1> DEFINE minted == [EmptyFrame EXCEPT ![<<"balance", account>>] = BalanceOf[account] + amount]
<1>1. Session /\ Framed /\ journal.open = FALSE /\ amount \in Nat
  BY SimnetAssumption DEF MintStx, IInv, Phases, Session, JournalType
<1>2. BalanceOf = mirror /\ BalanceOf \in [Accounts -> Nat] /\ Height = chain.height
  BY <1>1, MirrorIsRead, WhatIsRead, HeightIsTip DEF MintStx
<1>3. /\ minted \in [Keys -> Nat \cup {Absent}]
      /\ minted[<<"balance", account>>] = mirror[account] + amount
      /\ \A a \in Accounts \ {account} : minted[<<"balance", a>>] = Absent
      /\ \A a \in Accounts : minted[<<"nonce", a>>] = Absent
      /\ \A c \in Contracts : minted[<<"contract", c>>] = Absent
  <2>1. mirror[account] + amount \in Nat
    BY <1>1, <1>2
  <2>2. /\ \A a \in Accounts : <<"balance", a>> \in Keys /\ <<"nonce", a>> \in Keys
        /\ \A c \in Contracts : <<"contract", c>> \in Keys
    BY DEF Keys
  <2>3. QED  BY <1>2, <2>1, <2>2, EmptyFrameIsFramed
<1>4. store' = CommitStore(store, minted, Height) /\ mirror' = CreditToken(mirror, account, amount)
  BY DEF MintStx
<1> HIDE DEF minted
<1>5. Through(minted, store, chain.height) = CreditToken(mirror, account, amount)
  <2>1. mirror = Balances(store, chain.height) /\ mirror \in [Accounts -> Nat]
    BY <1>1, <1>2 DEF Session
  <2>2. mirror[account] + amount # Absent
    BY <1>1, <2>1, ChainAssumption
  <2>3. QED  BY <1>3, <2>1, <2>2 DEF Through, CreditToken
<1>6. /\ StoreOK(store', chain.height)
      /\ Balances(store', chain.height) = Through(minted, store, chain.height)
      /\ Nonces(store', chain.height) = Nonces(store, chain.height) /\ Held(store') = Held(store)
  <2>1. /\ StoreOK(store', chain.height)
        /\ Balances(store', chain.height) = Through(minted, store, chain.height)
        /\ Held(store') = Held(store)
        /\ \A a \in Accounts : Nonces(store', chain.height)[a] = Nonces(store, chain.height)[a]
    BY <1>1, <1>2, <1>3, <1>4, CommitBalances
  <2>2. QED  BY <2>1 DEF Nonces
<1>7. Session'
  BY <1>1, <1>4, <1>5, <1>6 DEF MintStx, Session, chainVars
<1>8. QED  BY <1>6, <1>7

LEMMA MintStxStep ==
    ASSUME IInv, NEW account \in Accounts, NEW amount \in SnippetAmounts, MintStx(account, amount)
    PROVE  IInv'
<1>1. /\ snippets' \in 0..MaxSnippets /\ queue' \in Seq(Signed) /\ boot' \in [Epochs -> Nat]
      /\ journal'.open = FALSE
  BY SimnetAssumption DEF MintStx, IInv, Control, Phases, Session, JournalType
<1>2. QED  BY <1>1, MintStxStores, IdleStep DEF MintStx

LEMMA CallReadOnlyFnStep ==
    ASSUME IInv, CallReadOnlyFn
    PROVE  IInv'
<1>1. Session /\ journal.open = FALSE
  BY DEF CallReadOnlyFn, IInv, Phases, Session, JournalType
<1>2. StoreOK(store', chain.height) /\ Balances(store', chain.height) = Balances(store, chain.height)
  BY <1>1, EpochWrite DEF CallReadOnlyFn, EvalReadOnly
<1>3. Session'
  BY <1>1, <1>2 DEF CallReadOnlyFn, Session, chainVars
<1>4. /\ snippets' \in 0..MaxSnippets /\ queue' \in Seq(Signed) /\ boot' \in [Epochs -> Nat]
      /\ journal'.open = FALSE
  BY <1>1, SimnetAssumption DEF CallReadOnlyFn, IInv, Control
<1>5. QED  BY <1>3, <1>4, IdleStep DEF CallReadOnlyFn

LEMMA InitSessionStep ==
    ASSUME IInv, InitSession
    PROVE  IInv'
<1>1. Session' /\ journal'.open = FALSE /\ boot' \in [Epochs -> Nat]
  BY GenesisOK, FreshJournals DEF InitSession, Fresh, Session, JournalType
<1>2. queue' \in Seq(Signed) /\ snippets' \in 0..MaxSnippets
  BY DEF InitSession, Fresh, IInv, Control
<1>3. QED  BY <1>1, <1>2, IdleStep DEF InitSession

LEMMA SubmitTransactionStep ==
    ASSUME IInv, NEW t \in Signed, SubmitTransaction(t)
    PROVE  IInv'
<1>1. Session /\ journal.open = FALSE
  BY DEF SubmitTransaction, IInv, Phases, Session, JournalType
<1>2. \/ store' = store
      \/ store' = PutStore(store, <<<<"epoch">>, Height>>, chain.epoch)
  BY DEF SubmitTransaction
<1>3. StoreOK(store', chain.height) /\ Balances(store', chain.height) = Balances(store, chain.height)
  BY <1>1, <1>2, EpochWrite DEF Session
<1>4. Session'
  BY <1>1, <1>3 DEF SubmitTransaction, Session, chainVars
<1>5. queue' \in Seq(Signed)
  <2>1. queue \in Seq(Signed) /\ (queue' = queue \/ queue' = Append(queue, t))
    BY DEF SubmitTransaction, Submit, IInv, Control
  <2>2. QED  BY <2>1
<1>6. snippets' \in 0..MaxSnippets /\ boot' \in [Epochs -> Nat] /\ journal'.open = FALSE
  BY <1>1 DEF SubmitTransaction, IInv, Control
<1>7. QED  BY <1>4, <1>5, <1>6, IdleStep DEF SubmitTransaction

-----------------------------------------------------------------------------
\* Operations begin, and go from one transaction to the next.
LEMMA BroadcastTransactionStep ==
    ASSUME IInv, NEW t \in Signed, BroadcastTransaction(t)
    PROVE  IInv'
<1>1. Session /\ OpenJournal \in JournalType /\ OpenJournal.open
  BY FreshJournals DEF IInv
<1>2. chain.height < MaxHeight /\ Advance(store, OpenJournal, chain.epoch < Nakamoto)
  BY DEF BroadcastTransaction, NextBlock, Advance
<1>3. NewBlock(store, OpenJournal, NextChain(chain))
  <2>1. (chain.epoch < Nakamoto) \in BOOLEAN
    OBVIOUS
  <2>2. QED  BY <2>1, <1>1, <1>2, AdvanceStep DEF NextChain
<1>4. Session'
  BY <1>1, <1>3, NewBlockSession DEF BroadcastTransaction
<1>5. journal'.open
  BY <1>1, <1>3 DEF NewBlock
<1>6. UndoWrites(store', journal') = store
  <2>1. UndoWrites(store', journal') = UndoWrites(store, OpenJournal)
    BY <1>1, <1>3 DEF NewBlock
  <2>2. store \in [Cells -> Nat \cup {Absent}]
    BY <1>1 DEF Session, StoreOK
  <2>3. UndoWrites(store, OpenJournal) = store
    BY <2>2, FreshJournals DEF UndoWrites
  <2>4. QED  BY <2>1, <2>3
<1>7. /\ before' = [chain |-> chain, cur |-> cur, store |-> store, mirror |-> mirror]
      /\ undo' = Checkpoint(chain, cur) /\ mirror' = mirror
      /\ pc' = "admit" /\ mode' = "tentative" /\ tx' = t /\ result' = Undecided
  BY DEF BroadcastTransaction
<1>8. /\ before'.chain = chain /\ before'.cur = cur /\ before'.store = store
      /\ before'.mirror = mirror
  BY <1>7
<1>9. Undoable'
  BY <1>1, <1>2, <1>3, <1>6, <1>7, <1>8 DEF Undoable, Session, NewBlock
<1>10. Control'
  <2>1. Undecided \in [included : BOOLEAN, moved : Nat]
    BY DEF Undecided
  <2>2. QED  BY <1>7, <2>1 DEF BroadcastTransaction, IInv, Control
<1>11. Phases'
  BY <1>5, <1>7 DEF Phases, Executing
<1>12. Framed'
  BY DEF BroadcastTransaction, IInv, Framed
<1>13. QED  BY <1>4, <1>9, <1>10, <1>11, <1>12 DEF IInv

\* The steps that move on without a frame and outside a tentative block.
LEMMA MoveOnStep ==
    ASSUME IInv, pc \notin {"payload", "settle"}, mode # "tentative", mode' # "tentative",
           frame' = frame, pc' \notin {"payload", "settle"},
           Session', journal'.open = journal.open, Control',
           mode' = "none" <=> pc' = "idle", pc' \in {"drain", "listed"} => mode' = pc',
           Executing' => tx' \in Signed \cup Calls
    PROVE  IInv'
<1>1. Phases'
  BY DEF IInv, Phases
<1>2. Framed'
  BY DEF IInv, Framed
<1>3. QED  BY <1>1, <1>2 DEF IInv, Undoable

LEMMA SessionStays ==
    ASSUME Session, UNCHANGED <<chainVars, storeVars, mirror>>
    PROVE  Session' /\ journal'.open = journal.open
BY DEF Session, chainVars, storeVars

LEMMA UndecidedType == Undecided \in [included : BOOLEAN, moved : Nat]
BY DEF Undecided

LEMMA NextBlockSession ==
    ASSUME IInv, NextBlock(journal), mirror' = mirror
    PROVE  Session' /\ journal'.open = journal.open
<1>1. Session /\ journal \in JournalType /\ (chain.epoch < Nakamoto) \in BOOLEAN
  BY DEF IInv, Session
<1>2. NewBlock(store, journal, NextChain(chain))
  BY <1>1, AdvanceStep DEF NextBlock, NextChain
<1>3. QED  BY <1>1, <1>2, NewBlockSession DEF NewBlock

LEMMA InNextBlockStep ==
    ASSUME IInv, NEW t \in Calls, InNextBlock(t)
    PROVE  IInv'
<1>1. Session' /\ journal'.open = journal.open
  BY NextBlockSession DEF InNextBlock
<1>2. Control'
  BY UndecidedType DEF InNextBlock, IInv, Control
<1>3. mode = "none"
  BY DEF InNextBlock, IInv, Phases
<1>4. QED  BY <1>1, <1>2, <1>3, MoveOnStep DEF InNextBlock, Executing

LEMMA MineBlockStep ==
    ASSUME IInv, MineBlock
    PROVE  IInv'
<1>1. Session' /\ journal'.open = journal.open
  BY NextBlockSession DEF MineBlock
<1>2. Control'
  BY DEF MineBlock, IInv, Control
<1>3. mode = "none"
  BY DEF MineBlock, IInv, Phases
<1>4. QED  BY <1>1, <1>2, <1>3, MoveOnStep DEF MineBlock, Executing

LEMMA DrainQueueStep ==
    ASSUME IInv, DrainQueue
    PROVE  IInv'
<1>1. Session' /\ journal'.open = journal.open
  BY SessionStays DEF DrainQueue, IInv
<1>2. PICK i \in DOMAIN queue : tx' = queue[i] /\ queue' = Without(queue, i)
  BY DEF DrainQueue
<1>3. queue \in Seq(Signed)
  BY DEF IInv, Control
<1>4. queue[i] \in Signed /\ Without(queue, i) \in Seq(Signed)
  <2>1. i \in 1..Len(queue) /\ Len(queue) - 1 \in Nat
    BY <1>3
  <2>2. \A j \in 1..(Len(queue) - 1) : queue[j] \in Signed /\ queue[j + 1] \in Signed
    BY <1>3
  <2>3. QED  BY <1>3, <2>1, <2>2 DEF Without
<1>5. Control'
  BY <1>2, <1>4, UndecidedType DEF DrainQueue, IInv, Control
<1>6. mode = "drain"
  BY DEF DrainQueue, IInv, Phases
<1>7. QED  BY <1>1, <1>2, <1>4, <1>5, <1>6, MoveOnStep DEF DrainQueue, Executing

LEMMA QueueDrainedStep ==
    ASSUME IInv, QueueDrained
    PROVE  IInv'
<1>1. Session' /\ journal'.open = journal.open
  BY SessionStays DEF QueueDrained, IInv
<1>2. Control'
  BY DEF QueueDrained, IInv, Control
<1>3. mode = "drain"
  BY DEF QueueDrained, IInv, Phases
<1>4. QED  BY <1>1, <1>2, <1>3, MoveOnStep DEF QueueDrained, Executing

LEMMA ExecuteListedStep ==
    ASSUME IInv, NEW t \in Signed \cup Calls, ExecuteListed(t)
    PROVE  IInv'
<1>1. Session' /\ journal'.open = journal.open
  BY SessionStays DEF ExecuteListed, IInv
<1>2. Control'
  BY UndecidedType, SimnetAssumption DEF ExecuteListed, IInv, Control
<1>3. mode = "listed"
  BY DEF ExecuteListed, IInv, Phases
<1>4. QED  BY <1>1, <1>2, <1>3, MoveOnStep DEF ExecuteListed, Executing

LEMMA EndBlockStep ==
    ASSUME IInv, EndBlock
    PROVE  IInv'
<1>1. Session' /\ journal'.open = journal.open
  BY SessionStays DEF EndBlock, IInv
<1>2. Control'
  BY SimnetAssumption DEF EndBlock, IInv, Control
<1>3. mode = "listed"
  BY DEF EndBlock, IInv, Phases
<1>4. QED  BY <1>1, <1>2, <1>3, MoveOnStep DEF EndBlock, Executing

LEMMA FinishTransactionStep ==
    ASSUME IInv, FinishTransaction
    PROVE  IInv'
<1>1. Session' /\ journal'.open = journal.open
  BY SessionStays DEF FinishTransaction, IInv
<1>2. mode \in {"call", "drain", "listed"}
  BY DEF FinishTransaction, IInv, Control, Phases
<1>3. Control'
  BY <1>2, UndecidedType DEF FinishTransaction, IInv, Control
<1>4. QED  BY <1>1, <1>2, <1>3, MoveOnStep DEF FinishTransaction, Executing

-----------------------------------------------------------------------------
\* The steps of one transaction.
LEMMA ExecutionStep ==
    ASSUME IInv, pc \in {"admit", "payload", "settle"}, pc' \in {"payload", "settle", "finish"},
           UNCHANGED <<chainVars, undo, queue, mode, tx, listed, snippets, boot, before>>,
           result' \in [included : BOOLEAN, moved : Nat],
           StoreOK(store', chain.height), journal' \in JournalType, journal'.open = journal.open,
           journal.open => UndoWrites(store', journal') = UndoWrites(store, journal),
           mirror' = Balances(store', chain.height),
           (pc' = "finish" /\ result'.included) \/ mirror' = mirror,
           Framed'
    PROVE  IInv'
<1>1. Control'
  BY DEF IInv, Control
<1>2. Phases'
  BY DEF IInv, Phases, Executing
<1>3. Session'
  BY DEF IInv, Session, chainVars
<1>4. Undoable'
  <2> SUFFICES ASSUME mode = "tentative" PROVE Undoable'
    BY DEF Undoable
  <2>1. journal.open /\ mirror = before.mirror
    BY DEF IInv, Phases, Undoable
  <2>2. QED  BY <2>1 DEF IInv, Undoable, chainVars
<1>5. QED  BY <1>1, <1>2, <1>3, <1>4 DEF IInv

\* A transaction, its payer and the account it pays.
LEMMA TransactionIs ==
    ASSUME NEW t \in Signed \cup Calls
    PROVE  /\ t \in Transaction /\ t.origin \in Accounts /\ t.to \in Accounts
           /\ Payer(t) \in Accounts /\ t.fee \in Nat /\ t.amount \in Nat /\ t.nonce \in Nat
           /\ t.sponsorNonce \in Nat /\ t.contract \in Contracts
           /\ t.sponsor # NoSponsor => t.sponsor \in Accounts /\ Payer(t) = t.sponsor
           /\ t.sponsor = NoSponsor => Payer(t) = t.origin
<1>1. t \in Transaction
  BY SimnetAssumption
<1>2. QED  BY <1>1, MempoolAssumption DEF Transaction, Payer

LEMMA AdmitTransactionStep ==
    ASSUME IInv, AdmitTransaction
    PROVE  IInv'
<1> DEFINE payer == Payer(tx)
           left == BalanceOf[payer] - tx.fee
           taken == [EmptyFrame EXCEPT ![<<"balance", payer>>] = left]
<1>1. Session /\ Framed /\ tx \in Signed \cup Calls /\ OpenDatabase /\ pc = "admit"
  BY DEF AdmitTransaction, IInv, Phases, Executing
<1>2. /\ StoreOK(store', chain.height) /\ Balances(store', chain.height) = mirror
      /\ journal' \in JournalType /\ journal'.open = journal.open
      /\ journal.open => UndoWrites(store', journal') = UndoWrites(store, journal)
  BY <1>1, OpenDatabaseStep DEF Session
<1>3. BalanceOf = mirror /\ mirror \in [Accounts -> Nat] /\ payer \in Accounts /\ tx.fee \in Nat
  BY <1>1, MirrorIsRead, WhatIsRead, TransactionIs
<1>4. /\ pc' = "payload" /\ tx' = tx /\ mirror' = mirror /\ chain' = chain
      /\ frame' = IF IsSigned THEN taken ELSE EmptyFrame
  BY DEF AdmitTransaction, chainVars
<1>5. Framed'
  <2>1. CASE IsSigned
    <3>1. left \in Nat /\ left # Absent /\ left = mirror[payer] - tx.fee
      BY <1>3, <2>1, ChainAssumption DEF AdmitTransaction, SignedAdmitted, HasFunds
    <3>2. \A a \in Accounts : <<"balance", a>> \in Keys /\ <<"nonce", a>> \in Keys
      BY DEF Keys
    <3> HIDE DEF payer, left
    <3>3. /\ taken \in [Keys -> Nat \cup {Absent}]
          /\ \A a \in Accounts : taken[<<"nonce", a>>] = Absent
          /\ \A a \in Accounts : taken[<<"balance", a>>] = IF a = payer THEN left ELSE Absent
      BY <3>1, <3>2, <1>3, EmptyFrameIsFramed
    <3> HIDE DEF taken
    <3>4. Through(taken, store', chain.height) = [mirror EXCEPT ![payer] = @ - tx.fee]
      BY <3>1, <3>3, <1>2, <1>3 DEF Through
    <3>5. frame' = taken /\ IsSigned'
      BY <2>1, <1>4 DEF IsSigned
    <3>6. FeeTaken' = [mirror EXCEPT ![payer] = @ - tx.fee]
      BY <3>5, <1>4 DEF FeeTaken, payer
    <3>7. QED  BY <3>3, <3>4, <3>5, <3>6, <1>4 DEF Framed
  <2>2. CASE ~IsSigned
    <3>1. frame' = EmptyFrame /\ FeeTaken' = mirror
      BY <2>2, <1>4 DEF IsSigned, FeeTaken
    <3>2. QED  BY <3>1, <1>2, <1>4, EmptyFrameIsFramed DEF Framed
  <2>3. QED  BY <2>1, <2>2
<1>6. QED  BY <1>1, <1>2, <1>4, <1>5, ExecutionStep DEF AdmitTransaction, IInv, Control

LEMMA RefuseTransactionStep ==
    ASSUME IInv, RefuseTransaction
    PROVE  IInv'
<1>1. Session /\ Framed /\ pc = "admit"
  BY DEF RefuseTransaction, IInv
<1>2. /\ StoreOK(store', chain.height) /\ Balances(store', chain.height) = mirror
      /\ journal' \in JournalType /\ journal'.open = journal.open
      /\ journal.open => UndoWrites(store', journal') = UndoWrites(store, journal)
  <2>1. CASE UNCHANGED storeVars
    BY <1>1, <2>1 DEF Session, storeVars
  <2>2. CASE OpenDatabase
    BY <1>1, <2>2, OpenDatabaseStep DEF Session
  <2>3. QED  BY <2>1, <2>2 DEF RefuseTransaction
<1>3. Framed'
  BY <1>1 DEF Framed, RefuseTransaction
<1>4. QED  BY <1>1, <1>2, <1>3, ExecutionStep DEF RefuseTransaction, IInv, Control

\* increment_nonce: no balance changes.
LEMMA NonceWrite ==
    ASSUME Session, NEW account \in Accounts, NEW v \in Nat
    PROVE  LET s == PutStore(store, <<<<"nonce", account>>, Height>>, v)
           IN  /\ StoreOK(s, chain.height)
               /\ Balances(s, chain.height) = Balances(store, chain.height)
               /\ \A a \in Accounts : Nonces(s, chain.height)[a] =
                     IF a = account THEN v ELSE Nonces(store, chain.height)[a]
               /\ <<<<"nonce", account>>, Height>> \in Cells /\ Held(s) = Held(store)
<1> DEFINE key == <<"nonce", account>>
           cell == <<key, chain.height>>
           s == PutStore(store, cell, v)
           w == [EmptyFrame EXCEPT ![key] = v]
<1>1. Height = chain.height /\ chain.height \in Heights /\ StoreOK(store, chain.height)
      /\ chain.height \in 0..MaxHeight
  BY HeightIsTip, TipIsHeight DEF Session
<1>2. key \in Keys /\ cell \in Cells /\ key[1] # "contract"
  BY <1>1, AccountKeysAre, CellsOfAccounts
<1>3. v # Absent
  BY ChainAssumption
<1>4. /\ \A a \in Accounts : /\ <<"balance", a>> \in Keys /\ <<"nonce", a>> \in Keys
                             /\ <<"balance", a>> # key /\ (<<"nonce", a>> = key <=> a = account)
      /\ \A c \in Contracts : <<"contract", c>> \in Keys /\ <<"contract", c>> # key
  BY DEF Keys
<1>5. CellOf(key, chain.height) = cell /\ cell[1] = key
  BY <1>2 DEF CellOf
<1> HIDE DEF key
<1>6. /\ w \in [Keys -> Nat \cup {Absent}] /\ w[key] = v
      /\ \A k \in Keys : k # key => w[k] = Absent
  BY <1>2, EmptyFrameIsFramed
<1> HIDE DEF w
<1>7. s = CommitStore(store, w, chain.height)
  <2> HIDE DEF cell
  <2>1. \A c \in Cells : c \in Written(w, chain.height) <=> c = cell
    BY <1>2, <1>3, <1>5, <1>6 DEF Written
  <2>2. store \in [Cells -> Nat \cup {Absent}]
    BY <1>1 DEF StoreOK
  <2>3. \A c \in Cells : c = cell => w[c[1]] = v
    BY <1>5, <1>6
  <2>4. QED  BY <2>1, <2>2, <2>3, <1>2 DEF CommitStore, PutStore
<1>8. /\ StoreOK(s, chain.height)
      /\ Balances(s, chain.height) = Through(w, store, chain.height)
      /\ \A a \in Accounts : Nonces(s, chain.height)[a] =
            IF w[<<"nonce", a>>] # Absent THEN w[<<"nonce", a>>]
            ELSE Nonces(store, chain.height)[a]
      /\ Held(s) = Held(store)
  BY <1>4, <1>6, <1>7, CommitBalances
<1> HIDE DEF s
<1>9. Balances(s, chain.height) = Balances(store, chain.height)
  BY <1>4, <1>6, <1>8 DEF Through, Balances
<1>10. \A a \in Accounts : Nonces(s, chain.height)[a] =
                     IF a = account THEN v ELSE Nonces(store, chain.height)[a]
  <2> SUFFICES ASSUME NEW a \in Accounts
               PROVE  Nonces(s, chain.height)[a] =
                          IF a = account THEN v ELSE Nonces(store, chain.height)[a]
    OBVIOUS
  <2>1. CASE a = account
    <3>1. <<"nonce", a>> = key
      BY <2>1, <1>4
    <3>2. w[<<"nonce", a>>] = v
      BY <3>1, <1>6
    <3>3. QED  BY <2>1, <3>2, <1>3, <1>8
  <2>2. CASE a # account
    <3>1. w[<<"nonce", a>>] = Absent
      BY <2>2, <1>4, <1>6
    <3>2. QED  BY <2>2, <3>1, <1>8
  <2>3. QED  BY <2>1, <2>2
<1>11. QED  BY <1>1, <1>2, <1>8, <1>9, <1>10 DEF s, cell, key

LEMMA UnexecutedStep ==
    ASSUME IInv, NEW inclusion \in BOOLEAN, Unexecuted(inclusion)
    PROVE  IInv'
<1> DEFINE charged == inclusion /\ NonceOf[tx.origin] # MaxNonce
           cell == <<<<"nonce", tx.origin>>, Height>>
           next == NonceOf[tx.origin] + 1
<1>1. Session /\ Framed /\ pc = "admit" /\ tx \in Signed \cup Calls
  BY DEF Unexecuted, IInv, Phases, Executing
<1>2. tx.origin \in Accounts /\ next \in Nat
  BY <1>1, TransactionIs, WhatIsRead
<1>3. /\ store' = IF charged THEN PutStore(store, cell, next) ELSE store
      /\ journal' = IF charged THEN PutJournal(journal, store, cell) ELSE journal
      /\ result' = [included |-> charged, moved |-> 0]
  BY DEF Unexecuted, IncrementNonce
<1>4. /\ store \in [Cells -> Nat \cup {Absent}] /\ journal \in JournalType
      /\ StoreOK(store, chain.height) /\ mirror = Balances(store, chain.height)
  BY <1>1 DEF Session, StoreOK
<1>5. /\ StoreOK(store', chain.height) /\ Balances(store', chain.height) = mirror
      /\ journal' \in JournalType /\ journal'.open = journal.open
      /\ journal.open => UndoWrites(store', journal') = UndoWrites(store, journal)
  <2>1. CASE charged
    <3>1. /\ StoreOK(PutStore(store, cell, next), chain.height)
          /\ Balances(PutStore(store, cell, next), chain.height) = mirror
          /\ cell \in Cells
      BY <1>1, <1>2, <1>4, NonceWrite
    <3>2. store' = PutStore(store, cell, next) /\ journal' = PutJournal(journal, store, cell)
      BY <2>1, <1>3
    <3> HIDE DEF cell, next
    <3>3. QED  BY <3>1, <3>2, <1>4, PutIsUndone
  <2>2. CASE ~charged
    BY <2>2, <1>3, <1>4
  <2>3. QED  BY <2>1, <2>2
<1>6. Framed'
  BY <1>1 DEF Framed, Unexecuted
<1>7. result' \in [included : BOOLEAN, moved : Nat]
  BY <1>3
<1>8. pc' = "finish" /\ mirror' = mirror
  BY DEF Unexecuted
<1>9. QED  BY <1>1, <1>5, <1>6, <1>7, <1>8, ExecutionStep DEF Unexecuted

\* The payload's writes join the frame: they move uSTX as its events say, or
\* they move none.
LEMMA PayloadKeptStep ==
    ASSUME IInv, NEW writes, NEW moved \in Nat, PayloadKept(writes, moved),
           writes \in [Keys -> Nat \cup {Absent}],
           \A a \in Accounts : writes[<<"nonce", a>>] = Absent,
           Through(writes, store, chain.height) = ProcessEvents(FeeTaken, tx.origin, tx.to, moved)
    PROVE  IInv'
<1>1. Session /\ pc = "payload"
  BY DEF PayloadKept, IInv
<1>2. result' = [included |-> TRUE, moved |-> moved] /\ result'.moved = moved
  BY DEF PayloadKept
<1>3. FeeTaken' = FeeTaken
  BY DEF PayloadKept, FeeTaken, IsSigned
<1>4. Framed'
  BY <1>2, <1>3 DEF Framed, PayloadKept, chainVars, storeVars
<1>5. QED  BY <1>1, <1>2, <1>4, ExecutionStep DEF PayloadKept, Session, storeVars

LEMMA FeeTakenType ==
    ASSUME IInv, Executing, pc = "payload"
    PROVE  /\ FeeTaken \in [Accounts -> Nat] /\ BalanceOf = FeeTaken
           /\ tx.origin \in Accounts /\ tx.to \in Accounts /\ tx.amount \in Nat
           /\ tx.contract \in Contracts
<1>1. Session /\ Framed /\ tx \in Signed \cup Calls
  BY DEF IInv, Phases
<1>2. BalanceOf = FeeTaken
  BY <1>1, WhatIsRead DEF Framed
<1>3. QED  BY <1>1, <1>2, WhatIsRead, TransactionIs

LEMMA TransferredIs ==
    ASSUME IInv, pc = "payload", CanTransfer
    PROVE  /\ Transferred \in [Keys -> Nat \cup {Absent}]
           /\ \A a \in Accounts : Transferred[<<"nonce", a>>] = Absent
           /\ Through(Transferred, store, chain.height) =
                 ProcessEvents(FeeTaken, tx.origin, tx.to, tx.amount)
<1> DEFINE from == tx.origin
           to == tx.to
           amount == tx.amount
           less == BalanceOf[from] - amount
           more == BalanceOf[to] + amount
<1>1. Executing /\ Framed
  BY DEF Executing, IInv
<1>2. /\ FeeTaken \in [Accounts -> Nat] /\ BalanceOf = FeeTaken
      /\ from \in Accounts /\ to \in Accounts /\ amount \in Nat
  BY <1>1, FeeTakenType
<1>3. /\ from # to /\ amount # 0 /\ less \in Nat /\ more \in Nat
      /\ less = FeeTaken[from] - amount /\ more = FeeTaken[to] + amount
  BY <1>2 DEF CanTransfer, HasFunds
<1>4. \A a \in Accounts : <<"balance", a>> \in Keys /\ <<"nonce", a>> \in Keys
  BY DEF Keys
<1>5. Transferred = [frame EXCEPT ![<<"balance", from>>] = less, ![<<"balance", to>>] = more]
  BY DEF Transferred
<1> HIDE DEF from, to, amount, less, more
<1>6. /\ Transferred \in [Keys -> Nat \cup {Absent}]
      /\ \A a \in Accounts : Transferred[<<"nonce", a>>] = Absent
      /\ \A a \in Accounts : Transferred[<<"balance", a>>] =
            IF a = from THEN less ELSE IF a = to THEN more ELSE frame[<<"balance", a>>]
  BY <1>1, <1>2, <1>3, <1>4, <1>5 DEF Framed
<1>7. \A a \in Accounts :
        FeeTaken[a] = IF frame[<<"balance", a>>] # Absent THEN frame[<<"balance", a>>]
                      ELSE Balances(store, chain.height)[a]
  BY <1>1 DEF Framed, Through
<1>8. less # Absent /\ more # Absent
  BY <1>3, ChainAssumption
<1>9. Through(Transferred, store, chain.height) =
         [a \in Accounts |-> IF a = from THEN less ELSE IF a = to THEN more ELSE FeeTaken[a]]
  BY <1>6, <1>7, <1>8 DEF Through
<1>10. ProcessEvents(FeeTaken, from, to, amount) =
         [a \in Accounts |-> IF a = from THEN less ELSE IF a = to THEN more ELSE FeeTaken[a]]
  BY <1>2, <1>3 DEF ProcessEvents, CreditToken, DebitToken
<1>11. QED  BY <1>6, <1>9, <1>10 DEF from, to, amount

LEMMA PayloadRunsStep ==
    ASSUME IInv, TransferRuns \/ CallRuns \/ DeployRuns
    PROVE  IInv'
<1>1. pc = "payload" /\ Executing /\ Framed
  BY DEF TransferRuns, CallRuns, DeployRuns, PayloadKept, Executing, IInv
<1>2. tx.amount \in Nat /\ tx.contract \in Contracts
  BY <1>1, FeeTakenType
<1>3. ProcessEvents(FeeTaken, tx.origin, tx.to, 0) = Through(frame, store, chain.height)
  BY <1>1 DEF ProcessEvents, Framed
<1>4. CASE CanTransfer /\ PayloadKept(Transferred, tx.amount)
  BY <1>1, <1>2, <1>4, TransferredIs, PayloadKeptStep
<1>5. CASE PayloadKept(frame, 0)
  <2>1. frame \in [Keys -> Nat \cup {Absent}] /\ \A a \in Accounts : frame[<<"nonce", a>>] = Absent
    BY <1>1 DEF Framed
  <2>2. QED  BY <2>1, <1>3, <1>5, PayloadKeptStep
<1>6. CASE DeployRuns
  <2> DEFINE key == <<"contract", tx.contract>>
             writes == [frame EXCEPT ![key] = 1]
  <2>1. PayloadKept(writes, 0)
    BY <1>6 DEF DeployRuns
  <2>2. \A a \in Accounts : /\ <<"balance", a>> \in Keys /\ <<"nonce", a>> \in Keys
                            /\ <<"balance", a>> # key /\ <<"nonce", a>> # key
    BY DEF Keys
  <2> HIDE DEF key
  <2>3. /\ writes \in [Keys -> Nat \cup {Absent}]
        /\ \A a \in Accounts : /\ writes[<<"nonce", a>>] = Absent
                               /\ writes[<<"balance", a>>] = frame[<<"balance", a>>]
    BY <1>1, <2>2 DEF Framed
  <2> HIDE DEF writes
  <2>4. Through(writes, store, chain.height) = Through(frame, store, chain.height)
    BY <2>3 DEF Through
  <2>5. QED  BY <2>1, <2>3, <2>4, <1>3, PayloadKeptStep
<1>7. QED  BY <1>4, <1>5, <1>6 DEF TransferRuns, CallRuns

LEMMA PayloadFailsStep ==
    ASSUME IInv, NEW inclusion \in BOOLEAN, PayloadFails(inclusion)
    PROVE  IInv'
<1>1. Session /\ Framed /\ pc = "payload"
  BY DEF PayloadFails, IInv
<1>2. result' = [included |-> inclusion, moved |-> 0] /\ result'.moved = 0
  BY DEF PayloadFails
<1>3. FeeTaken' = FeeTaken
  BY DEF PayloadFails, FeeTaken, IsSigned
<1>4. Framed'
  BY <1>1, <1>2, <1>3 DEF Framed, PayloadFails, chainVars, storeVars, ProcessEvents
<1>5. QED  BY <1>1, <1>2, <1>4, ExecutionStep DEF PayloadFails, Session, storeVars

\* The writes of a transaction with its nonces: the balances are those of the
\* frame.
LEMMA ChargedIs ==
    ASSUME IInv, pc = "settle"
    PROVE  /\ Charged \in [Keys -> Nat \cup {Absent}]
           /\ Through(Charged, store, chain.height) = Through(frame, store, chain.height)
           /\ \A c \in Contracts : Charged[<<"contract", c>>] = frame[<<"contract", c>>]
           /\ \A a \in Accounts : Charged[<<"nonce", a>>] =
                 IF IsSigned
                 THEN IF Payer(tx) # tx.origin /\ a = Payer(tx) THEN tx.sponsorNonce + 1
                      ELSE IF a = tx.origin THEN tx.nonce + 1 ELSE Absent
                 ELSE IF a = tx.origin THEN NonceOf[tx.origin] + 1 ELSE Absent
<1> DEFINE charge(f, a, n) == [f EXCEPT ![<<"nonce", a>>] = n + 1]
<1>1. Framed /\ Session /\ tx \in Signed \cup Calls
  BY DEF IInv, Phases, Executing
<1>2. NonceOf[tx.origin] \in Nat
  BY <1>1, TransactionIs, WhatIsRead
<1>3. \A a \in Accounts, b \in Accounts :
        /\ <<"balance", a>> \in Keys /\ <<"nonce", a>> \in Keys
        /\ <<"balance", a>> # <<"nonce", b>>
        /\ <<"nonce", a>> = <<"nonce", b>> <=> a = b
  BY DEF Keys
<1>4. \A c \in Contracts : \A a \in Accounts : <<"contract", c>> \in Keys
        /\ <<"contract", c>> # <<"nonce", a>>
  BY DEF Keys
<1>5. ASSUME NEW f \in [Keys -> Nat \cup {Absent}], NEW b \in Accounts, NEW n \in Nat
      PROVE  /\ charge(f, b, n) \in [Keys -> Nat \cup {Absent}]
             /\ \A a \in Accounts : charge(f, b, n)[<<"balance", a>>] = f[<<"balance", a>>]
             /\ \A a \in Accounts : charge(f, b, n)[<<"nonce", a>>] =
                    IF a = b THEN n + 1 ELSE f[<<"nonce", a>>]
             /\ \A c \in Contracts : charge(f, b, n)[<<"contract", c>>] = f[<<"contract", c>>]
  <2> DEFINE key == <<"nonce", b>>
             g == [f EXCEPT ![key] = n + 1]
  <2>1. /\ key \in Keys /\ \A a \in Accounts : <<"balance", a>> # key
        /\ \A a \in Accounts : <<"nonce", a>> = key <=> a = b
        /\ \A c \in Contracts : <<"contract", c>> # key
    BY <1>3, <1>4
  <2>2. charge(f, b, n) = g
    OBVIOUS
  <2> HIDE DEF key, charge
  <2>3. g \in [Keys -> Nat \cup {Absent}]
    BY <2>1
  <2>4. g[key] = n + 1 /\ \A k \in Keys : k # key => g[k] = f[k]
    BY <2>1
  <2> HIDE DEF g
  <2>5. \A a \in Accounts : g[<<"nonce", a>>] = IF a = b THEN n + 1 ELSE f[<<"nonce", a>>]
    BY <2>1, <2>4, <1>3
  <2>6. QED  BY <2>1, <2>2, <2>3, <2>4, <2>5, <1>3, <1>4
<1>6. Charged = IF IsSigned
                THEN IF Payer(tx) = tx.origin THEN charge(frame, tx.origin, tx.nonce)
                     ELSE charge(charge(frame, tx.origin, tx.nonce), tx.sponsor, tx.sponsorNonce)
                ELSE charge(frame, tx.origin, NonceOf[tx.origin])
  BY DEF Charged
<1> HIDE DEF charge
<1>7. /\ frame \in [Keys -> Nat \cup {Absent}]
      /\ \A a \in Accounts : frame[<<"nonce", a>>] = Absent
  BY <1>1 DEF Framed
<1>8. /\ tx.origin \in Accounts /\ tx.nonce \in Nat /\ tx.sponsorNonce \in Nat
      /\ Payer(tx) # tx.origin => tx.sponsor \in Accounts /\ Payer(tx) = tx.sponsor
  BY <1>1, TransactionIs
<1>9. /\ Charged \in [Keys -> Nat \cup {Absent}]
      /\ \A a \in Accounts : Charged[<<"balance", a>>] = frame[<<"balance", a>>]
      /\ \A c \in Contracts : Charged[<<"contract", c>>] = frame[<<"contract", c>>]
      /\ \A a \in Accounts : Charged[<<"nonce", a>>] =
            IF IsSigned
            THEN IF Payer(tx) # tx.origin /\ a = Payer(tx) THEN tx.sponsorNonce + 1
                 ELSE IF a = tx.origin THEN tx.nonce + 1 ELSE Absent
            ELSE IF a = tx.origin THEN NonceOf[tx.origin] + 1 ELSE Absent
  <2> DEFINE own == charge(frame, tx.origin, tx.nonce)
  <2>1. CASE ~IsSigned
    BY <2>1, <1>2, <1>5, <1>6, <1>7, <1>8
  <2>2. CASE IsSigned /\ Payer(tx) = tx.origin
    BY <2>2, <1>5, <1>6, <1>7, <1>8
  <2>3. CASE IsSigned /\ Payer(tx) # tx.origin
    <3>1. /\ own \in [Keys -> Nat \cup {Absent}]
          /\ \A a \in Accounts : own[<<"balance", a>>] = frame[<<"balance", a>>]
          /\ \A c \in Contracts : own[<<"contract", c>>] = frame[<<"contract", c>>]
          /\ \A a \in Accounts : own[<<"nonce", a>>] =
                IF a = tx.origin THEN tx.nonce + 1 ELSE Absent
      BY <1>5, <1>7, <1>8
    <3>2. Charged = charge(own, tx.sponsor, tx.sponsorNonce)
      BY <2>3, <1>6
    <3> HIDE DEF own
    <3>3. QED  BY <2>3, <3>1, <3>2, <1>5, <1>8
  <2>4. QED  BY <2>1, <2>2, <2>3
<1>10. Through(Charged, store, chain.height) = Through(frame, store, chain.height)
  BY <1>9 DEF Through
<1>11. QED  BY <1>9, <1>10

\* Both ways of bookkeeping report what the frame holds.
LEMMA ReportedIs ==
    ASSUME IInv, pc = "settle"
    PROVE  Reported = Through(frame, store, chain.height)
<1>1. Framed /\ Session /\ tx \in Signed \cup Calls /\ result.moved \in Nat
  BY DEF IInv, Phases, Executing, Control
<1>2. /\ BalanceOf = ProcessEvents(FeeTaken, tx.origin, tx.to, result.moved)
      /\ BalanceOf = Through(frame, store, chain.height) /\ BalanceOf \in [Accounts -> Nat]
  BY <1>1, WhatIsRead DEF Framed
<1>3. CASE ~IsSigned
  BY <1>2, <1>3 DEF Reported, FeeTaken
<1>4. CASE IsSigned
  <2> DEFINE parties == IF result.moved > 0 THEN {tx.origin, tx.to} ELSE {}
  <2>1. /\ mirror \in [Accounts -> Nat] /\ tx.origin \in Accounts /\ tx.to \in Accounts
        /\ Payer(tx) \in Accounts /\ tx.fee \in Nat
    BY <1>1, TransactionIs, ReadsAreNaturals, TipIsHeight DEF Session
  <2>2. /\ FeeTaken \in [Accounts -> Int]
        /\ \A a \in Accounts : a # Payer(tx) => FeeTaken[a] = mirror[a]
    BY <1>4, <2>1 DEF FeeTaken
  <2>3. \A a \in Accounts : a \notin parties => BalanceOf[a] = FeeTaken[a]
    BY <1>1, <1>2, <2>1, <2>2 DEF ProcessEvents, CreditToken, DebitToken
  <2>4. Reported = [a \in Accounts |-> IF a \in parties \cup {Payer(tx)}
                                       THEN BalanceOf[a] ELSE mirror[a]]
    BY <1>4 DEF Reported
  <2> HIDE DEF parties
  <2>5. QED  BY <1>2, <2>1, <2>2, <2>3, <2>4
<1>5. QED  BY <1>3, <1>4

LEMMA SettleIncludedStep ==
    ASSUME IInv, SettleIncluded
    PROVE  IInv'
<1>1. Session /\ Framed /\ pc = "settle" /\ result.included /\ Height = chain.height
  BY HeightIsTip DEF SettleIncluded, IInv
<1>2. Charged \in [Keys -> Nat \cup {Absent}]
  BY <1>1, ChargedIs
<1>3. /\ store' = CommitStore(store, Charged, chain.height)
      /\ journal' = CommitJournal(journal, store, Charged, chain.height)
      /\ mirror' = Reported /\ frame' = EmptyFrame /\ pc' = "finish" /\ result' = result
  BY <1>1 DEF SettleIncluded
<1>4. /\ StoreOK(store', chain.height)
      /\ Balances(store', chain.height) = Through(Charged, store, chain.height)
  BY <1>1, <1>2, <1>3, CommitBalances
<1>5. mirror' = Balances(store', chain.height)
  BY <1>1, <1>3, <1>4, ReportedIs, ChargedIs
<1>6. store \in [Cells -> Nat \cup {Absent}] /\ journal \in JournalType
  BY <1>1 DEF Session, StoreOK
<1>7. /\ journal' \in JournalType /\ journal'.open = journal.open
      /\ journal.open => UndoWrites(store', journal') = UndoWrites(store, journal)
  BY <1>3, <1>6, CommitIsUndone
<1>8. Framed'
  BY <1>3, EmptyFrameIsFramed DEF Framed
<1>9. QED
  BY <1>1, <1>3, <1>4, <1>5, <1>7, <1>8, ExecutionStep DEF SettleIncluded, IInv, Control

LEMMA SettleRejectedStep ==
    ASSUME IInv, SettleRejected
    PROVE  IInv'
<1>1. Session /\ Framed /\ pc = "settle"
  BY DEF SettleRejected, IInv
<1>2. Framed'
  BY EmptyFrameIsFramed DEF SettleRejected, Framed
<1>3. QED
  BY <1>1, <1>2, ExecutionStep, UndecidedType DEF SettleRejected, Session, storeVars

\* A rejected transaction is undone to the session that was before it.
LEMMA TentativeIsUndone ==
    ASSUME IInv, mode = "tentative"
    PROVE  /\ RestoreChain(chain, undo) = before.chain /\ undo.cur = before.cur
           /\ UndoWrites(store, journal) = before.store
BY RestoreUndoes DEF IInv, Undoable, Checkpoint

LEMMA FinishTentativeBlockStep ==
    ASSUME IInv, FinishTentativeBlock
    PROVE  IInv'
<1>1. Session /\ Framed /\ mode = "tentative" /\ pc = "finish"
  BY DEF FinishTentativeBlock, IInv
<1>2. journal' = ClosedJournal /\ mirror' = mirror /\ pc' = "idle" /\ mode' = "none"
      /\ tx' = None /\ result' = Undecided /\ frame' = frame
  BY DEF FinishTentativeBlock
<1>3. Session'
  <2>1. CASE result.included
    BY <1>1, <1>2, <2>1, FreshJournals DEF FinishTentativeBlock, Session
  <2>2. CASE ~result.included
    <3>1. chain' = before.chain /\ cur' = before.cur /\ store' = before.store
      BY <1>1, <2>2, TentativeIsUndone DEF FinishTentativeBlock
    <3>2. QED  BY <1>1, <1>2, <2>2, <3>1, FreshJournals DEF IInv, Undoable, Session
  <2>3. QED  BY <2>1, <2>2
<1>4. Control'
  BY <1>2, UndecidedType DEF FinishTentativeBlock, IInv, Control
<1>5. Phases'
  BY <1>2, FreshJournals DEF Phases, Executing
<1>6. Framed'
  BY <1>1, <1>2 DEF Framed
<1>7. Undoable'
  BY <1>2 DEF Undoable
<1>8. QED  BY <1>3, <1>4, <1>5, <1>6, <1>7 DEF IInv

-----------------------------------------------------------------------------
LEMMA NextOK == IInv /\ [Next]_vars => IInv'
<1> SUFFICES ASSUME IInv, [Next]_vars PROVE IInv'
  OBVIOUS
<1>1. CASE Command
  BY <1>1, MineEmptyBlockStep, SetEpochStep, EvalSnippetStep, MintStxStep DEF Command
<1>2. CASE CallReadOnlyFn \/ InitSession \/ MineBlock \/ DrainQueue \/ QueueDrained \/ EndBlock
  BY <1>2, CallReadOnlyFnStep, InitSessionStep, MineBlockStep, DrainQueueStep, QueueDrainedStep,
     EndBlockStep
<1>3. CASE \E t \in Signed : SubmitTransaction(t) \/ BroadcastTransaction(t)
  BY <1>3, SubmitTransactionStep, BroadcastTransactionStep
<1>4. CASE \E t \in Calls : CallFn(t) \/ TransferStx(t) \/ DeployContract(t)
  BY <1>4, InNextBlockStep DEF CallFn, TransferStx, DeployContract
<1>5. CASE \E t \in Signed \cup Calls : ExecuteListed(t)
  BY <1>5, ExecuteListedStep
<1>6. CASE AdmitTransaction \/ RefuseTransaction
  BY <1>6, AdmitTransactionStep, RefuseTransactionStep
<1>7. CASE \E inclusion \in BOOLEAN :
             FailBeforeExecution(inclusion) \/ PreflightRejection(inclusion)
             \/ PayloadFails(inclusion)
  BY <1>7, UnexecutedStep, PayloadFailsStep DEF FailBeforeExecution, PreflightRejection
<1>8. CASE TransferRuns \/ CallRuns \/ DeployRuns
  BY <1>8, PayloadRunsStep
<1>9. CASE SettleIncluded \/ SettleRejected \/ FinishTransaction \/ FinishTentativeBlock
  BY <1>9, SettleIncludedStep, SettleRejectedStep, FinishTransactionStep, FinishTentativeBlockStep
<1>10. CASE UNCHANGED vars
  BY <1>10 DEF vars, IInv, Control, Phases, Executing, Session, Framed, FeeTaken, IsSigned, Undoable
<1>11. QED  BY <1>1, <1>2, <1>3, <1>4, <1>5, <1>6, <1>7, <1>8, <1>9, <1>10 DEF Next

LEMMA Inductive == Spec => []IInv
<1>1. QED  BY InitOK, NextOK, PTL DEF Spec

\* Every variable keeps its type: heights stay within the tables, and an account
\* always has a nonce and a balance that are naturals.
THEOREM TypeCorrect == Spec => []TypeOK
<1>1. IInv => TypeOK
  <2> SUFFICES ASSUME IInv PROVE TypeOK
    OBVIOUS
  <2>1. /\ chain \in ChainType /\ cur \in Heights
        /\ store \in [Cells -> Nat \cup {Absent}] /\ journal \in JournalType
        /\ mirror \in [Accounts -> Nat]
    BY TipIsHeight, ReadsAreNaturals DEF IInv, Session, ChainOK, StoreOK
  <2>2. /\ journal.open \in BOOLEAN /\ journal.touched \in [Cells -> BOOLEAN]
        /\ journal.first \in [Cells -> Nat \cup {Absent}]
    BY <2>1 DEF JournalType
  <2>3. mirror \in [Accounts -> Int]
    BY <2>1
  <2>4. QED  BY <2>1, <2>2, <2>3 DEF IInv, Control, Framed, TypeOK
<1>2. QED  BY <1>1, Inductive, PTL

\* A block made for a signed transaction that is then rejected leaves no trace,
\* whatever the transaction, the epoch and the blocks before it
\* (execute_raw_transaction_in_next_block).
THEOREM RejectionLeavesNoTrace == Spec => []RejectedLeavesNoTrace
<1>1. IInv => RejectedLeavesNoTrace
  <2> SUFFICES ASSUME IInv, pc = "finish", mode = "tentative", ~result.included
               PROVE  RejectedLeavesNoTrace
    BY DEF RejectedLeavesNoTrace
  <2>1. mirror = before.mirror
    BY DEF IInv, Undoable
  <2>2. QED  BY <2>1, TentativeIsUndone DEF RejectedLeavesNoTrace
<1>2. QED  BY <1>1, Inductive, PTL

\* Between transactions the balances that the session reports are those that the
\* chain holds, for signed transactions whose balances are read back and for the
\* others whose events are added up (process_events).
THEOREM MirrorIsTheChain == Spec => []MirrorAgrees
<1>1. IInv => MirrorAgrees
  BY MirrorIsRead DEF IInv, MirrorAgrees
<1>2. QED  BY <1>1, Inductive, PTL

-----------------------------------------------------------------------------
(***************************************************************************)
(* A simnet session implements the ledger of SimnetLedger: every step is   *)
(* one of the ledger's or changes nothing the user may know of.  Since no  *)
(* step takes a nonce back, the queue of signed transactions stays in an   *)
(* order in which it can be mined.                                         *)
(***************************************************************************)

\* Nonces, balances and contracts before and after an included transaction.
Taken(n, b, c, n2, b2, c2) ==
    \E origin, payer \in Accounts : \E fee \in 0..b[payer] :
        /\ n2 = [a \in Accounts |-> IF a \in {origin, payer} THEN n[a] + 1 ELSE n[a]]
        /\ LET charged == [b EXCEPT ![payer] = @ - fee]
           IN  \/ b2 = charged
               \/ \E to \in Accounts \ {origin} : \E amount \in 1..charged[origin] :
                     b2 = [charged EXCEPT ![origin] = @ - amount, ![to] = @ + amount]
        /\ \A a \in Accounts : b2[a] >= 0
        /\ c \subseteq c2

\* The same between two stores, each read at its height.
TakenIn(s, h, t, g) ==
    Taken(Nonces(s, h), Balances(s, h), Held(s), Nonces(t, g), Balances(t, g), Held(t))

SameIn(s, h, t, g) ==
    Nonces(t, g) = Nonces(s, h) /\ Balances(t, g) = Balances(s, h) /\ Held(t) = Held(s)

\* What the execution of a transaction relies on since it was admitted.
Admitted ==
    /\ pc = "admit" => ~result.included
    /\ pc \in {"payload", "settle"} /\ IsSigned =>
          Ready(tx, Nonces(store, chain.height)) /\ mirror[Payer(tx)] >= tx.fee
    /\ pc = "settle" => \/ result.moved = 0
                        \/ tx.to # tx.origin /\ result.moved \in 1..FeeTaken[tx.origin]

\* Since a tentative block began its transaction was included, or nothing
\* happened.
Progress ==
    mode = "tentative" =>
        IF pc = "finish" /\ result.included
        THEN TakenIn(before.store, before.chain.height, store, chain.height)
        ELSE SameIn(before.store, before.chain.height, store, chain.height)

LInv == IInv /\ Admitted /\ Progress

LedgerStep == [Ledger!Next]_(Ledger!ledger)

\* No account loses a nonce, or gains more than one.
Grows ==
    \A a \in Accounts : Nonces(SeenStore', SeenHeight')[a] \in
        {Nonces(SeenStore, SeenHeight)[a], Nonces(SeenStore, SeenHeight)[a] + 1}

-----------------------------------------------------------------------------
\* The session in terms of the ledger.
LEMMA SeenOutside ==
    ASSUME mode # "tentative"
    PROVE  SeenStore = store /\ SeenHeight = chain.height
BY DEF SeenStore, SeenHeight, Tentative

LEMMA Stutters ==
    ASSUME SeenHeight' = SeenHeight, SameIn(SeenStore, SeenHeight, SeenStore', SeenHeight')
    PROVE  LedgerStep /\ Grows
BY DEF LedgerStep, Grows, Ledger!ledger, SameIn, Nonces, Balances, Held

LEMMA IsBlock ==
    ASSUME SeenHeight' = SeenHeight + 1, SameIn(SeenStore, SeenHeight, SeenStore', SeenHeight')
    PROVE  LedgerStep /\ Grows
BY DEF LedgerStep, Grows, Ledger!Next, Ledger!Block, SameIn, Nonces, Balances, Held

LEMMA IsTransaction ==
    ASSUME SeenHeight' \in {SeenHeight, SeenHeight + 1},
           TakenIn(SeenStore, SeenHeight, SeenStore', SeenHeight')
    PROVE  LedgerStep /\ Grows
<1>1. Ledger!Included
  BY DEF Ledger!Included, TakenIn, Taken, Nonces, Balances, Held
<1>2. Grows
  BY DEF Grows, TakenIn, Taken
<1>3. QED  BY <1>1, <1>2 DEF LedgerStep, Ledger!Next, Ledger!Transaction

\* A step that is not tentative and changes no account.
LEMMA OutsideStep ==
    ASSUME mode # "tentative", mode' # "tentative", pc' \notin {"payload", "settle"},
           pc' = "admit" => result' = Undecided,
           chain'.height \in {chain.height, chain.height + 1},
           SameIn(store, chain.height, store', chain'.height)
    PROVE  LedgerStep /\ Grows /\ Admitted' /\ Progress'
<1>1. /\ SeenStore = store /\ SeenHeight = chain.height
      /\ SeenStore' = store' /\ SeenHeight' = chain'.height
  BY DEF SeenStore, SeenHeight, Tentative
<1>2. LedgerStep /\ Grows
  <2>1. CASE chain'.height = chain.height
    BY <1>1, <2>1, Stutters
  <2>2. CASE chain'.height = chain.height + 1
    BY <1>1, <2>2, IsBlock
  <2>3. QED  BY <2>1, <2>2
<1>3. Admitted'
  BY DEF Admitted, Undecided
<1>4. QED  BY <1>2, <1>3 DEF Progress

\* A step of the execution of a transaction: it is included, or changes no
\* account.
LEMMA InsideStep ==
    ASSUME LInv, pc \in {"admit", "payload", "settle"}, pc' \in {"payload", "settle", "finish"},
           UNCHANGED <<chain, mode, before>>,
           IF pc' = "finish" /\ result'.included
           THEN TakenIn(store, chain.height, store', chain.height)
           ELSE SameIn(store, chain.height, store', chain.height)
    PROVE  LedgerStep /\ Grows /\ Progress'
<1>1. CASE mode = "tentative"
  <2>1. SeenStore' = SeenStore /\ SeenHeight' = SeenHeight
    BY <1>1 DEF SeenStore, SeenHeight, Tentative
  <2>2. LedgerStep /\ Grows
    BY <2>1, Stutters DEF SameIn
  <2>3. SameIn(before.store, before.chain.height, store, chain.height)
    BY <1>1 DEF LInv, Progress
  <2>4. Progress'
    BY <1>1, <2>3 DEF Progress, SameIn, TakenIn
  <2>5. QED  BY <2>2, <2>4
<1>2. CASE mode # "tentative"
  <2>1. /\ SeenStore = store /\ SeenHeight = chain.height
        /\ SeenStore' = store' /\ SeenHeight' = chain.height
    BY <1>2 DEF SeenStore, SeenHeight, Tentative
  <2>2. LedgerStep /\ Grows
    BY <2>1, Stutters, IsTransaction
  <2>3. QED  BY <1>2, <2>2 DEF Progress
<1>3. QED  BY <1>1, <1>2

-----------------------------------------------------------------------------
\* Steps between two operations, and those that begin one.
LEMMA NewBlockIsSame ==
    ASSUME NEW j, NEW next, NewBlock(store, j, next)
    PROVE  /\ chain'.height = chain.height + 1
           /\ SameIn(store, chain.height, store', chain'.height)
BY SameKeysHold DEF NewBlock, SameIn

LEMMA NextBlockIsSame ==
    ASSUME IInv, NEW j \in JournalType, NextBlock(j)
    PROVE  /\ chain'.height = chain.height + 1
           /\ SameIn(store, chain.height, store', chain'.height)
<1>1. Session /\ (chain.epoch < Nakamoto) \in BOOLEAN
  BY DEF IInv
<1>2. NewBlock(store, j, NextChain(chain))
  BY <1>1, AdvanceStep DEF NextBlock, NextChain
<1>3. QED  BY <1>2, NewBlockIsSame

LEMMA EpochWriteIsSame ==
    ASSUME IInv
    PROVE  SameIn(store, chain.height, PutStore(store, <<<<"epoch">>, Height>>, chain.epoch),
                  chain.height)
<1>1. Session
  BY DEF IInv
<1>2. QED  BY <1>1, EpochWrite, SameKeysHold DEF SameIn

LEMMA BlockLedger ==
    ASSUME IInv, \/ \E burnBlock \in BOOLEAN : MineEmptyBlock(burnBlock)
                 \/ \E t \in Calls : InNextBlock(t)
                 \/ MineBlock
    PROVE  LedgerStep /\ Grows /\ Admitted' /\ Progress'
<1>1. Session /\ journal \in JournalType /\ mode # "tentative"
  BY DEF IInv, Session, Phases, MineEmptyBlock, InNextBlock, MineBlock, Executing
<1>2. CASE \E burnBlock \in BOOLEAN : MineEmptyBlock(burnBlock)
  <2>1. PICK burnBlock \in BOOLEAN : MineEmptyBlock(burnBlock)
    BY <1>2
  <2>2. PICK next : NewBlock(store, journal, next)
    BY <2>1, <1>1, AdvanceStep DEF MineEmptyBlock
  <2>3. /\ chain'.height = chain.height + 1
        /\ SameIn(store, chain.height, store', chain'.height)
    BY <2>2, NewBlockIsSame
  <2>4. QED  BY <2>1, <2>3, <1>1, OutsideStep DEF MineEmptyBlock
<1>3. CASE MineBlock \/ \E t \in Calls : InNextBlock(t)
  <2>1. /\ chain'.height = chain.height + 1
        /\ SameIn(store, chain.height, store', chain'.height)
    BY <1>1, <1>3, NextBlockIsSame DEF MineBlock, InNextBlock
  <2>2. QED  BY <2>1, <1>1, <1>3, OutsideStep DEF MineBlock, InNextBlock
<1>4. QED  BY <1>2, <1>3

LEMMA SetEpochLedger ==
    ASSUME IInv, NEW epoch \in Epochs, SetEpoch(epoch)
    PROVE  LedgerStep /\ Grows /\ Admitted' /\ Progress'
<1>1. mode # "tentative" /\ mode' = mode /\ pc' = "idle"
  BY DEF SetEpoch, IInv, Phases, Executing
<1>2. /\ chain'.height \in {chain.height, chain.height + 1}
      /\ SameIn(store, chain.height, store', chain'.height)
  BY SetEpochStores, SameKeysHold DEF SameIn
<1>3. QED  BY <1>1, <1>2, OutsideStep

\* Calls that read, submissions, and the steps from one transaction of a block
\* to the next.
LEMMA QuietLedger ==
    ASSUME IInv, \/ CallReadOnlyFn \/ DrainQueue \/ QueueDrained \/ EndBlock \/ FinishTransaction
                 \/ \E t \in Signed : SubmitTransaction(t)
                 \/ \E t \in Signed \cup Calls : ExecuteListed(t)
    PROVE  LedgerStep /\ Grows /\ Admitted' /\ Progress'
<1>1. mode # "tentative" /\ mode' # "tentative" /\ chain' = chain
  BY DEF CallReadOnlyFn, DrainQueue, QueueDrained, EndBlock, FinishTransaction, SubmitTransaction,
         ExecuteListed, IInv, Phases, Executing, chainVars
<1>2. pc' \notin {"payload", "settle"} /\ (pc' = "admit" => result' = Undecided)
  BY DEF CallReadOnlyFn, DrainQueue, QueueDrained, EndBlock, FinishTransaction, SubmitTransaction,
         ExecuteListed, IInv, Phases, Executing, Control
<1>3. store' = store \/ store' = PutStore(store, <<<<"epoch">>, Height>>, chain.epoch)
  BY DEF CallReadOnlyFn, DrainQueue, QueueDrained, EndBlock, FinishTransaction, SubmitTransaction,
         ExecuteListed, EvalReadOnly, storeVars
<1>4. SameIn(store, chain.height, store', chain'.height)
  BY <1>1, <1>3, EpochWriteIsSame DEF SameIn
<1>5. QED  BY <1>1, <1>2, <1>4, OutsideStep

\* process_events moves what the events say.
LEMMA EventsMove ==
    ASSUME NEW f \in [Accounts -> Nat], NEW from \in Accounts, NEW to \in Accounts, from # to,
           NEW amount \in Nat
    PROVE  ProcessEvents(f, from, to, amount) = [f EXCEPT ![from] = @ - amount, ![to] = @ + amount]
<1> DEFINE after == [a \in Accounts |-> IF a = from THEN f[a] - amount
                                        ELSE IF a = to THEN f[a] + amount ELSE f[a]]
<1>1. CASE amount = 0
  <2>1. \A a \in Accounts : after[a] = f[a]
    BY <1>1
  <2>2. ProcessEvents(f, from, to, amount) = after
    BY <1>1, <2>1 DEF ProcessEvents
  <2>3. QED  BY <2>2
<1>2. CASE amount # 0
  <2>1. DebitToken(CreditToken(f, to, amount), from, amount) = after
    BY DEF CreditToken, DebitToken
  <2>2. QED  BY <1>2, <2>1 DEF ProcessEvents
<1>3. QED  BY <1>1, <1>2

\* A snippet and a mint are adjustments of the ledger.
LEMMA AdjustLedger ==
    ASSUME IInv, NEW from \in Accounts, NEW to \in Accounts, NEW amount \in SnippetAmounts,
           EvalSnippet(from, to, amount) \/ MintStx(to, amount)
    PROVE  LedgerStep /\ Grows /\ Admitted' /\ Progress'
<1>1. /\ mode # "tentative" /\ mode' = mode /\ chain' = chain /\ pc' = "idle" /\ Session
  BY DEF EvalSnippet, MintStx, IInv, Phases, Executing, chainVars
<1>2. /\ SeenStore = store /\ SeenHeight = chain.height
      /\ SeenStore' = store' /\ SeenHeight' = chain.height
  BY <1>1 DEF SeenStore, SeenHeight, Tentative
<1>3. Admitted' /\ Progress'
  BY <1>1 DEF Admitted, Progress
<1>4. Session' /\ Nonces(store', chain.height) = Nonces(store, chain.height) /\ Held(store') = Held(store)
  BY EvalSnippetStores, MintStxStores
<1>5. /\ Balances(store, chain.height) = mirror /\ Balances(store', chain.height) = mirror'
      /\ mirror \in [Accounts -> Nat]
  BY <1>1, <1>4, ReadsAreNaturals, TipIsHeight DEF Session
<1>6. amount \in Nat
  BY SimnetAssumption
<1>7. \/ mirror' = [mirror EXCEPT ![to] = @ + amount]
      \/ /\ from # to /\ mirror[from] >= amount
         /\ mirror' = [mirror EXCEPT ![from] = @ - amount, ![to] = @ + amount]
  <2>1. CASE MintStx(to, amount)
    BY <2>1 DEF MintStx, CreditToken
  <2>2. CASE EvalSnippet(from, to, amount)
    <3>1. from # to /\ mirror[from] >= amount /\ mirror' = ProcessEvents(mirror, from, to, amount)
      BY <2>2, EvalSnippetStores DEF EvalSnippet
    <3>2. ProcessEvents(mirror, from, to, amount) =
             [mirror EXCEPT ![from] = @ - amount, ![to] = @ + amount]
      BY <3>1, <1>5, <1>6, EventsMove
    <3>3. QED  BY <3>1, <3>2
  <2>3. QED  BY <2>1, <2>2
<1>8. Ledger!Adjust
  <2> DEFINE B == [a \in Accounts |-> ReadAt(SeenStore, <<"balance", a>>, SeenHeight)]
  <2>1. B = mirror /\ B' = mirror'
    BY <1>2, <1>5 DEF Balances
  <2>2. UNCHANGED <<SeenHeight, [a \in Accounts |-> ReadAt(SeenStore, <<"nonce", a>>, SeenHeight)],
                    {c \in Contracts : SeenStore[<<<<"contract", c>>, 0>>] # Absent}>>
    BY <1>2, <1>4 DEF Nonces, Held
  <2>3. \E to2 \in Accounts, amount2 \in SnippetAmounts :
          \/ B' = [B EXCEPT ![to2] = @ + amount2]
          \/ \E from2 \in Accounts \ {to2} :
                /\ B[from2] >= amount2
                /\ B' = [B EXCEPT ![from2] = @ - amount2, ![to2] = @ + amount2]
    <3> HIDE DEF B
    <3>1. CASE mirror' = [mirror EXCEPT ![to] = @ + amount]
      BY <2>1, <3>1
    <3>2. CASE /\ from # to /\ mirror[from] >= amount
               /\ mirror' = [mirror EXCEPT ![from] = @ - amount, ![to] = @ + amount]
      BY <2>1, <3>2
    <3>3. QED  BY <1>7, <3>1, <3>2
  <2>4. QED  BY <2>2, <2>3 DEF Ledger!Adjust
<1>9. Grows
  BY <1>2, <1>4 DEF Grows
<1>10. QED  BY <1>3, <1>8, <1>9 DEF LedgerStep, Ledger!Next

LEMMA GenesisHeld == Held(GenesisStore) = {}
<1>1. \A c \in Contracts : GenesisStore[<<<<"contract", c>>, 0>>] = Absent
  BY ContractCells DEF GenesisStore
<1>2. QED  BY <1>1 DEF Held

LEMMA InitSessionLedger ==
    ASSUME IInv, InitSession
    PROVE  LedgerStep /\ Admitted' /\ Progress'
<1>1. /\ mode # "tentative" /\ mode' = mode /\ pc' = "idle"
      /\ chain' = GenesisChain /\ store' = GenesisStore
  BY DEF InitSession, Fresh, IInv, Phases, Executing
<1>2. SeenStore' = GenesisStore /\ SeenHeight' = 0
  BY <1>1, GenesisOK DEF SeenStore, SeenHeight, Tentative
<1>3. Ledger!Restart
  BY <1>2, GenesisOK, GenesisHeld DEF Ledger!Restart, Nonces, Balances, Held
<1>4. QED  BY <1>1, <1>3 DEF LedgerStep, Ledger!Next, Admitted, Progress

-----------------------------------------------------------------------------
\* A tentative block begins: what the user may know is what was.
LEMMA BroadcastLedger ==
    ASSUME IInv, NEW t \in Signed, BroadcastTransaction(t)
    PROVE  LedgerStep /\ Grows /\ Admitted' /\ Progress'
<1>1. mode # "tentative" /\ Session /\ OpenJournal \in JournalType
  BY FreshJournals DEF BroadcastTransaction, IInv, Phases, Executing
<1>2. SameIn(store, chain.height, store', chain'.height)
  BY <1>1, NextBlockIsSame DEF BroadcastTransaction
<1>3. /\ before' = [chain |-> chain, cur |-> cur, store |-> store, mirror |-> mirror]
      /\ mode' = "tentative" /\ pc' = "admit" /\ result' = Undecided
  BY DEF BroadcastTransaction
<1>4. before'.store = store /\ before'.chain = chain
  BY <1>3
<1>5. /\ SeenStore = store /\ SeenHeight = chain.height
      /\ SeenStore' = store /\ SeenHeight' = chain.height
  BY <1>1, <1>3, <1>4 DEF SeenStore, SeenHeight, Tentative
<1>6. LedgerStep /\ Grows
  BY <1>5, Stutters DEF SameIn
<1>7. Admitted'
  BY <1>3 DEF Admitted, Undecided
<1>8. Progress'
  BY <1>2, <1>3, <1>4 DEF Progress
<1>9. QED  BY <1>6, <1>7, <1>8

LEMMA AdmitLedger ==
    ASSUME LInv, AdmitTransaction
    PROVE  LedgerStep /\ Grows /\ Admitted' /\ Progress'
<1>1. IInv /\ Session /\ Framed /\ pc = "admit"
  BY DEF LInv, IInv, AdmitTransaction
<1>2. /\ pc' = "payload" /\ tx' = tx /\ UNCHANGED <<chain, mode, before, mirror>>
      /\ store' = PutStore(store, <<<<"epoch">>, Height>>, chain.epoch)
  BY DEF AdmitTransaction, chainVars, OpenDatabase
<1>3. SameIn(store, chain.height, store', chain.height)
  BY <1>1, <1>2, EpochWriteIsSame
<1>4. Admitted'
  <2>1. NonceOf = Nonces(store', chain.height) /\ BalanceOf = mirror
    BY <1>1, <1>3, WhatIsRead, MirrorIsRead DEF SameIn
  <2>2. IsSigned' => Ready(tx, NonceOf) /\ mirror[Payer(tx)] >= tx.fee
    BY <1>2, <2>1 DEF IsSigned, AdmitTransaction, SignedAdmitted, HasFunds
  <2>3. QED  BY <1>2, <2>1, <2>2 DEF Admitted
<1>5. QED  BY <1>1, <1>2, <1>3, <1>4, InsideStep

LEMMA RefuseLedger ==
    ASSUME LInv, RefuseTransaction
    PROVE  LedgerStep /\ Grows /\ Admitted' /\ Progress'
<1>1. IInv /\ pc = "admit" /\ ~result.included
  BY DEF LInv, Admitted, RefuseTransaction
<1>2. pc' = "finish" /\ result' = result /\ UNCHANGED <<chain, mode, before>>
  BY DEF RefuseTransaction, chainVars
<1>3. store' = store \/ store' = PutStore(store, <<<<"epoch">>, Height>>, chain.epoch)
  BY DEF RefuseTransaction, OpenDatabase, storeVars
<1>4. SameIn(store, chain.height, store', chain.height)
  BY <1>1, <1>3, EpochWriteIsSame DEF SameIn
<1>5. Admitted'
  BY <1>2 DEF Admitted
<1>6. QED  BY <1>1, <1>2, <1>4, <1>5, InsideStep

LEMMA UnexecutedLedger ==
    ASSUME LInv, NEW inclusion \in BOOLEAN, Unexecuted(inclusion)
    PROVE  LedgerStep /\ Grows /\ Admitted' /\ Progress'
<1> DEFINE charged == inclusion /\ NonceOf[tx.origin] # MaxNonce
           origin == tx.origin
           n == Nonces(store, chain.height)
           b == Balances(store, chain.height)
<1>1. IInv /\ Session /\ Framed /\ pc = "admit" /\ tx \in Signed \cup Calls
  BY DEF LInv, Unexecuted, IInv, Phases, Executing
<1>2. /\ origin \in Accounts /\ NonceOf = n /\ n \in [Accounts -> Nat] /\ b \in [Accounts -> Nat]
  BY <1>1, TransactionIs, WhatIsRead, ReadsAreNaturals, TipIsHeight DEF Session
<1>3. /\ store' = IF charged THEN PutStore(store, <<<<"nonce", origin>>, Height>>, n[origin] + 1)
                  ELSE store
      /\ result' = [included |-> charged, moved |-> 0] /\ pc' = "finish"
      /\ UNCHANGED <<chain, mode, before>>
  BY <1>2 DEF Unexecuted, IncrementNonce, chainVars
<1>4. result'.included = charged
  BY <1>3
<1>5. Admitted'
  BY <1>3 DEF Admitted
<1>6. CASE charged
  <2>1. /\ Balances(store', chain.height) = b /\ Held(store') = Held(store)
        /\ \A a \in Accounts : Nonces(store', chain.height)[a] =
              IF a = origin THEN n[origin] + 1 ELSE n[a]
    BY <1>1, <1>2, <1>3, <1>6, NonceWrite
  <2> DEFINE n2 == Nonces(store', chain.height)
  <2>2. n2 = [a \in Accounts |-> n2[a]]
    BY DEF Nonces
  <2> HIDE DEF n, b, n2, origin
  <2>3. n2 = [a \in Accounts |-> IF a \in {origin, origin} THEN n[a] + 1 ELSE n[a]]
    BY <2>1, <2>2 DEF n2
  <2>4. 0 \in 0..b[origin] /\ b = [b EXCEPT ![origin] = @ - 0] /\ \A a \in Accounts : b[a] >= 0
    BY <1>2
  <2>5. Taken(n, b, Held(store), n2, b, Held(store'))
    BY <2>1, <2>3, <2>4, <1>2 DEF Taken
  <2>6. TakenIn(store, chain.height, store', chain.height)
    BY <2>1, <2>5 DEF TakenIn, n, b, n2
  <2>7. QED  BY <1>1, <1>3, <1>4, <1>5, <1>6, <2>6, InsideStep
<1>7. CASE ~charged
  <2>1. SameIn(store, chain.height, store', chain.height)
    BY <1>3, <1>7 DEF SameIn
  <2>2. QED  BY <1>1, <1>3, <1>4, <1>5, <1>7, <2>1, InsideStep
<1>8. QED  BY <1>6, <1>7

\* The payload runs or fails: the frame alone changes.
LEMMA PayloadLedger ==
    ASSUME LInv, \/ TransferRuns \/ CallRuns \/ DeployRuns
                 \/ \E inclusion \in BOOLEAN : PayloadFails(inclusion)
    PROVE  LedgerStep /\ Grows /\ Admitted' /\ Progress'
<1>1. IInv /\ pc = "payload" /\ Executing /\ Framed
  BY DEF LInv, TransferRuns, CallRuns, DeployRuns, PayloadKept, PayloadFails, Executing, IInv
<1>2. /\ pc' = "settle" /\ tx' = tx /\ UNCHANGED <<chain, mode, before, mirror, store>>
      /\ \/ result'.moved = 0
         \/ CanTransfer /\ result'.moved = tx.amount
  BY DEF TransferRuns, CallRuns, DeployRuns, PayloadKept, PayloadFails, chainVars, storeVars
<1>3. SameIn(store, chain.height, store', chain.height)
  BY <1>2 DEF SameIn
<1>4. Admitted'
  <2>1. /\ FeeTaken \in [Accounts -> Nat] /\ BalanceOf = FeeTaken /\ tx.origin \in Accounts
        /\ tx.amount \in Nat
    BY <1>1, FeeTakenType
  <2>2. FeeTaken' = FeeTaken /\ IsSigned' = IsSigned
    BY <1>2 DEF FeeTaken, IsSigned
  <2>3. CanTransfer => tx.to # tx.origin /\ tx.amount \in 1..FeeTaken[tx.origin]
    BY <2>1 DEF CanTransfer, HasFunds
  <2>4. QED  BY <1>1, <1>2, <2>2, <2>3 DEF LInv, Admitted
<1>5. QED  BY <1>1, <1>2, <1>3, <1>4, InsideStep

\* settle: the transaction is included in the ledger.
LEMMA SettledIsTaken ==
    ASSUME LInv, SettleIncluded
    PROVE  TakenIn(store, chain.height, store', chain.height)
<1> DEFINE n == Nonces(store, chain.height)
           b == Balances(store, chain.height)
           n2 == Nonces(store', chain.height)
           b2 == Balances(store', chain.height)
           origin == tx.origin
           payer == IF IsSigned THEN Payer(tx) ELSE tx.origin
           fee == IF IsSigned THEN tx.fee ELSE 0
           charged == [b EXCEPT ![payer] = @ - fee]
<1>1. /\ IInv /\ Session /\ Framed /\ pc = "settle" /\ tx \in Signed \cup Calls
      /\ result.moved \in Nat /\ IInv' /\ Session'
  BY SettleIncludedStep DEF LInv, IInv, SettleIncluded, Phases, Executing, Control
<1>2. /\ n \in [Accounts -> Nat] /\ b \in [Accounts -> Nat] /\ NonceOf = n /\ b = mirror
      /\ origin \in Accounts /\ payer \in Accounts /\ tx.to \in Accounts /\ fee \in Nat
      /\ Height = chain.height
  BY <1>1, TransactionIs, WhatIsRead, ReadsAreNaturals, TipIsHeight, HeightIsTip DEF Session
<1>3. /\ Charged \in [Keys -> Nat \cup {Absent}]
      /\ store' = CommitStore(store, Charged, chain.height) /\ chain' = chain
  BY <1>1, <1>2, ChargedIs DEF SettleIncluded, chainVars
<1>4. /\ b2 = Through(Charged, store, chain.height) /\ Held(store) \subseteq Held(store')
      /\ \A a \in Accounts : n2[a] = IF Charged[<<"nonce", a>>] # Absent
                                     THEN Charged[<<"nonce", a>>] ELSE n[a]
  BY <1>1, <1>3, CommitBalances
<1>5. n2 = [a \in Accounts |-> IF a \in {origin, payer} THEN n[a] + 1 ELSE n[a]]
  <2>1. ASSUME NEW a \in Accounts
        PROVE  Charged[<<"nonce", a>>] = IF a \in {origin, payer} THEN n[a] + 1 ELSE Absent
    <3>1. CASE IsSigned
      <4>1. Ready(tx, n)
        BY <1>1, <3>1 DEF LInv, Admitted
      <4>2. /\ n[origin] = tx.nonce
            /\ Payer(tx) # tx.origin => n[Payer(tx)] = tx.sponsorNonce
        BY <4>1 DEF Ready, Payer
      <4>3. QED  BY <1>1, <3>1, <4>2, ChargedIs
    <3>2. CASE ~IsSigned
      BY <1>1, <1>2, <3>2, ChargedIs
    <3>3. QED  BY <3>1, <3>2
  <2>2. \A a \in Accounts : n[a] + 1 # Absent
    BY <1>2, ChainAssumption
  <2>3. n2 = [a \in Accounts |-> n2[a]]
    BY DEF Nonces
  <2> HIDE DEF n, n2, origin, payer
  <2>4. QED  BY <1>4, <2>1, <2>2, <2>3
<1>6. charged = FeeTaken
  <2>1. CASE IsSigned
    BY <2>1, <1>2 DEF FeeTaken
  <2>2. CASE ~IsSigned
    <3>1. charged = b
      BY <2>2, <1>2
    <3>2. QED  BY <2>2, <3>1, <1>2 DEF FeeTaken
  <2>3. QED  BY <2>1, <2>2
<1>7. fee \in 0..b[payer]
  BY <1>1, <1>2 DEF LInv, Admitted
<1>8. charged \in [Accounts -> Nat]
  BY <1>2, <1>7
<1>9. b2 = ProcessEvents(charged, origin, tx.to, result.moved)
  BY <1>1, <1>4, <1>6, ChargedIs DEF Framed
<1>10. b2 \in [Accounts -> Nat]
  BY <1>1, <1>3, ReadsAreNaturals, TipIsHeight DEF Session
<1>11. \/ b2 = charged
       \/ \E to \in Accounts \ {origin} : \E amount \in 1..charged[origin] :
             b2 = [charged EXCEPT ![origin] = @ - amount, ![to] = @ + amount]
  <2>1. CASE result.moved = 0
    BY <2>1, <1>9 DEF ProcessEvents
  <2>2. CASE result.moved # 0
    <3>1. tx.to # origin /\ result.moved \in 1..charged[origin]
      BY <2>2, <1>1, <1>6 DEF LInv, Admitted
    <3> DEFINE to == tx.to
               moved == result.moved
    <3>2. /\ to \in Accounts \ {origin} /\ moved \in 1..charged[origin] /\ moved \in Nat
          /\ b2 = ProcessEvents(charged, origin, to, moved) /\ charged \in [Accounts -> Nat]
          /\ origin \in Accounts
      BY <3>1, <1>1, <1>2, <1>8, <1>9
    <3> HIDE DEF charged, b2, origin, to, moved
    <3>3. b2 = [charged EXCEPT ![origin] = @ - moved, ![to] = @ + moved]
      BY <3>2, EventsMove
    <3>4. QED  BY <3>2, <3>3
  <2>3. QED  BY <2>1, <2>2
<1>12. Taken(n, b, Held(store), n2, b2, Held(store'))
  <2> HIDE DEF n, b, n2, b2, origin, payer, fee
  <2>1. \A a \in Accounts : b2[a] >= 0
    BY <1>10
  <2>2. /\ n2 = [a \in Accounts |-> IF a \in {origin, payer} THEN n[a] + 1 ELSE n[a]]
        /\ LET charge == [b EXCEPT ![payer] = @ - fee]
           IN  \/ b2 = charge
               \/ \E to \in Accounts \ {origin} : \E amount \in 1..charge[origin] :
                     b2 = [charge EXCEPT ![origin] = @ - amount, ![to] = @ + amount]
        /\ \A a \in Accounts : b2[a] >= 0
        /\ Held(store) \subseteq Held(store')
    BY <1>4, <1>5, <1>11, <2>1
  <2>3. origin \in Accounts /\ payer \in Accounts /\ fee \in 0..b[payer]
    BY <1>2, <1>7
  <2>4. QED  BY <2>2, <2>3, Zenon DEF Taken
<1>13. QED  BY <1>12 DEF TakenIn

LEMMA SettleLedger ==
    ASSUME LInv, SettleIncluded \/ SettleRejected
    PROVE  LedgerStep /\ Grows /\ Admitted' /\ Progress'
<1>1. pc = "settle" /\ pc' = "finish" /\ UNCHANGED <<chain, mode, before>>
  BY DEF SettleIncluded, SettleRejected, chainVars
<1>2. Admitted'
  BY <1>1 DEF Admitted
<1>3. CASE SettleIncluded
  <2>1. TakenIn(store, chain.height, store', chain.height) /\ result'.included
    BY <1>3, SettledIsTaken DEF SettleIncluded
  <2>2. QED  BY <1>1, <1>2, <2>1, InsideStep
<1>4. CASE SettleRejected
  <2>1. SameIn(store, chain.height, store', chain.height) /\ ~result'.included
    BY <1>4 DEF SettleRejected, SameIn, storeVars, Undecided
  <2>2. QED  BY <1>1, <1>2, <2>1, InsideStep
<1>5. QED  BY <1>3, <1>4

\* A tentative block ends: it is a transaction with a block of its own, or never
\* was.
LEMMA FinishTentativeLedger ==
    ASSUME LInv, FinishTentativeBlock
    PROVE  LedgerStep /\ Grows /\ Admitted' /\ Progress'
<1>1. IInv /\ mode = "tentative" /\ pc = "finish" /\ mode' = "none" /\ pc' = "idle"
  BY DEF LInv, FinishTentativeBlock
<1>2. /\ SeenStore = before.store /\ SeenHeight = before.chain.height
      /\ SeenStore' = store' /\ SeenHeight' = chain'.height
  BY <1>1 DEF SeenStore, SeenHeight, Tentative
<1>3. Admitted' /\ Progress'
  BY <1>1 DEF Admitted, Progress
<1>4. CASE result.included
  <2>1. store' = store /\ chain' = chain
    BY <1>4 DEF FinishTentativeBlock
  <2>2. chain.height = before.chain.height + 1
    BY <1>1, NextChainOK DEF IInv, Undoable
  <2>3. TakenIn(before.store, before.chain.height, store, chain.height)
    BY <1>1, <1>4 DEF LInv, Progress
  <2>4. QED  BY <1>2, <1>3, <2>1, <2>2, <2>3, IsTransaction
<1>5. CASE ~result.included
  <2>1. store' = before.store /\ chain' = before.chain
    BY <1>1, <1>5, TentativeIsUndone DEF FinishTentativeBlock
  <2>2. QED  BY <1>2, <1>3, <2>1, Stutters DEF SameIn
<1>6. QED  BY <1>4, <1>5

-----------------------------------------------------------------------------
LEMMA LedgerNext == LInv /\ [Next]_vars => LedgerStep /\ (Grows \/ InitSession) /\ LInv'
<1> SUFFICES ASSUME LInv, [Next]_vars
             PROVE  LedgerStep /\ (Grows \/ InitSession) /\ Admitted' /\ Progress'
  BY NextOK DEF LInv
<1>0. IInv
  BY DEF LInv
<1>1. CASE Command
  BY <1>0, <1>1, BlockLedger, SetEpochLedger, AdjustLedger DEF Command
<1>2. CASE CallReadOnlyFn \/ DrainQueue \/ QueueDrained \/ EndBlock \/ FinishTransaction
           \/ \E t \in Signed \cup Calls : ExecuteListed(t)
  BY <1>0, <1>2, QuietLedger
<1>3. CASE InitSession \/ MineBlock
  BY <1>0, <1>3, InitSessionLedger, BlockLedger
<1>4. CASE \E t \in Signed : SubmitTransaction(t) \/ BroadcastTransaction(t)
  BY <1>0, <1>4, QuietLedger, BroadcastLedger
<1>5. CASE \E t \in Calls : CallFn(t) \/ TransferStx(t) \/ DeployContract(t)
  BY <1>0, <1>5, BlockLedger DEF CallFn, TransferStx, DeployContract
<1>6. CASE AdmitTransaction \/ RefuseTransaction
  BY <1>6, AdmitLedger, RefuseLedger
<1>7. CASE \E inclusion \in BOOLEAN :
             FailBeforeExecution(inclusion) \/ PreflightRejection(inclusion)
             \/ PayloadFails(inclusion)
  BY <1>7, UnexecutedLedger, PayloadLedger DEF FailBeforeExecution, PreflightRejection
<1>8. CASE TransferRuns \/ CallRuns \/ DeployRuns
  BY <1>8, PayloadLedger
<1>9. CASE SettleIncluded \/ SettleRejected \/ FinishTentativeBlock
  BY <1>9, SettleLedger, FinishTentativeLedger
<1>10. CASE UNCHANGED vars
  <2>1. UNCHANGED <<SeenStore, SeenHeight, Admitted, Progress>>
    BY <1>10 DEF vars, SeenStore, SeenHeight, Tentative, Admitted, Progress, IsSigned, FeeTaken
  <2>2. LedgerStep /\ Grows
    BY <2>1, Stutters DEF SameIn
  <2>3. QED  BY <2>1, <2>2 DEF LInv
<1>11. QED  BY <1>1, <1>2, <1>3, <1>4, <1>5, <1>6, <1>7, <1>8, <1>9, <1>10 DEF Next

LEMMA LedgerInit == Init => Ledger!Init /\ LInv
<1> SUFFICES ASSUME Init PROVE Ledger!Init /\ LInv
  OBVIOUS
<1>1. mode = "none" /\ pc = "idle" /\ store = GenesisStore /\ chain = GenesisChain
  BY DEF Init
<1>2. SeenStore = GenesisStore /\ SeenHeight = 0
  BY <1>1, GenesisOK DEF SeenStore, SeenHeight, Tentative
<1>3. Ledger!Init
  BY <1>2, GenesisOK, GenesisHeld DEF Ledger!Init, Nonces, Balances, Held
<1>4. QED  BY <1>1, <1>3, InitOK DEF LInv, Admitted, Progress

\* A session refines a ledger that changes one included transaction at a time: a
\* transaction takes its nonces, its fee and what it moves at once, with or
\* without a block of its own, and a rejected one was never there.
THEOREM SessionIsLedger == Spec => IsLedger
<1>1. LInv /\ [Next]_vars => [Ledger!Next]_(Ledger!ledger)
  BY LedgerNext DEF LedgerStep
<1>2. Spec => []LInv
  BY LedgerInit, LedgerNext, PTL DEF Spec
<1>3. QED  BY <1>1, <1>2, LedgerInit, PTL DEF Spec, IsLedger, Ledger!Spec

-----------------------------------------------------------------------------
\* The rounds of a topological sort: in each what has its prerequisites.
Sorts(f, D, N, P) ==
    /\ f \in [0..N -> SUBSET D] /\ f[0] = {}
    /\ \A k \in 1..N : f[k] = {i \in D : P[i] \subseteq f[k - 1]}

\* They are well defined.
LEMMA SortIsDefined ==
    ASSUME NEW D, NEW N \in Nat, NEW P
    PROVE  \E f : Sorts(f, D, N, P)
<1> DEFINE Good(n, g) == /\ g \in [0..n -> SUBSET D] /\ g[0] = {}
                         /\ \A k \in 1..n : g[k] = {i \in D : P[i] \subseteq g[k - 1]}
           Bad == {n \in 0..N : ~\E g : Good(n, g)}
<1>1. Bad = {}
  <2> SUFFICES ASSUME Bad # {} PROVE FALSE
    OBVIOUS
  <2>1. Bad \in SUBSET Nat
    OBVIOUS
  <2> HIDE DEF Bad
  <2>2. PICK m \in Bad : \A n \in Bad : m <= n
    BY <2>1, LeastNatural
  <2> USE DEF Bad
  <2>3. CASE m = 0
    <3>1. Good(0, [k \in 0..0 |-> {}])
      OBVIOUS
    <3>2. QED  BY <2>3, <3>1
  <2>4. CASE m # 0
    <3>1. m \in Nat /\ m - 1 \in 0..N /\ ~(m <= m - 1)
      BY <2>4
    <3>2. PICK g : Good(m - 1, g)
      BY <3>1, <2>2
    <3> DEFINE h == [k \in 0..m |-> IF k = m THEN {i \in D : P[i] \subseteq g[m - 1]} ELSE g[k]]
    <3>3. h \in [0..m -> SUBSET D] /\ h[0] = {}
      BY <3>1, <3>2, <2>4
    <3>4. ASSUME NEW k \in 1..m PROVE h[k] = {i \in D : P[i] \subseteq h[k - 1]}
      <4>1. h[k - 1] = g[k - 1]
        BY <3>1
      <4>2. CASE k = m
        BY <3>1, <4>1, <4>2
      <4>3. CASE k # m
        <5>1. k \in 1..(m - 1) /\ h[k] = g[k]
          BY <3>1, <4>3
        <5>2. QED  BY <3>2, <4>1, <5>1
      <4>4. QED  BY <4>2, <4>3
    <3>5. Good(m, h)
      BY <3>3, <3>4
    <3> HIDE DEF h
    <3>6. QED  BY <3>5
  <2>5. QED  BY <2>3, <2>4
<1>2. PICK g : Good(N, g)
  <2>1. N \in 0..N
    OBVIOUS
  <2> HIDE DEF Good
  <2>2. QED  BY <1>1, <2>1, Zenon
<1>3. QED  BY <1>2 DEF Sorts

\* A sort that visits everything gives an order: what is visited in fewer rounds
\* comes first.
LEMMA SortIsOrder ==
    ASSUME NEW D, NEW N \in Nat, NEW P, NEW visited, Sorts(visited, D, N, P), visited[N] = D
    PROVE  \E rank \in [D -> Nat] : \A i, j \in D : j \in P[i] => rank[j] < rank[i]
<1>1. visited[0] = {} /\ \A n \in 1..N : visited[n] = {i \in D : P[i] \subseteq visited[n - 1]}
  BY DEF Sorts
<1> DEFINE When(i) == {n \in 0..N : i \in visited[n]}
           Least(i) == CHOOSE n \in When(i) : \A k \in When(i) : n <= k
           rank == [i \in D |-> Least(i)]
<1>2. ASSUME NEW i \in D
      PROVE  Least(i) \in When(i) /\ Least(i) \in Nat /\ \A k \in When(i) : Least(i) <= k
  <2>1. N \in When(i) /\ When(i) \in SUBSET Nat
    OBVIOUS
  <2> HIDE DEF When
  <2>2. \E n \in When(i) : \A k \in When(i) : n <= k
    BY <2>1, LeastNatural
  <2>3. Least(i) \in When(i) /\ \A k \in When(i) : Least(i) <= k
    BY <2>2, Zenon
  <2> HIDE DEF Least
  <2>4. QED  BY <2>1, <2>3
<1> HIDE DEF Least
<1>3. /\ rank \in [D -> Nat]
      /\ \A i \in D : rank[i] \in When(i) /\ \A k \in When(i) : rank[i] <= k
  BY <1>2
<1> HIDE DEF rank
<1>4. ASSUME NEW i \in D, NEW j \in D, j \in P[i] PROVE rank[j] < rank[i]
  <2>1. rank[i] \in 0..N /\ i \in visited[rank[i]]
    BY <1>3
  <2>2. rank[i] # 0
    BY <1>1, <2>1
  <2>3. rank[i] \in 1..N /\ rank[i] - 1 \in 0..N
    BY <2>1, <2>2
  <2>4. j \in visited[rank[i] - 1]
    <3>1. visited[rank[i]] = {k \in D : P[k] \subseteq visited[rank[i] - 1]}
      BY <1>1, <2>3
    <3>2. QED  BY <1>4, <2>1, <3>1
  <2>5. rank[j] <= rank[i] - 1
    BY <1>3, <2>3, <2>4
  <2>6. QED  BY <1>3, <2>1, <2>5
<1>5. QED  BY <1>3, <1>4

-----------------------------------------------------------------------------
\* No nonce is reserved twice, and the transactions that can still run are ranked
\* such that of two with consecutive nonces of an account the first comes first.
Distinct(q) ==
    \A i, j \in DOMAIN q : i # j =>
        \A a \in Signers(q[i]) : \A n \in 0..MaxNonce :
            ~(Reserves(q[i], a, n) /\ Reserves(q[j], a, n))

Ranked(q, nonceOf, rank) ==
    \A i, j \in DOMAIN q : \A a \in Accounts : \A n \in Nat :
        /\ ~Stale(q[i], nonceOf) /\ ~Stale(q[j], nonceOf)
        /\ Reserves(q[i], a, n + 1) /\ Reserves(q[j], a, n)
        => rank[j] < rank[i]

Ordered(q, nonceOf) == \E rank \in [DOMAIN q -> Nat] : Ranked(q, nonceOf, rank)

QueueOK == Distinct(queue) /\ Ordered(queue, Nonces(SeenStore, SeenHeight))

\* What is stale stays stale while nonces grow.
LEMMA StaleStays ==
    ASSUME NEW t \in Signed, NEW n \in [Accounts -> Nat], NEW m \in [Accounts -> Nat],
           \A a \in Accounts : m[a] \in {n[a], n[a] + 1}, Stale(t, n)
    PROVE  Stale(t, m)
<1>1. /\ t.origin \in Accounts /\ t.nonce \in Nat /\ t.sponsorNonce \in Nat
      /\ t.sponsor # NoSponsor => t.sponsor \in Accounts
  BY TransactionIs
<1>2. QED  BY <1>1 DEF Stale

LEMMA OrderStays ==
    ASSUME NEW q \in Seq(Signed), NEW n \in [Accounts -> Nat], NEW m \in [Accounts -> Nat],
           \A a \in Accounts : m[a] \in {n[a], n[a] + 1}, Ordered(q, n)
    PROVE  Ordered(q, m)
<1>1. \A i \in DOMAIN q : Stale(q[i], n) => Stale(q[i], m)
  BY StaleStays
<1>2. QED  BY <1>1 DEF Ordered, Ranked

\* next_mempool_transaction takes one out; the others keep their order.
LEMMA TakenOut ==
    ASSUME NEW q \in Seq(Signed), NEW i \in DOMAIN q, NEW nonceOf, Distinct(q), Ordered(q, nonceOf)
    PROVE  Distinct(Without(q, i)) /\ Ordered(Without(q, i), nonceOf)
<1> DEFINE w == Without(q, i)
           old == [j \in DOMAIN w |-> IF j < i THEN j ELSE j + 1]
<1>1. /\ DOMAIN w \in SUBSET Nat /\ old \in [DOMAIN w -> DOMAIN q]
      /\ \A j \in DOMAIN w : w[j] = q[old[j]]
      /\ \A j, k \in DOMAIN w : j # k => old[j] # old[k]
  <2>1. i \in 1..Len(q) /\ Len(q) \in Nat /\ DOMAIN q = 1..Len(q)
    OBVIOUS
  <2>2. DOMAIN w = 1..(Len(q) - 1)
    BY DEF Without
  <2>3. \A j \in DOMAIN w : w[j] = q[old[j]]
    BY <2>1, <2>2 DEF Without
  <2>4. QED  BY <2>1, <2>2, <2>3
<1> HIDE DEF w, old
<1>2. Distinct(w)
  BY <1>1 DEF Distinct
<1>3. Ordered(w, nonceOf)
  <2>1. PICK rank \in [DOMAIN q -> Nat] : Ranked(q, nonceOf, rank)
    BY DEF Ordered
  <2> DEFINE r == [j \in DOMAIN w |-> rank[old[j]]]
  <2>2. r \in [DOMAIN w -> Nat] /\ \A j \in DOMAIN w : r[j] = rank[old[j]]
    BY <1>1
  <2> HIDE DEF r
  <2>3. Ranked(w, nonceOf, r)
    BY <1>1, <2>1, <2>2 DEF Ranked
  <2>4. QED  BY <2>2, <2>3 DEF Ordered
<1>4. QED  BY <1>2, <1>3 DEF w

\* submit_transaction: an admitted transaction reserves nonces of its own, and
\* check_nonce_dependencies leaves an order.
LEMMA Submitted ==
    ASSUME NEW q \in Seq(Signed), NEW t \in Signed, NEW nonceOf, NEW balanceOf, NEW deployed,
           Distinct(q), Ordered(q, nonceOf)
    PROVE  LET r == Submit(t, q, nonceOf, balanceOf, deployed)
           IN  Distinct(r) /\ Ordered(r, nonceOf)
<1> SUFFICES ASSUME Admissible(t, q, nonceOf, balanceOf, deployed)
             PROVE  Distinct(Append(q, t)) /\ Ordered(Append(q, t), nonceOf)
  BY DEF Submit
<1> DEFINE txs == Append(q, t)
           N == Len(txs)
<1>1. /\ t.origin \in Accounts /\ t.nonce \in 0..MaxNonce /\ t.sponsorNonce \in 0..MaxNonce
      /\ t.sponsor # NoSponsor => t.sponsor \in Accounts
      /\ t.sponsor = t.origin => t.nonce = t.sponsorNonce
  BY SimnetAssumption DEF Transaction, Admissible
<1>2. /\ txs \in Seq(Signed) /\ N \in Nat /\ DOMAIN txs = 1..N /\ N = Len(q) + 1 /\ txs[N] = t
      /\ \A i \in DOMAIN txs : i # N => i \in DOMAIN q /\ txs[i] = q[i]
      /\ DOMAIN q = 1..Len(q)
  OBVIOUS
<1>3. \A i \in DOMAIN q : \A a \in Accounts : \A n \in 0..MaxNonce :
         ~(Reserves(t, a, n) /\ Reserves(q[i], a, n))
  BY <1>1, MempoolAssumption DEF Admissible, NonceAdmissible, Reserves
<1>4. \A i \in DOMAIN q : Signers(q[i]) \subseteq Accounts
  BY TransactionIs DEF Signers
<1>5. Signers(t) \subseteq Accounts
  BY <1>1 DEF Signers
<1> HIDE DEF txs, N
<1>6. Distinct(txs)
  <2> SUFFICES ASSUME NEW i \in DOMAIN txs, NEW j \in DOMAIN txs, i # j, NEW a \in Signers(txs[i]),
                      NEW n \in 0..MaxNonce, Reserves(txs[i], a, n), Reserves(txs[j], a, n)
               PROVE  FALSE
    BY DEF Distinct
  <2>1. CASE i = N
    BY <2>1, <1>2, <1>3, <1>5
  <2>2. CASE j = N
    <3>1. i \in DOMAIN q /\ txs[i] = q[i] /\ a \in Accounts
      BY <2>2, <1>2, <1>4
    <3>2. QED  BY <2>2, <3>1, <1>2, <1>3
  <2>3. CASE i # N /\ j # N
    BY <2>3, <1>2 DEF Distinct
  <2>4. QED  BY <2>1, <2>2, <2>3
<1>7. Ordered(txs, nonceOf)
  <2>1. CASE q = <<>>
    <3>1. N = 1 /\ DOMAIN txs = {1} /\ txs[1] = t
      BY <2>1, <1>2
    <3>2. ASSUME NEW a \in Accounts, NEW n \in Nat, Reserves(t, a, n + 1), Reserves(t, a, n)
          PROVE  FALSE
      BY <3>2, <1>1 DEF Reserves
    <3>3. Ranked(txs, nonceOf, [i \in DOMAIN txs |-> 0])
      BY <3>1, <3>2 DEF Ranked
    <3>4. [i \in DOMAIN txs |-> 0] \in [DOMAIN txs -> Nat]
      OBVIOUS
    <3>5. QED  BY <3>3, <3>4 DEF Ordered
  <2>2. CASE q # <<>>
    <3> DEFINE D == DOMAIN txs
               P == [i \in D |-> Prerequisites(txs, nonceOf, i)]
               Rounds(g) == [n \in 0..N |-> IF n = 0 THEN {}
                        ELSE {i \in D : Prerequisites(txs, nonceOf, i) \subseteq g[n - 1]}]
               visited == CHOOSE g : g = Rounds(g)
    <3>1. visited[N] = D
      BY <2>2 DEF Admissible, NonceDependenciesHold, txs, N
    <3>2. N \in Nat /\ \A n \in 0..N : n = 0 \/ n \in 1..N
      BY <1>2
    <3>3. Sorts(visited, D, N, P)
      <4>1. PICK g : Sorts(g, D, N, P)
        <5> HIDE DEF P, D
        <5>1. QED  BY <3>2, SortIsDefined, Zenon
      <4>2. \A i \in D : P[i] = Prerequisites(txs, nonceOf, i)
        OBVIOUS
      <4> HIDE DEF P, D
      <4>3. \A k \in 1..N : g[k] = {i \in D : Prerequisites(txs, nonceOf, i) \subseteq g[k - 1]}
        BY <4>1, <4>2 DEF Sorts
      <4>4. g = Rounds(g)
        BY <3>2, <4>1, <4>3 DEF Sorts
      <4>5. visited = Rounds(visited)
        <5> HIDE DEF Rounds
        <5>1. QED  BY <4>4, Zenon
      <4> HIDE DEF visited
      <4>6. \A n \in 0..N : visited[n] = IF n = 0 THEN {}
                ELSE {i \in D : Prerequisites(txs, nonceOf, i) \subseteq visited[n - 1]}
        BY <4>5
      <4>7. visited \in [0..N -> SUBSET D]
        BY <4>5
      <4>8. visited[0] = {} /\ \A k \in 1..N : k \in 0..N /\ k # 0
        <5>1. 0 \in 0..N /\ \A k \in 1..N : k \in 0..N /\ k # 0
          BY <3>2
        <5>2. QED  BY <4>6, <5>1, Zenon
      <4>9. ASSUME NEW k \in 1..N PROVE visited[k] = {i \in D : P[i] \subseteq visited[k - 1]}
        <5>1. visited[k] = {i \in D : Prerequisites(txs, nonceOf, i) \subseteq visited[k - 1]}
          BY <4>6, <4>8, Zenon
        <5>2. QED  BY <4>2, <5>1
      <4>10. QED  BY <4>7, <4>8, <4>9 DEF Sorts
    <3> HIDE DEF visited, P
    <3>4. PICK rank \in [D -> Nat] : \A i, j \in D : j \in P[i] => rank[j] < rank[i]
      <4> HIDE DEF D
      <4>1. QED  BY <3>1, <3>2, <3>3, SortIsOrder, Zenon
    <3>5. \A i \in D : P[i] = Prerequisites(txs, nonceOf, i)
      BY DEF P
    <3>6. ASSUME NEW i \in D, NEW j \in D, NEW a \in Accounts, NEW n \in Nat,
                 ~Stale(txs[i], nonceOf), ~Stale(txs[j], nonceOf),
                 Reserves(txs[i], a, n + 1), Reserves(txs[j], a, n)
          PROVE  j \in Prerequisites(txs, nonceOf, i)
      <4>1. txs[i] \in Transaction /\ txs[j] \in Transaction
        BY <1>2, SimnetAssumption
      <4>2. n + 1 \in 0..MaxNonce /\ n \in 0..MaxNonce
        BY <3>6, <4>1 DEF Reserves, Transaction
      <4>3. \A k \in DOMAIN txs : \A l \in (n + 1)..((n + 1) - 1) :
                    Stale(txs[k], nonceOf) \/ ~Reserves(txs[k], a, l)
        OBVIOUS
      <4>4. n < n + 1
        OBVIOUS
      <4>5. QED  BY <3>6, <4>2, <4>3, <4>4 DEF Prerequisites
    <3>7. Ranked(txs, nonceOf, rank)
      BY <3>4, <3>5, <3>6 DEF Ranked
    <3>8. QED  BY <3>4, <3>7 DEF Ordered
  <2>3. QED  BY <2>1, <2>2
<1>8. QED  BY <1>6, <1>7 DEF txs

\* The first of the order is ready, unless a nonce before one of its own is
\* missing.
LEMMA FirstIsReady ==
    ASSUME NEW q \in Seq(Signed), q # <<>>, NEW nonceOf \in [Accounts -> Nat], Ordered(q, nonceOf),
           \A i \in DOMAIN q : \A a \in Accounts : \A n \in 0..MaxNonce :
              Reserves(q[i], a, n) =>
                  \A m \in nonceOf[a]..n : \E j \in DOMAIN q : Reserves(q[j], a, m)
    PROVE  Selectable(q, nonceOf) # {}
<1> SUFFICES ASSUME Selectable(q, nonceOf) = {} PROVE FALSE
  OBVIOUS
<1>1. \A i \in DOMAIN q : ~Ready(q[i], nonceOf) /\ ~Stale(q[i], nonceOf)
  BY DEF Selectable
<1>2. PICK rank \in [DOMAIN q -> Nat] : Ranked(q, nonceOf, rank)
  BY DEF Ordered
<1> DEFINE S == {rank[i] : i \in DOMAIN q}
<1>3. S \in SUBSET Nat /\ S # {}
  <2>1. 1 \in DOMAIN q
    OBVIOUS
  <2>2. QED  BY <1>2, <2>1
<1>4. PICK least \in S : \A r \in S : least <= r
  <2> HIDE DEF S
  <2>1. QED  BY <1>3, LeastNatural
<1>5. PICK i \in DOMAIN q : \A j \in DOMAIN q : ~(rank[j] < rank[i])
  <2>1. PICK i \in DOMAIN q : least = rank[i]
    BY <1>4
  <2>2. \A j \in DOMAIN q : rank[j] \in Nat /\ rank[i] <= rank[j]
    BY <1>2, <1>4, <2>1
  <2>3. QED  BY <1>2, <2>2
<1> DEFINE t == q[i]
<1>6. /\ t \in Signed /\ t.origin \in Accounts /\ t.nonce \in 0..MaxNonce
      /\ t.sponsorNonce \in 0..MaxNonce
      /\ t.sponsor # NoSponsor => t.sponsor \in Accounts
  <2>1. t \in Signed
    OBVIOUS
  <2> HIDE DEF t
  <2>2. QED  BY <2>1, SimnetAssumption DEF Transaction
<1>7. \E a \in Accounts : \E n \in 0..MaxNonce : Reserves(t, a, n) /\ n > nonceOf[a]
  <2>1. ~Ready(t, nonceOf) /\ ~Stale(t, nonceOf)
    BY <1>1
  <2> HIDE DEF t
  <2>2. CASE t.nonce # nonceOf[t.origin]
    BY <2>1, <2>2, <1>6 DEF Stale, Reserves
  <2>3. CASE t.sponsor # NoSponsor /\ t.sponsorNonce # nonceOf[t.sponsor]
    BY <2>1, <2>3, <1>6 DEF Stale, Reserves
  <2>4. QED  BY <2>1, <2>2, <2>3 DEF Ready
<1>8. PICK a \in Accounts, n \in 0..MaxNonce : Reserves(t, a, n) /\ n > nonceOf[a]
  BY <1>7
<1>9. n - 1 \in nonceOf[a]..n /\ n - 1 \in Nat /\ (n - 1) + 1 = n
  BY <1>8
<1>10. PICK j \in DOMAIN q : Reserves(q[j], a, n - 1)
  BY <1>8, <1>9
<1>11. rank[j] < rank[i]
  BY <1>1, <1>2, <1>8, <1>9, <1>10 DEF Ranked
<1>12. QED  BY <1>5, <1>11

-----------------------------------------------------------------------------
LEMMA SeenNonces == IInv => Nonces(SeenStore, SeenHeight) \in [Accounts -> Nat]
<1> SUFFICES ASSUME IInv PROVE Nonces(SeenStore, SeenHeight) \in [Accounts -> Nat]
  OBVIOUS
<1>1. CASE mode = "tentative"
  BY <1>1, ReadsAreNaturals, TipIsHeight DEF IInv, Undoable, SeenStore, SeenHeight, Tentative
<1>2. CASE mode # "tentative"
  BY <1>2, ReadsAreNaturals, TipIsHeight DEF IInv, Session, SeenStore, SeenHeight, Tentative
<1>3. QED  BY <1>1, <1>2

\* Between two operations the user sees what is read.
LEMMA IdleNonces ==
    ASSUME IInv, mode # "tentative"
    PROVE  NonceOf = Nonces(SeenStore, SeenHeight)
BY WhatIsRead, SeenOutside DEF IInv

LEMMA QueueNext == LInv /\ QueueOK /\ [Next]_vars => QueueOK'
<1>0. IInv' => (Nonces(SeenStore, SeenHeight) \in [Accounts -> Nat])'
  BY SeenNonces, PTL
<1> SUFFICES ASSUME LInv, QueueOK, [Next]_vars PROVE QueueOK'
  OBVIOUS
<1> DEFINE n == Nonces(SeenStore, SeenHeight)
           m == Nonces(SeenStore', SeenHeight')
<1>1. /\ IInv /\ IInv' /\ (Grows \/ InitSession) /\ queue \in Seq(Signed)
      /\ Distinct(queue) /\ Ordered(queue, n)
  BY LedgerNext DEF LInv, IInv, Control, QueueOK
<1>2. n \in [Accounts -> Nat] /\ m \in [Accounts -> Nat]
  BY <1>0, <1>1, SeenNonces
<1>3. CASE InitSession
  <2>1. queue' = <<>>
    BY <1>3 DEF InitSession, Fresh
  <2>2. DOMAIN queue' = {}
    BY <2>1
  <2>3. Distinct(queue')
    BY <2>2 DEF Distinct
  <2>4. Ordered(queue', m)
    <3>1. [i \in DOMAIN queue' |-> 0] \in [DOMAIN queue' -> Nat]
      OBVIOUS
    <3>2. Ranked(queue', m, [i \in DOMAIN queue' |-> 0])
      BY <2>2 DEF Ranked
    <3>3. QED  BY <3>1, <3>2 DEF Ordered
  <2>5. QED  BY <2>3, <2>4 DEF QueueOK
<1>4. CASE Grows
  <2>1. \A a \in Accounts : m[a] \in {n[a], n[a] + 1}
    BY <1>4 DEF Grows
  <2> HIDE DEF n, m
  <2>2. ASSUME Distinct(queue'), Ordered(queue', n), queue' \in Seq(Signed)
        PROVE  QueueOK'
    <3>1. Ordered(queue', m)
      BY <1>2, <2>1, <2>2, OrderStays
    <3>2. QED  BY <2>2, <3>1 DEF QueueOK, m
  <2>3. queue' \in Seq(Signed)
    BY <1>1 DEF IInv, Control
  <2>4. CASE UNCHANGED queue
    BY <1>1, <2>2, <2>3, <2>4
  <2>5. CASE \E t \in Signed : SubmitTransaction(t)
    <3>1. PICK t \in Signed : SubmitTransaction(t)
      BY <2>5
    <3>2. NonceOf = n
      BY <1>1, <3>1, IdleNonces DEF SubmitTransaction, IInv, Phases, n
    <3>3. queue' = Submit(t, queue, n, BalanceOf, Deployed)
      BY <3>1, <3>2 DEF SubmitTransaction
    <3>4. QED  BY <1>1, <3>3, <2>2, <2>3, Submitted
  <2>6. CASE DrainQueue
    <3>1. PICK i \in DOMAIN queue : queue' = Without(queue, i)
      BY <2>6 DEF DrainQueue
    <3>2. QED  BY <1>1, <3>1, <2>2, <2>3, TakenOut
  <2>7. CASE InitSession
    BY <1>3, <2>7
  <2>8. UNCHANGED queue \/ (\E t \in Signed : SubmitTransaction(t)) \/ DrainQueue \/ InitSession
    <3>1. CASE Command
      BY <3>1 DEF Command, MineEmptyBlock, SetEpoch, EvalSnippet, MintStx
    <3>2. CASE CallReadOnlyFn \/ MineBlock \/ QueueDrained \/ EndBlock \/ AdmitTransaction
               \/ RefuseTransaction
      BY <3>2 DEF CallReadOnlyFn, MineBlock, QueueDrained, EndBlock, AdmitTransaction,
                  RefuseTransaction
    <3>3. CASE \E t \in Signed : BroadcastTransaction(t)
      BY <3>3 DEF BroadcastTransaction
    <3>4. CASE \E t \in Calls : CallFn(t) \/ TransferStx(t) \/ DeployContract(t)
      BY <3>4 DEF CallFn, TransferStx, DeployContract, InNextBlock
    <3>5. CASE \E t \in Signed \cup Calls : ExecuteListed(t)
      BY <3>5 DEF ExecuteListed
    <3>6. CASE \E inclusion \in BOOLEAN :
                 FailBeforeExecution(inclusion) \/ PreflightRejection(inclusion)
                 \/ PayloadFails(inclusion)
      BY <3>6 DEF FailBeforeExecution, PreflightRejection, Unexecuted, PayloadFails
    <3>7. CASE TransferRuns \/ CallRuns \/ DeployRuns
      BY <3>7 DEF TransferRuns, CallRuns, DeployRuns, PayloadKept
    <3>8. CASE SettleIncluded \/ SettleRejected \/ FinishTransaction \/ FinishTentativeBlock
      BY <3>8 DEF SettleIncluded, SettleRejected, FinishTransaction, FinishTentativeBlock
    <3>9. CASE UNCHANGED vars
      BY <3>9 DEF vars
    <3>10. QED  BY <3>1, <3>2, <3>3, <3>4, <3>5, <3>6, <3>7, <3>8, <3>9 DEF Next
  <2>9. QED  BY <2>4, <2>5, <2>6, <2>7, <2>8
<1>5. QED  BY <1>1, <1>3, <1>4

\* The mempool never waits for itself: no nonce is reserved twice, and a queue
\* without a gap always has a transaction a block can take, however the accounts
\* sponsor each other (check_nonce_dependencies, next_mempool_transaction).
THEOREM MempoolIsLive == Spec => []QueueCanBeMined
<1>1. Init => QueueOK
  <2> SUFFICES ASSUME Init PROVE QueueOK
    OBVIOUS
  <2>1. DOMAIN queue = {}
    BY DEF Init
  <2>2. Distinct(queue)
    BY <2>1 DEF Distinct
  <2>3. [i \in DOMAIN queue |-> 0] \in [DOMAIN queue -> Nat]
    OBVIOUS
  <2>4. Ranked(queue, Nonces(SeenStore, SeenHeight), [i \in DOMAIN queue |-> 0])
    BY <2>1 DEF Ranked
  <2>5. QED  BY <2>2, <2>3, <2>4 DEF QueueOK, Ordered
<1>2. LInv /\ QueueOK => QueueCanBeMined
  <2> SUFFICES ASSUME LInv, QueueOK PROVE QueueCanBeMined
    OBVIOUS
  <2>1. \A i, j \in DOMAIN queue : i # j =>
           \A a \in Signers(queue[i]) : \A n \in 0..MaxNonce :
               ~(Reserves(queue[i], a, n) /\ Reserves(queue[j], a, n))
    BY DEF QueueOK, Distinct
  <2>2. ASSUME pc = "idle", queue # <<>>,
               \A i \in DOMAIN queue : \A a \in Accounts : \A n \in 0..MaxNonce :
                  Reserves(queue[i], a, n) =>
                      \A m \in NonceOf[a]..n : \E j \in DOMAIN queue : Reserves(queue[j], a, m)
        PROVE  Selectable(queue, NonceOf) # {}
    <3>1. IInv /\ mode # "tentative" /\ queue \in Seq(Signed)
      BY <2>2 DEF LInv, IInv, Phases, Executing, Control
    <3>2. Ordered(queue, NonceOf) /\ NonceOf \in [Accounts -> Nat]
      BY <3>1, IdleNonces, SeenNonces DEF QueueOK
    <3> HIDE DEF NonceOf
    <3>3. QED  BY <2>2, <3>1, <3>2, FirstIsReady
  <2>3. QED  BY <2>1, <2>2 DEF QueueCanBeMined
<1>3. Spec => []LInv
  BY LedgerInit, LedgerNext, PTL DEF Spec
<1>4. QED  BY <1>1, <1>2, <1>3, QueueNext, PTL DEF Spec
=============================================================================
