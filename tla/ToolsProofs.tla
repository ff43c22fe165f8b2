----------------------------- MODULE ToolsProofs ------------------------------
(***************************************************************************)
(* Proofs about the tools of gen1recomp: what `modkit translation` and     *)
(* `modkit pack` promise their users, for every set of texts, files and    *)
(* edits, and the manifests and an import of a ROM, for all checkouts and  *)
(* command lines.                                                          *)
(***************************************************************************)
EXTENDS ModKitTranslation, ModKitPack, RomImport, TLAPS

-----------------------------------------------------------------------------
(***************************************************************************)
(* modkit.                                                                 *)
(*                                                                         *)
(* A translation is kept because a run writes back what it read, and what  *)
(* is filled in meanwhile is not promised.  A package is clean because the *)
(* gate looked at the very files that are zipped, if nobody touched them.  *)
(***************************************************************************)

TranslationTypes ==
  /\ lang \in [Catalog -> SUBSET Line] /\ safe \in [Catalog -> SUBSET Key]
  /\ texts \in [Catalog -> SUBSET Key]
  /\ onDisk \subseteq Catalog /\ closed \subseteq onDisk /\ garbled \subseteq onDisk
  /\ hand \in [HandFile -> {"none", "torn", "made", "edited"}]
  /\ cmd \in [on : BOOLEAN, exists : BOOLEAN, todo : SUBSET (Catalog \cup HandFile),
              keys : [Catalog -> SUBSET Key], done : [Catalog -> SUBSET Key]]

\* What is safe stands in the catalog in the generator's own form, and the running
\* command has read it and has a line for it.
SafeIsRead ==
  \A c \in Catalog :
    /\ safe[c] \subseteq ReadCatalog(lang[c])
    /\ cmd.on => safe[c] \subseteq cmd.done[c] \cap cmd.keys[c]

Empty(k) == [key |-> k, form |-> "entry", done |-> FALSE]

\* What a running command has already written is whole; what it could not read has stopped it.
WrittenIsWhole ==
  cmd.on =>
    /\ garbled = {}
    /\ \A f \in HandFile \ cmd.todo : hand[f] # "none" /\ (hand[f] = "torn" => cmd.exists)
    /\ \A c \in Catalog \ cmd.todo :
         c \in closed /\ \A k \in cmd.done[c] \cap cmd.keys[c] : Empty(k) \notin lang[c]

\* A first run has no file of the author's before it.
FirstRunIsAlone == cmd.on /\ ~cmd.exists => \A f \in HandFile \cap cmd.todo : hand[f] = "none"

TranslationInv == TranslationTypes /\ SafeIsRead /\ WrittenIsWhole /\ FirstRunIsAlone

LEMMA TranslationInitInv == TranslationInit => TranslationInv
<1> SUFFICES ASSUME TranslationInit PROVE TranslationInv
  OBVIOUS
<1>1. KeysOf \in [Catalog -> SUBSET Key]
  BY DEF KeysOf, Catalog, Key
<1>2. TranslationTypes
  BY <1>1 DEF TranslationInit, TranslationTypes, Idle
<1>3. SafeIsRead /\ WrittenIsWhole /\ FirstRunIsAlone
  BY DEF TranslationInit, SafeIsRead, WrittenIsWhole, FirstRunIsAlone, Idle
<1> QED BY <1>2, <1>3 DEF TranslationInv

Entry(k) == [key |-> k, form |-> "entry", done |-> TRUE]

\* The line scan finds a translation exactly where its line is.
LEMMA ReadEntry ==
  ASSUME NEW file \in SUBSET Line, NEW k
  PROVE  k \in ReadCatalog(file) <=> Entry(k) \in file
<1>1. ASSUME NEW l \in file, l.form = "entry", l.done, l.key = k PROVE l = Entry(k)
  BY <1>1 DEF Line, Entry
<1>2. Entry(k).key = k /\ Entry(k).form = "entry" /\ Entry(k).done
  BY DEF Entry
<1> QED BY <1>1, <1>2 DEF ReadCatalog

\* What a command writes: lines of the catalog, every translation it has read whose key
\* has a line, and no such key empty.
LEMMA NewCatalogFacts ==
  ASSUME NEW keys \in SUBSET Key, NEW done \in SUBSET Key
  PROVE  /\ NewCatalog(keys, done) \subseteq Line
         /\ done \cap keys \subseteq ReadCatalog(NewCatalog(keys, done))
         /\ \A k \in done \cap keys : Empty(k) \notin NewCatalog(keys, done)
         /\ \A l \in NewCatalog(keys, done) : l.form \in {"entry", "parked"}
<1>1. CASE done = {}
  BY <1>1 DEF NewCatalog, CatalogFile, Line
<1>2. CASE done # {}
  <2>1. NewCatalog(keys, done) = MergeCatalog(keys, done)
    BY <1>2 DEF NewCatalog
  <2>2. MergeCatalog(keys, done) \subseteq Line
    <3>1. ASSUME NEW k \in keys PROVE [key |-> k, form |-> "entry", done |-> k \in done] \in Line
      <4>1. (k \in done) \in BOOLEAN
        OBVIOUS
      <4> QED BY <4>1 DEF Line
    <3>2. ASSUME NEW k \in done \ keys PROVE [key |-> k, form |-> "parked", done |-> TRUE] \in Line
      BY DEF Line
    <3> QED BY <3>1, <3>2 DEF MergeCatalog
  <2>3. ASSUME NEW k \in done \cap keys
        PROVE  Entry(k) \in MergeCatalog(keys, done) /\ Empty(k) \notin MergeCatalog(keys, done)
    BY <2>3 DEF MergeCatalog, Empty, Entry
  <2>4. done \cap keys \subseteq ReadCatalog(MergeCatalog(keys, done))
    BY <2>2, <2>3, ReadEntry
  <2>5. \A l \in MergeCatalog(keys, done) : l.form \in {"entry", "parked"}
    BY DEF MergeCatalog
  <2> QED BY <2>1, <2>2, <2>3, <2>4, <2>5
<1> QED BY <1>1, <1>2

\* Nobody reads a catalog in a step that only adds done lines and takes lines away, but
\* for those of the safe keys.
LEMMA CatalogEdited ==
  ASSUME TranslationInv, UNCHANGED <<onDisk, closed, garbled, hand, cmd, texts>>,
         NEW c \in Catalog, NEW file \in SUBSET Line, lang' = [lang EXCEPT ![c] = file],
         safe' \in [Catalog -> SUBSET Key],
         \A d \in Catalog \ {c} : safe'[d] = safe[d],
         safe'[c] \subseteq ReadCatalog(file),
         cmd.on => safe'[c] \subseteq safe[c],
         \A k \in Key : Empty(k) \in file => Empty(k) \in lang[c]
  PROVE  TranslationInv'
<1> USE DEF TranslationInv
<1>1. TranslationTypes'
  BY DEF TranslationTypes
<1>2. lang'[c] = file /\ \A d \in Catalog \ {c} : lang'[d] = lang[d]
  BY DEF TranslationTypes
<1>3. ASSUME NEW d \in Catalog
      PROVE  /\ safe'[d] \subseteq ReadCatalog(lang'[d])
             /\ cmd.on => safe'[d] \subseteq cmd.done[d] \cap cmd.keys[d]
  <2>1. CASE d = c
    BY <1>2, <2>1 DEF SafeIsRead
  <2>2. CASE d # c
    BY <1>2, <2>2 DEF SafeIsRead
  <2> QED BY <2>1, <2>2
<1>4. SafeIsRead'
  BY <1>3 DEF SafeIsRead
<1>5. WrittenIsWhole'
  <2> SUFFICES ASSUME cmd.on, NEW d \in Catalog \ cmd.todo, NEW k \in cmd.done[d] \cap cmd.keys[d]
               PROVE  Empty(k) \notin lang'[d]
    BY DEF WrittenIsWhole
  <2>1. k \in Key /\ Empty(k) \notin lang[d]
    BY DEF WrittenIsWhole, TranslationTypes
  <2> QED BY <1>2, <2>1
<1> QED BY <1>1, <1>4, <1>5 DEF FirstRunIsAlone

LEMMA TranslationStarts ==
  ASSUME TranslationInv, NEW refresh, Translation(refresh) PROVE TranslationInv'
<1> USE DEF TranslationInv
<1> DEFINE next == [on |-> TRUE, exists |-> Exists, keys |-> Vocabulary,
                    done |-> [c \in Catalog |-> ReadCatalog(lang[c])],
                    todo |-> Catalog \cup HandFile]
<1>1. cmd' = next /\ safe' = [c \in Catalog |-> safe[c] \cap Vocabulary[c]]
      /\ UNCHANGED <<translationFiles, texts>> /\ garbled = {}
  BY DEF Translation
<1>2. Exists \in BOOLEAN
  BY DEF Exists
<1>3. Vocabulary \in [Catalog -> SUBSET Key]
  <2>1. ASSUME NEW c \in Catalog
        PROVE  (IF c = "strings" THEN EngineStrings ELSE DatasetKeys(Base)) \in SUBSET Key
    <3>1. texts["strings"] \in SUBSET Key /\ texts["dialogue"] \in SUBSET Key
      BY DEF TranslationTypes, Catalog
    <3>2. FixtureKeys \in SUBSET Key
      BY KeysAreOrdered DEF Key
    <3> QED BY <3>1, <3>2 DEF EngineStrings, DatasetKeys
  <2> QED BY <2>1 DEF Vocabulary
<1>4. ASSUME NEW c \in Catalog PROVE ReadCatalog(lang[c]) \in SUBSET Key
  BY DEF TranslationTypes, ReadCatalog, Line
<1> HIDE DEF Exists, Vocabulary, ReadCatalog
<1>5. next \in [on : BOOLEAN, exists : BOOLEAN, todo : SUBSET (Catalog \cup HandFile),
                keys : [Catalog -> SUBSET Key], done : [Catalog -> SUBSET Key]]
  BY <1>2, <1>3, <1>4
<1>6. safe' \in [Catalog -> SUBSET Key]
  BY <1>1 DEF TranslationTypes
<1>7. TranslationTypes'
  BY <1>1, <1>5, <1>6 DEF TranslationTypes, translationFiles
<1>8. /\ cmd'.on /\ cmd'.exists = Exists /\ cmd'.keys = Vocabulary /\ cmd'.todo = Catalog \cup HandFile
      /\ \A c \in Catalog : cmd'.done[c] = ReadCatalog(lang[c])
  BY <1>1
<1> HIDE DEF next
<1>9. SafeIsRead'
  <2> SUFFICES ASSUME NEW c \in Catalog
               PROVE  /\ safe'[c] \subseteq ReadCatalog(lang'[c])
                      /\ safe'[c] \subseteq cmd'.done[c] \cap cmd'.keys[c]
    BY DEF SafeIsRead
  <2>1. safe'[c] = safe[c] \cap Vocabulary[c]
    BY <1>1
  <2> QED BY <1>1, <1>8, <2>1 DEF SafeIsRead, translationFiles
<1>10. WrittenIsWhole'
  BY <1>1, <1>8 DEF WrittenIsWhole, translationFiles
<1>11. FirstRunIsAlone'
  BY <1>1, <1>8 DEF FirstRunIsAlone, Exists, translationFiles
<1> QED BY <1>7, <1>9, <1>10, <1>11

LEMMA CatalogWritten ==
  ASSUME TranslationInv, NEW c \in Catalog, WriteCatalog(c) PROVE TranslationInv'
<1> USE DEF TranslationInv
<1> DEFINE file == NewCatalog(cmd.keys[c], cmd.done[c])
<1>1. /\ cmd.on /\ cmd' = [cmd EXCEPT !.todo = @ \ {c}] /\ lang' = [lang EXCEPT ![c] = file]
      /\ onDisk' = onDisk \cup {c} /\ closed' = closed \cup {c} /\ UNCHANGED <<safe, garbled, hand, texts>>
  BY DEF WriteCatalog, Turn, Did
<1>2. cmd.keys[c] \in SUBSET Key /\ cmd.done[c] \in SUBSET Key
  BY DEF TranslationTypes
<1>3. /\ file \subseteq Line
      /\ cmd.done[c] \cap cmd.keys[c] \subseteq ReadCatalog(file)
      /\ \A k \in cmd.done[c] \cap cmd.keys[c] : Empty(k) \notin file
  BY <1>2, NewCatalogFacts
<1> HIDE DEF file
<1>4. TranslationTypes'
  BY <1>1, <1>3 DEF TranslationTypes
<1>5. /\ lang'[c] = file /\ \A d \in Catalog \ {c} : lang'[d] = lang[d]
      /\ cmd'.on /\ cmd'.exists = cmd.exists /\ cmd'.keys = cmd.keys /\ cmd'.done = cmd.done
      /\ cmd'.todo = cmd.todo \ {c} /\ c \notin HandFile
  BY <1>1 DEF TranslationTypes, Catalog, HandFile
<1>6. SafeIsRead'
  <2> SUFFICES ASSUME NEW d \in Catalog
               PROVE  /\ safe[d] \subseteq ReadCatalog(lang'[d])
                      /\ safe[d] \subseteq cmd.done[d] \cap cmd.keys[d]
    BY <1>1, <1>5 DEF SafeIsRead
  <2>1. safe[d] \subseteq cmd.done[d] \cap cmd.keys[d] /\ safe[d] \subseteq ReadCatalog(lang[d])
    BY <1>1 DEF SafeIsRead
  <2>2. CASE d = c
    BY <1>3, <1>5, <2>1, <2>2
  <2>3. CASE d # c
    BY <1>5, <2>1, <2>3
  <2> QED BY <2>1, <2>2, <2>3
<1>7. WrittenIsWhole'
  <2>1. ASSUME NEW f \in HandFile \ cmd'.todo PROVE hand[f] # "none" /\ (hand[f] = "torn" => cmd.exists)
    BY <1>1, <1>5 DEF WrittenIsWhole
  <2>2. ASSUME NEW d \in Catalog \ cmd'.todo
        PROVE  d \in closed' /\ \A k \in cmd.done[d] \cap cmd.keys[d] : Empty(k) \notin lang'[d]
    <3>1. CASE d = c
      BY <1>1, <1>3, <1>5, <3>1
    <3>2. CASE d # c
      BY <1>1, <1>5, <3>2 DEF WrittenIsWhole
    <3> QED BY <3>1, <3>2
  <2> QED BY <1>1, <1>5, <2>1, <2>2 DEF WrittenIsWhole
<1>8. FirstRunIsAlone'
  BY <1>1, <1>5 DEF FirstRunIsAlone
<1> QED BY <1>4, <1>6, <1>7, <1>8

LEMMA FileEmitted ==
  ASSUME TranslationInv, NEW f \in HandFile, Emit(f)
  PROVE  TranslationInv' /\ (hand[f] = "edited" => hand'[f] = "edited")
<1> USE DEF TranslationInv
<1>1. /\ cmd.on /\ f \in cmd.todo /\ cmd' = [cmd EXCEPT !.todo = @ \ {f}]
      /\ hand' = [hand EXCEPT ![f] = Remade(hand[f])] /\ UNCHANGED <<safe, lang, onDisk, closed, garbled, texts>>
  BY DEF Emit, Turn, Did
<1>2. /\ Remade(hand[f]) \in {"torn", "made", "edited"} /\ (Remade(hand[f]) = "torn" => cmd.exists)
      /\ (hand[f] = "edited" => Remade(hand[f]) = "edited")
  BY <1>1 DEF Remade, TranslationTypes, FirstRunIsAlone
<1>3. /\ hand'[f] = Remade(hand[f]) /\ \A g \in HandFile \ {f} : hand'[g] = hand[g]
      /\ cmd'.on /\ cmd'.exists = cmd.exists /\ cmd'.keys = cmd.keys /\ cmd'.done = cmd.done
      /\ cmd'.todo = cmd.todo \ {f} /\ f \notin Catalog
  BY <1>1 DEF TranslationTypes, Catalog, HandFile
<1>4. TranslationTypes'
  BY <1>1, <1>2 DEF TranslationTypes
<1>5. SafeIsRead'
  BY <1>1, <1>3 DEF SafeIsRead
<1>6. WrittenIsWhole'
  BY <1>1, <1>2, <1>3 DEF WrittenIsWhole
<1>7. FirstRunIsAlone'
  BY <1>1, <1>3 DEF FirstRunIsAlone
<1> QED BY <1>2, <1>3, <1>4, <1>5, <1>6, <1>7

\* When no command runs, it is enough that what is safe is still there.
LEMMA CommandOver ==
  ASSUME TranslationInv, cmd' = Idle, UNCHANGED texts,
         hand' \in [HandFile -> {"none", "torn", "made", "edited"}],
         onDisk' \in SUBSET Catalog, closed' \subseteq onDisk', garbled' \subseteq onDisk', lang' \in [Catalog -> SUBSET Line],
         safe' \in [Catalog -> SUBSET Key],
         \A c \in Catalog : safe'[c] \subseteq ReadCatalog(lang'[c])
  PROVE  TranslationInv'
<1> USE DEF TranslationInv
<1>1. ~cmd'.on
  BY DEF Idle
<1>2. TranslationTypes'
  BY DEF TranslationTypes, Idle
<1> QED BY <1>1, <1>2 DEF SafeIsRead, WrittenIsWhole, FirstRunIsAlone

LEMMA CrashInv ==
  ASSUME TranslationInv, Crash
  PROVE  TranslationInv' /\ \A f \in HandFile : hand[f] = "edited" => hand'[f] = "edited"
<1> USE DEF TranslationInv
<1>1. cmd' = Idle /\ UNCHANGED texts
  BY DEF Crash
<1>2. CASE UNCHANGED <<translationFiles, safe>>
  BY <1>1, <1>2, CommandOver DEF SafeIsRead, TranslationTypes, translationFiles
<1>3. ASSUME NEW c \in Catalog, TearCatalog(c) PROVE TranslationInv' /\ UNCHANGED hand
  <2> DEFINE body == NewCatalog(cmd.keys[c], cmd.done[c])
  <2>1. cmd.keys[c] \in SUBSET Key /\ cmd.done[c] \in SUBSET Key
    BY DEF TranslationTypes
  <2>2. body \subseteq Line
    BY <2>1, NewCatalogFacts
  <2>3. PICK part \in WithoutBrace(body) \cup WithBrace(body) : lang' = [lang EXCEPT ![c] = part]
    BY <1>3 DEF TearCatalog
  <2>4. part \in SUBSET Line
    BY <2>2, <2>3 DEF WithoutBrace, WithBrace
  <2>5. /\ lang' \in [Catalog -> SUBSET Line] /\ \A d \in Catalog \ {c} : lang'[d] = lang[d]
        /\ safe' \in [Catalog -> SUBSET Key] /\ \A d \in Catalog \ {c} : safe'[d] = safe[d]
        /\ safe'[c] \subseteq ReadCatalog(lang'[c])
    BY <1>3, <2>3, <2>4 DEF TearCatalog, TranslationTypes
  <2>6. onDisk' \in SUBSET Catalog /\ closed' \subseteq onDisk' /\ garbled' \subseteq onDisk' /\ UNCHANGED hand
    BY <1>3 DEF TearCatalog, TranslationTypes
  <2>7. ASSUME NEW d \in Catalog PROVE safe'[d] \subseteq ReadCatalog(lang'[d])
    <3>1. CASE d = c
      BY <2>5, <3>1
    <3>2. CASE d # c
      BY <2>5, <3>2 DEF SafeIsRead
    <3> QED BY <3>1, <3>2
  <2>8. hand' \in [HandFile -> {"none", "torn", "made", "edited"}]
    BY <2>6 DEF TranslationTypes
  <2> QED BY <1>1, <2>5, <2>6, <2>7, <2>8, CommandOver
<1>4. ASSUME NEW f \in HandFile, TearFile(f)
      PROVE  TranslationInv' /\ \A g \in HandFile : hand[g] = "edited" => hand'[g] = "edited"
  <2>1. cmd.on /\ f \in cmd.todo /\ Remade(hand[f]) # hand[f] /\ hand' = [hand EXCEPT ![f] = "torn"]
        /\ UNCHANGED <<lang, onDisk, closed, garbled, safe>>
    BY <1>4 DEF TearFile, Turn
  <2>2. hand[f] # "edited"
    BY <2>1 DEF Remade, FirstRunIsAlone
  <2>3. hand' \in [HandFile -> {"none", "torn", "made", "edited"}] /\ \A g \in HandFile \ {f} : hand'[g] = hand[g]
    BY <2>1 DEF TranslationTypes
  <2>4. TranslationInv'
    BY <1>1, <2>1, <2>3, CommandOver DEF SafeIsRead, TranslationTypes
  <2> QED BY <2>2, <2>3, <2>4
<1> QED BY <1>2, <1>3, <1>4 DEF Crash, translationFiles

LEMMA FillInv ==
  ASSUME TranslationInv, NEW c \in Catalog, NEW k \in Key, NEW form \in {"entry", "other"},
         Fill(c, k, form)
  PROVE  TranslationInv'
<1> USE DEF TranslationInv
<1> DEFINE filled == [key |-> k, form |-> form, done |-> TRUE]
           file == (lang[c] \ {Empty(k)}) \cup {filled}
<1>1. /\ UNCHANGED <<onDisk, closed, garbled, hand, cmd, texts>>
      /\ lang' = [lang EXCEPT ![c] = file]
      /\ safe' = [safe EXCEPT ![c] = IF form = "entry" /\ ~cmd.on THEN @ \cup {k} ELSE @]
  BY DEF Fill, Empty
<1>2. filled \in Line /\ lang[c] \in SUBSET Line
  BY DEF Line, TranslationTypes
<1>3. file \in SUBSET Line
  BY <1>2
<1>4. ASSUME NEW l \in Key, Entry(l) \in lang[c] PROVE Entry(l) \in file
  BY <1>4 DEF Entry, Empty
<1>5. form = "entry" => Entry(k) \in file
  BY DEF Entry
<1>6. ASSUME NEW l \in Key, Empty(l) \in file PROVE Empty(l) \in lang[c]
  BY <1>6 DEF Empty
<1> HIDE DEF file
<1>7. /\ safe' \in [Catalog -> SUBSET Key] /\ \A d \in Catalog \ {c} : safe'[d] = safe[d]
      /\ safe'[c] = IF form = "entry" /\ ~cmd.on THEN safe[c] \cup {k} ELSE safe[c]
  BY <1>1 DEF TranslationTypes
<1>8. safe'[c] \subseteq ReadCatalog(file)
  <2>1. ASSUME NEW l \in safe[c] PROVE l \in ReadCatalog(file)
    <3>1. l \in Key /\ l \in ReadCatalog(lang[c])
      BY DEF SafeIsRead, TranslationTypes
    <3> QED BY <1>2, <1>3, <1>4, <3>1, ReadEntry
  <2>2. form = "entry" => k \in ReadCatalog(file)
    BY <1>3, <1>5, ReadEntry
  <2> QED BY <1>7, <2>1, <2>2
<1> QED BY <1>1, <1>3, <1>6, <1>7, <1>8, CatalogEdited

LEMMA RemoveInv ==
  ASSUME TranslationInv, NEW c \in Catalog, NEW k \in Key, Remove(c, k) PROVE TranslationInv'
<1> USE DEF TranslationInv
<1> DEFINE file == {l \in lang[c] : l.key # k}
<1>1. /\ UNCHANGED <<onDisk, closed, garbled, hand, cmd, texts>> /\ lang' = [lang EXCEPT ![c] = file]
      /\ safe' = [safe EXCEPT ![c] = @ \ {k}]
  BY DEF Remove
<1>2. file \in SUBSET Line /\ lang[c] \in SUBSET Line
  BY DEF TranslationTypes
<1>3. ASSUME NEW l \in Key \ {k}, Entry(l) \in lang[c] PROVE Entry(l) \in file
  BY <1>3 DEF Entry
<1>4. /\ safe' \in [Catalog -> SUBSET Key] /\ \A d \in Catalog \ {c} : safe'[d] = safe[d]
      /\ safe'[c] = safe[c] \ {k}
  BY <1>1 DEF TranslationTypes
<1>5. ASSUME NEW l \in safe'[c] PROVE l \in ReadCatalog(file)
  <2>1. l \in Key \ {k} /\ l \in ReadCatalog(lang[c])
    BY <1>4 DEF SafeIsRead, TranslationTypes
  <2> QED BY <1>2, <1>3, <2>1, ReadEntry
<1>6. \A l \in Key : Empty(l) \in file => Empty(l) \in lang[c]
  OBVIOUS
<1> HIDE DEF file
<1> QED BY <1>1, <1>2, <1>4, <1>5, <1>6, CatalogEdited

\* Every step keeps the invariant, and what was edited by hand.
LEMMA TranslationStepInv ==
  TranslationInv /\ [TranslationNext]_translationVars =>
    TranslationInv' /\ \A f \in HandFile : hand[f] = "edited" => hand'[f] = "edited"
<1> SUFFICES ASSUME TranslationInv, [TranslationNext]_translationVars
             PROVE  TranslationInv' /\ \A f \in HandFile : hand[f] = "edited" => hand'[f] = "edited"
  OBVIOUS
<1> USE DEF TranslationInv
<1>1. ASSUME NEW refresh \in BOOLEAN, Translation(refresh)
      PROVE  TranslationInv' /\ UNCHANGED hand
  BY <1>1, TranslationStarts DEF Translation, translationFiles
<1>2. ASSUME NEW c \in Catalog, WriteCatalog(c) PROVE TranslationInv' /\ UNCHANGED hand
  BY <1>2, CatalogWritten DEF WriteCatalog
<1>3. ASSUME NEW f \in HandFile, Emit(f)
      PROVE  TranslationInv' /\ \A g \in HandFile : hand[g] = "edited" => hand'[g] = "edited"
  <2>1. TranslationInv' /\ (hand[f] = "edited" => hand'[f] = "edited")
    BY <1>3, FileEmitted
  <2>2. \A g \in HandFile \ {f} : hand'[g] = hand[g]
    BY <1>3 DEF Emit, TranslationTypes
  <2> QED BY <2>1, <2>2
<1>4. CASE Finish
  BY <1>4, CommandOver DEF Finish, SafeIsRead, TranslationTypes, translationFiles
<1>5. CASE Crash
  BY <1>5, CrashInv
<1>6. ASSUME NEW c \in Catalog, NEW k \in Key, NEW form \in {"entry", "other"}, Fill(c, k, form)
      PROVE  TranslationInv' /\ UNCHANGED hand
  BY <1>6, FillInv DEF Fill
<1>7. ASSUME NEW c \in Catalog, NEW k \in Key, Remove(c, k)
      PROVE  TranslationInv' /\ UNCHANGED hand
  BY <1>7, RemoveInv DEF Remove
<1>8. ASSUME NEW f \in HandFile, EditByHand(f)
      PROVE  TranslationInv' /\ \A g \in HandFile : hand[g] = "edited" => hand'[g] = "edited"
  <2>1. /\ hand[f] \in {"made", "torn"} /\ hand' = [hand EXCEPT ![f] = "edited"]
        /\ UNCHANGED <<onDisk, closed, garbled, texts, lang, cmd, safe>>
    BY <1>8 DEF EditByHand
  <2>2. /\ hand' \in [HandFile -> {"none", "torn", "made", "edited"}] /\ hand'[f] = "edited"
        /\ \A g \in HandFile \ {f} : hand'[g] = hand[g]
    BY <2>1 DEF TranslationTypes
  <2>3. TranslationTypes' /\ SafeIsRead'
    BY <2>1, <2>2 DEF TranslationTypes, SafeIsRead
  <2>4. WrittenIsWhole' /\ FirstRunIsAlone'
    BY <2>1, <2>2 DEF WrittenIsWhole, FirstRunIsAlone
  <2> QED BY <2>2, <2>3, <2>4
<1>9. ASSUME texts' \in [Catalog -> SUBSET Key], UNCHANGED <<translationFiles, cmd, safe>>
      PROVE  TranslationInv' /\ UNCHANGED hand
  BY <1>9 DEF TranslationTypes, SafeIsRead, WrittenIsWhole, FirstRunIsAlone, translationFiles
<1>10. ASSUME NEW c \in Catalog, NEW k \in KeysOf[c], TextsChange(c, k)
       PROVE  TranslationInv' /\ UNCHANGED hand
  <2>1. k \in Key
    BY DEF KeysOf, Catalog, Key
  <2>2. texts' \in [Catalog -> SUBSET Key] /\ UNCHANGED <<translationFiles, cmd, safe>>
    BY <1>10, <2>1 DEF TextsChange, TranslationTypes
  <2> QED BY <1>9, <2>2
<1>11. CASE DatasetChanges
  BY <1>9, <1>11 DEF DatasetChanges, TranslationTypes
<1>12. CASE UNCHANGED translationVars
  BY <1>9, <1>12 DEF translationVars, TranslationTypes
<1>13. ASSUME NEW c \in Catalog, Mend(c) PROVE TranslationInv' /\ UNCHANGED hand
  BY <1>13 DEF Mend, TranslationTypes, SafeIsRead, WrittenIsWhole, FirstRunIsAlone
<1> QED BY <1>1, <1>2, <1>3, <1>4, <1>5, <1>6, <1>7, <1>8, <1>10, <1>11, <1>12, <1>13 DEF TranslationNext

-----------------------------------------------------------------------------
\* The inductive invariant of `modkit translation` holds for every set of texts.
THEOREM TranslationSafety == TranslationSpec => []TranslationInv
<1>1. TranslationInv /\ [TranslationNext]_translationVars => TranslationInv'
  BY TranslationStepInv
<1> QED BY <1>1, TranslationInitInv, PTL DEF TranslationSpec

\* "keeping every translation you have already written": through refreshes, changed texts,
\* edits and crashes, what was filled in before a run that knows its key, and was not cut
\* off, stands in the catalog where the next refresh reads it.
THEOREM TranslationsStay == TranslationSpec => []KnownWorkStays
<1>1. TranslationInv => KnownWorkStays
  BY DEF TranslationInv, SafeIsRead, KnownWorkStays
<1> QED BY <1>1, TranslationSafety, PTL

\* A command that has written its last file leaves a mod whose catalogs the game applies,
\* and that lacks nothing but what a kill before it has torn of the author's files.
THEOREM ScaffoldIsWhole == TranslationSpec => []FinishedIsWhole
<1>1. ASSUME TranslationInv, cmd.on, cmd.todo = {}, Loads, NEW c \in Catalog, NEW k \in safe[c]
      PROVE  k \in Applied(c)
  <2>1. c \in closed /\ k \in ReadCatalog(lang[c])
    BY <1>1 DEF TranslationInv, WrittenIsWhole, SafeIsRead
  <2>2. PICK l \in lang[c] : l.key = k /\ l.form = "entry" /\ l.done
    BY <2>1 DEF ReadCatalog
  <2> QED BY <1>1, <2>1, <2>2 DEF Applied
<1>2. TranslationInv => FinishedIsWhole
  BY <1>1 DEF TranslationInv, TranslationTypes, WrittenIsWhole, FinishedIsWhole, Empty
<1> QED BY <1>2, TranslationSafety, PTL

\* "A refresh must never clobber hand-edited prose or a tuned manifest".
THEOREM HandworkIsLeft == TranslationSpec => HandworkStays
<1>1. TranslationInv /\ [TranslationNext]_translationVars =>
        [\A f \in HandFile : hand[f] = "edited" => hand'[f] = "edited"]_translationVars
  BY TranslationStepInv
<1> QED BY <1>1, TranslationSafety, PTL DEF TranslationSpec, HandworkStays

-----------------------------------------------------------------------------
(* modkit pack.                                                            *)

JobType == [pass : {"none", "list", "hash", "zip"}, list : SUBSET Kind,
            hashed : [Kind -> 0..2], zipped : [Kind -> 0..2]]

PackTypes ==
  files \in [Kind -> 0..2] /\ job \in JobType /\ touched \in BOOLEAN

\* While nobody has touched the mod, the findings are still those of the check, and what
\* was listed and hashed is what is there.
JobIsCurrent ==
  ~touched =>
    /\ job.pass # "none" => PackFindings = {}
    /\ job.pass = "hash" => job.list = ModFiles
    /\ job.pass = "zip" => \A k \in Kind : job.hashed[k] = IF k \in ModFiles THEN files[k] ELSE 0

\* The archive grows to what was hashed.
ZipInStep ==
  job.pass = "zip" => \A k \in Kind :
    /\ job.hashed[k] > 0 <=> k \in job.list \/ job.zipped[k] > 0
    /\ ~touched /\ k \notin job.list => job.zipped[k] = job.hashed[k]

NothingZipped == job.pass \in {"list", "hash"} => \A k \in Kind : job.zipped[k] = 0

PackInv == PackTypes /\ JobIsCurrent /\ ZipInStep /\ NothingZipped /\ PackageIsFit

LEMMA PackInitInv == PackInit => PackInv
<1> SUFFICES ASSUME PackInit PROVE PackInv
  OBVIOUS
<1>1. PackTypes
  <2>1. [k \in Kind |-> 0] \in [Kind -> 0..2]
    OBVIOUS
  <2>2. NoPack \in JobType
    BY <2>1 DEF NoPack, JobType
  <2> QED BY <2>1, <2>2 DEF PackInit, PackTypes
<1>2. JobIsCurrent /\ ZipInStep /\ NothingZipped /\ PackageIsFit
  BY DEF PackInit, JobIsCurrent, ZipInStep, NothingZipped, NoPack, NoPackage,
         PackageIsFit, PackageIsWhole, ShippedIsClean
<1> QED BY <1>1, <1>2 DEF PackInv

\* A mod in which the gate finds nothing has no file made from the ROM, on a machine that
\* can compare.
LEMMA NothingFound ==
  ASSUME PackFindings = {}
  PROVE  /\ manifest.ok
         /\ env = {"dataset", "luajit", "Pillow"} =>
              \A k \in {"cacheRef", "dump", "shadow", "patch", "bank", "copy", "near"} : k \notin ModFiles
         /\ ValidateFindings = CheckGithub
<1>1. manifest.ok
  BY DEF PackFindings, CheckManifest, Error
<1>2. CheckPermissions = {} /\ RunLoader = {} /\ CheckRequires = {} /\ LintDir = {}
  BY <1>1 DEF PackFindings
<1>3. ASSUME NEW k \in ModFiles PROVE LintFile(k) = {}
  BY <1>2 DEF LintDir
<1>4. ASSUME env = {"dataset", "luajit", "Pillow"},
             NEW k \in {"cacheRef", "dump", "shadow", "patch", "bank", "copy", "near"}
      PROVE  LintFile(k) # {}
  BY <1>4 DEF LintFile, Has, Error, Warn
<1>5. ValidateFindings = CheckGithub
  BY <1>1, <1>2 DEF ValidateFindings
<1> QED BY <1>1, <1>3, <1>4, <1>5

\* Whoever writes into the mod while no package is made.
LEMMA NoJob ==
  ASSUME PackInv, job.pass = "none", files' \in [Kind -> 0..2], UNCHANGED <<job, package, touched>>
  PROVE  PackInv'
<1> USE DEF PackInv
<1>1. PackTypes'
  BY DEF PackTypes
<1> QED BY <1>1 DEF JobIsCurrent, ZipInStep, NothingZipped, PackageIsFit, PackageIsWhole, ShippedIsClean

\* Whoever writes into it while one is.
LEMMA Touched ==
  ASSUME PackInv, touched' = TRUE, files' \in [Kind -> 0..2], UNCHANGED <<job, package>>
  PROVE  PackInv'
<1> USE DEF PackInv
<1>1. PackTypes'
  BY DEF PackTypes
<1> QED BY <1>1 DEF JobIsCurrent, ZipInStep, NothingZipped, PackageIsFit, PackageIsWhole, ShippedIsClean

LEMMA PackBeginsInv == ASSUME PackInv, PackBegins PROVE PackInv'
<1> USE DEF PackInv
<1>1. /\ PackFindings = {} /\ touched' = FALSE /\ UNCHANGED <<manifest, files, env, package>>
      /\ job' = [pass |-> "list", list |-> {}, hashed |-> [k \in Kind |-> 0], zipped |-> [k \in Kind |-> 0]]
  BY DEF PackBegins, NoPack
<1>2. PackTypes'
  <2>1. [k \in Kind |-> 0] \in [Kind -> 0..2]
    OBVIOUS
  <2> QED BY <1>1, <2>1 DEF PackTypes, JobType
<1>3. job'.pass = "list" /\ \A k \in Kind : job'.zipped[k] = 0
  BY <1>1
<1>4. PackFindings' = PackFindings
  BY <1>1 DEF PackFindings, CheckManifest, CheckPermissions, RunLoader, CheckRequires, LintDir, LintFile,
              ModFiles, Present, Has
<1>5. JobIsCurrent' /\ ZipInStep' /\ NothingZipped'
  BY <1>1, <1>3, <1>4 DEF JobIsCurrent, ZipInStep, NothingZipped
<1>6. PackageIsFit'
  BY <1>1 DEF PackageIsFit, PackageIsWhole, ShippedIsClean
<1> QED BY <1>2, <1>5, <1>6

\* In the steps of pack itself nothing of the mod changes.
LEMMA SameMod ==
  ASSUME UNCHANGED <<manifest, files, env>>
  PROVE  PackFindings' = PackFindings /\ ModFiles' = ModFiles /\ Present' = Present
  BY DEF PackFindings, CheckManifest, CheckPermissions, RunLoader, CheckRequires, LintDir, LintFile,
         ModFiles, Present, Has

\* pack stops, and what it leaves is fit.
LEMMA StopsInv == ASSUME PackInv, Stops, PackageIsFit' PROVE PackInv'
<1> USE DEF PackInv
<1>1. job' = NoPack /\ UNCHANGED <<files, touched>>
  BY DEF Stops
<1>2. NoPack \in JobType /\ NoPack.pass = "none"
  <2>1. [k \in Kind |-> 0] \in [Kind -> 0..2]
    OBVIOUS
  <2> QED BY <2>1 DEF NoPack, JobType
<1> QED BY <1>1, <1>2 DEF PackTypes, JobIsCurrent, ZipInStep, NothingZipped

LEMMA ListInv == ASSUME PackInv, List PROVE PackInv'
<1> USE DEF PackInv
<1>1. /\ job.pass = "list" /\ job' = [job EXCEPT !.pass = "hash", !.list = ModFiles]
      /\ UNCHANGED <<manifest, files, env, package, touched>>
  BY DEF List
<1>2. ModFiles \subseteq Kind
  BY DEF ModFiles, Present
<1>3. /\ job' \in JobType /\ job'.pass = "hash" /\ job'.list = ModFiles /\ job'.zipped = job.zipped
  BY <1>1, <1>2 DEF PackTypes, JobType
<1>4. PackTypes'
  BY <1>1, <1>3 DEF PackTypes
<1>5. JobIsCurrent' /\ ZipInStep' /\ NothingZipped'
  BY <1>1, <1>3, SameMod DEF JobIsCurrent, ZipInStep, NothingZipped
<1>6. PackageIsFit'
  BY <1>1 DEF PackageIsFit, PackageIsWhole, ShippedIsClean
<1> QED BY <1>4, <1>5, <1>6

LEMMA HashInv == ASSUME PackInv, Hash PROVE PackInv'
<1> USE DEF PackInv
<1> DEFINE hashed == [k \in Kind |-> IF k \in job.list THEN files[k] ELSE 0]
<1>1. CASE job.list \subseteq Present
  <2>1. /\ job.pass = "hash" /\ job' = [job EXCEPT !.pass = "zip", !.hashed = hashed]
        /\ UNCHANGED <<manifest, files, env, package, touched>>
    BY <1>1 DEF Hash
  <2>2. hashed \in [Kind -> 0..2] /\ \A k \in Kind : hashed[k] = IF k \in job.list THEN files[k] ELSE 0
    BY DEF PackTypes
  <2> HIDE DEF hashed
  <2>3. /\ job' \in JobType /\ job'.pass = "zip" /\ job'.hashed = hashed
        /\ job'.list = job.list /\ job'.zipped = job.zipped
    BY <2>1, <2>2 DEF PackTypes, JobType
  <2>4. PackTypes'
    BY <2>1, <2>3 DEF PackTypes
  <2>5. \A k \in Kind : hashed[k] > 0 <=> k \in job.list
    BY <1>1, <2>2 DEF Present, PackTypes
  <2>6. JobIsCurrent'
    BY <2>1, <2>2, <2>3, SameMod DEF JobIsCurrent
  <2>7. ZipInStep'
    <3> SUFFICES ASSUME NEW k \in Kind
                 PROVE  /\ hashed[k] > 0 <=> k \in job.list \/ job.zipped[k] > 0
                        /\ k \notin job.list => job.zipped[k] = hashed[k]
      BY <2>3 DEF ZipInStep
    <3>1. job.zipped[k] = 0
      BY <2>1 DEF NothingZipped
    <3> QED BY <2>2, <2>5, <3>1
  <2>8. NothingZipped'
    BY <2>3 DEF NothingZipped
  <2>9. PackageIsFit'
    BY <2>1 DEF PackageIsFit, PackageIsWhole, ShippedIsClean
  <2> QED BY <2>4, <2>6, <2>7, <2>8, <2>9
<1>2. CASE ~ job.list \subseteq Present
  BY <1>2, StopsInv DEF Hash, PackageIsFit, PackageIsWhole, ShippedIsClean
<1> QED BY <1>1, <1>2

LEMMA ZipInv == ASSUME PackInv, NEW k \in Kind, Zip(k) PROVE PackInv'
<1> USE DEF PackInv
<1>1. CASE k \in Present
  <2>1. /\ job.pass = "zip" /\ k \in job.list
        /\ job' = [job EXCEPT !.list = @ \ {k}, !.zipped[k] = files[k]]
        /\ UNCHANGED <<manifest, files, env, package, touched>>
    BY <1>1 DEF Zip
  <2>2. /\ job' \in JobType /\ job'.pass = "zip" /\ job'.hashed = job.hashed
        /\ job'.list = job.list \ {k} /\ job'.zipped = [job.zipped EXCEPT ![k] = files[k]]
    BY <2>1 DEF PackTypes, JobType
  <2>3. job'.zipped[k] = files[k] /\ \A l \in Kind \ {k} : job'.zipped[l] = job.zipped[l]
    BY <2>2 DEF PackTypes, JobType
  <2>4. files[k] > 0 /\ files[k] \in Nat
    BY <1>1 DEF Present, PackTypes
  <2>5. PackTypes'
    BY <2>1, <2>2 DEF PackTypes
  <2>6. JobIsCurrent'
    BY <2>1, <2>2, SameMod DEF JobIsCurrent
  <2>7. ASSUME NEW l \in Kind
        PROVE  /\ job'.hashed[l] > 0 <=> l \in job'.list \/ job'.zipped[l] > 0
               /\ ~touched' /\ l \notin job'.list => job'.zipped[l] = job'.hashed[l]
    <3>1. CASE l = k
      <4>1. job.hashed[k] > 0
        BY <2>1 DEF ZipInStep
      <4>2. ~touched => job.hashed[k] = files[k]
        BY <1>1, <2>1, <4>1 DEF JobIsCurrent, PackTypes, JobType
      <4> QED BY <2>1, <2>2, <2>3, <2>4, <3>1, <4>1, <4>2
    <3>2. CASE l # k
      BY <2>1, <2>2, <2>3, <3>2 DEF ZipInStep
    <3> QED BY <3>1, <3>2
  <2>8. ZipInStep' /\ NothingZipped'
    BY <2>2, <2>7 DEF ZipInStep, NothingZipped
  <2>9. PackageIsFit'
    BY <2>1 DEF PackageIsFit, PackageIsWhole, ShippedIsClean
  <2> QED BY <2>5, <2>6, <2>8, <2>9
<1>2. CASE k \notin Present
  <2>1. Stops /\ package' = [NoPackage EXCEPT !.entries = job.zipped]
    BY <1>2 DEF Zip
  <2>2. package'.meta = FALSE
    BY <2>1 DEF NoPackage
  <2>3. PackageIsFit'
    BY <2>2 DEF PackageIsFit, PackageIsWhole, ShippedIsClean
  <2> QED BY <2>1, <2>3, StopsInv
<1> QED BY <1>1, <1>2

\* The archive is closed: it has what was hashed, and if nobody touched the mod, what the
\* gate saw.
LEMMA SealInv ==
  ASSUME PackInv, Seal
  PROVE  PackInv' /\ (package'.quiet => PackFindings = {})
<1> USE DEF PackInv
<1>1. /\ job.pass = "zip" /\ job.list = {} /\ Stops
      /\ package' = [entries |-> job.zipped, records |-> job.hashed, meta |-> TRUE,
                     quiet |-> ~touched, env |-> env]
  BY DEF Seal
<1>2. /\ package'.entries = job.zipped /\ package'.records = job.hashed /\ package'.meta
      /\ package'.quiet = ~touched /\ package'.env = env
  BY <1>1
<1>3. \A k \in Kind : job.hashed[k] > 0 <=> job.zipped[k] > 0
  BY <1>1 DEF ZipInStep
<1>4. ~touched => job.zipped = job.hashed
  <2>1. ~touched => \A k \in Kind : job.zipped[k] = job.hashed[k]
    BY <1>1 DEF ZipInStep
  <2>2. job.zipped \in [Kind -> 0..2] /\ job.hashed \in [Kind -> 0..2]
    BY DEF PackTypes, JobType
  <2> QED BY <2>1, <2>2
<1>5. PackageIsWhole'
  BY <1>2, <1>3, <1>4 DEF PackageIsWhole
<1>6. ~touched => PackFindings = {}
  BY <1>1 DEF JobIsCurrent
<1>7. ShippedIsClean'
  <2> SUFFICES ASSUME ~touched, env = {"dataset", "luajit", "Pillow"},
                      NEW k \in {"cacheRef", "dump", "shadow", "patch", "bank", "copy", "near"} \cap Kind
               PROVE  job.zipped[k] = 0
    BY <1>2 DEF ShippedIsClean
  <2>1. k \notin ModFiles
    BY <1>6, NothingFound
  <2> QED BY <1>1, <1>4, <2>1 DEF JobIsCurrent
<1> QED BY <1>1, <1>2, <1>5, <1>6, <1>7, StopsInv DEF PackageIsFit

\* What pack completes undisturbed, validate passes.
Valid == ~package.meta /\ package'.meta /\ package'.quiet => Exit(ValidateFindings \ CheckGithub, TRUE) = 0

LEMMA PackStepInv == PackInv /\ [PackNext]_packVars => PackInv' /\ Valid
<1> SUFFICES ASSUME PackInv, [PackNext]_packVars PROVE PackInv' /\ Valid
  OBVIOUS
<1>1. ASSUME NEW profile \in Profile, NEW github \in {"none", "slug"}, NEW force \in BOOLEAN,
             Scaffold(profile, github, force)
      PROVE  PackInv' /\ UNCHANGED package
  <2>1. files' \in [Kind -> 0..2]
    BY <1>1 DEF Scaffold, PackInv, PackTypes
  <2> QED BY <1>1, <2>1, NoJob DEF Scaffold
<1>2. CASE SetGithub
  BY <1>2, NoJob DEF SetGithub, PackInv, PackTypes, Valid
<1>3. CASE AddReleaseWorkflow
  <2>1. files' \in [Kind -> 0..2]
    BY <1>3 DEF AddReleaseWorkflow, PackInv, PackTypes
  <2> QED BY <1>3, <2>1, NoJob DEF AddReleaseWorkflow, Valid
<1>4. ASSUME NEW k \in Kind, Save(k) PROVE PackInv' /\ UNCHANGED package
  <2>1. files' \in [Kind -> 0..2]
    BY <1>4 DEF Save, PackInv, PackTypes
  <2> QED BY <1>4, <2>1, Touched DEF Save, Edit
<1>5. ASSUME NEW k \in Kind, Delete(k) PROVE PackInv' /\ UNCHANGED package
  <2>1. files' \in [Kind -> 0..2]
    BY <1>5 DEF Delete, PackInv, PackTypes
  <2> QED BY <1>5, <2>1, Touched DEF Delete, Edit
<1>6. CASE EditManifest
  BY <1>6, Touched DEF EditManifest, Edit, PackInv, PackTypes, Valid
<1>7. CASE MachineChanges
  BY <1>7, Touched DEF MachineChanges, Edit, PackInv, PackTypes, Valid
<1>8. CASE PackBegins
  BY <1>8, PackBeginsInv DEF PackBegins, Valid
<1>9. CASE List
  BY <1>9, ListInv DEF List, Valid
<1>10. CASE Hash
  BY <1>10, HashInv DEF Hash, Valid
<1>11. ASSUME NEW k \in Kind, Zip(k) PROVE PackInv' /\ Valid
  <2>1. UNCHANGED package \/ package'.meta = FALSE
    BY <1>11 DEF Zip, NoPackage
  <2> QED BY <1>11, <2>1, ZipInv DEF Valid
<1>12. CASE Seal
  <2>1. PackInv' /\ (package'.quiet => PackFindings = {})
    BY <1>12, SealInv
  <2>2. ASSUME PackFindings = {} PROVE Exit(ValidateFindings \ CheckGithub, TRUE) = 0
    BY <2>2, NothingFound DEF Exit
  <2> QED BY <2>1, <2>2 DEF Valid
<1>13. CASE UNCHANGED packVars
  <2>1. UNCHANGED <<manifest, files, env, job, package, touched>>
    BY <1>13 DEF packVars
  <2>2. PackInv'
    BY <2>1, SameMod DEF PackInv, PackTypes, JobIsCurrent, ZipInStep, NothingZipped, PackageIsFit,
                         PackageIsWhole, ShippedIsClean
  <2> QED BY <2>1, <2>2 DEF Valid
<1>14. ASSUME UNCHANGED package PROVE Valid
  BY <1>14 DEF Valid
<1> QED BY <1>1, <1>2, <1>3, <1>4, <1>5, <1>6, <1>7, <1>8, <1>9, <1>10, <1>11, <1>12, <1>13, <1>14 DEF PackNext

\* The inductive invariant of the gates holds for every set of files and number of edits.
THEOREM PackSafety == PackSpec => []PackInv
<1>1. PackInv /\ [PackNext]_packVars => PackInv'
  BY PackStepInv
<1> QED BY <1>1, PackInitInv, PTL DEF PackSpec

\* An archive with its pack.json has every file it records, and one made undisturbed where
\* the gate could compare holds nothing made from the ROM.
THEOREM PackagesAreFit == PackSpec => []PackageIsFit
<1> QED BY PackSafety, PTL DEF PackInv

\* pack completes undisturbed only what validate --strict passes, but for the github field.
THEOREM PackedIsValid == PackSpec => PackMeansValid
<1>1. PackInv /\ [PackNext]_packVars => [Valid]_packVars
  BY PackStepInv
<1> QED BY <1>1, PackSafety, PTL DEF PackSpec, PackMeansValid, Valid

-----------------------------------------------------------------------------
(***************************************************************************)
(* RomManifests and RomImport.                                             *)
(*                                                                         *)
(* Every manifest that is written fits its version (Fits), whatever was    *)
(* edited since Red's was made.  An import keeps the one it began with, so *)
(* that what it reads is its ROM's; the rest is the order of its steps:    *)
(* what it is done with is written (Written), what it has emptied holds    *)
(* only its own (Emptied).                                                 *)
(***************************************************************************)

\* m is a manifest of a version: it places all it lists, and asks the ROM where the version
\* has things.
Fits(m, v) ==
  /\ m = [sha |-> v, labels |-> m.labels, headers |-> m.headers, songs |-> m.songs,
          music |-> m.music, symbols |-> m.symbols]
  /\ m.labels \cup m.headers \subseteq DOMAIN m.symbols
  /\ m.songs \subseteq DOMAIN m.music
  /\ v # "yellow" => DirectSymbols \subseteq DOMAIN m.symbols
  /\ m.symbols = Placed(v, DOMAIN m.symbols)
  /\ \A song \in m.songs : m.music[song] = Place(v, song)

\* Blue takes its music from Red's manifest, which has none at a place that differs.
MusicStays(m) == DOMAIN m.music \cap BlueMoved = {}

\* The checkouts are some that there may be, and every manifest fits.
ManifestsInv ==
  /\ trees = [v \in Versions |-> trees[v]] /\ \A v \in Versions : trees[v] \in Trees[v]
  /\ manifests = [v \in Versions |-> manifests[v]]
  /\ \A v \in Versions : manifests[v] # None => Fits(manifests[v], v)
  /\ manifests["red"] # None => MusicStays(manifests["red"])

-----------------------------------------------------------------------------
(***************************************************************************)
(* Manifests                                                               *)
(***************************************************************************)

\* Red's manifest, when there is one, has the places of Red's symbol file.
LEMMA RedFits ==
  ASSUME trees["red"] \in Trees["red"], GenerateRed # None
  PROVE  Fits(GenerateRed, "red") /\ MusicStays(GenerateRed)
<1> DEFINE tree == trees["red"]
           heads == tree.music \cap tree.symbols
           m == [sha |-> "red", labels |-> tree.labels, headers |-> tree.headers, songs |-> tree.songs \cap heads,
                 music |-> Placed("red", heads), symbols |-> Placed("red", Wanted(tree))]
<1>1. GenerateRed = m
  BY DEF GenerateRed
<1>2. /\ m.sha = "red" /\ m.labels = tree.labels /\ m.headers = tree.headers /\ m.songs = tree.songs \cap heads
      /\ m.music = Placed("red", heads) /\ m.symbols = Placed("red", Wanted(tree))
  OBVIOUS
<1>3. DOMAIN Placed("red", heads) = heads /\ DOMAIN Placed("red", Wanted(tree)) = Wanted(tree)
  BY DEF Placed
<1>4. \A song \in heads : Placed("red", heads)[song] = Place("red", song)
  BY DEF Placed
<1>5. tree.music \cap BlueMoved = {}
  BY TreesAssumption
<1> HIDE DEF m
<1>6. Fits(m, "red")
  <2>1. m = [sha |-> "red", labels |-> m.labels, headers |-> m.headers, songs |-> m.songs,
             music |-> m.music, symbols |-> m.symbols]
    BY <1>2 DEF m
  <2>2. m.labels \cup m.headers \subseteq DOMAIN m.symbols /\ DirectSymbols \subseteq DOMAIN m.symbols
    BY <1>2, <1>3 DEF Wanted
  <2>3. m.songs \subseteq DOMAIN m.music
    BY <1>2, <1>3
  <2>4. m.symbols = Placed("red", DOMAIN m.symbols)
    BY <1>2, <1>3
  <2>5. \A song \in m.songs : m.music[song] = Place("red", song)
    BY <1>2, <1>4
  <2> QED BY <2>1, <2>2, <2>3, <2>4, <2>5 DEF Fits
<1>7. MusicStays(m)
  BY <1>2, <1>3, <1>5 DEF MusicStays
<1> QED BY <1>1, <1>6, <1>7

\* Blue's, derived from a Red manifest that fits, has the places of Blue's symbol file.
LEMMA BlueFits ==
  ASSUME NEW red, Fits(red, "red"), MusicStays(red), DeriveBlue(red) # None
  PROVE  Fits(DeriveBlue(red), "blue")
<1> DEFINE m == [sha |-> "blue", labels |-> red.labels, headers |-> red.headers, songs |-> red.songs,
                 music |-> red.music, symbols |-> Placed("blue", DOMAIN red.symbols)]
<1>1. DeriveBlue(red) = m
  <2>1. DeriveBlue(red) = [red EXCEPT !.sha = "blue", !.symbols = Placed("blue", DOMAIN red.symbols)]
    BY DEF DeriveBlue
  <2>2. red = [sha |-> "red", labels |-> red.labels, headers |-> red.headers, songs |-> red.songs,
               music |-> red.music, symbols |-> red.symbols]
    BY DEF Fits
  <2> QED BY <2>1, <2>2
<1>2. /\ m.sha = "blue" /\ m.labels = red.labels /\ m.headers = red.headers /\ m.songs = red.songs
      /\ m.music = red.music /\ m.symbols = Placed("blue", DOMAIN red.symbols)
  OBVIOUS
<1>3. DOMAIN Placed("blue", DOMAIN red.symbols) = DOMAIN red.symbols
  BY DEF Placed
<1>4. m = [sha |-> "blue", labels |-> m.labels, headers |-> m.headers, songs |-> m.songs,
           music |-> m.music, symbols |-> m.symbols]
  OBVIOUS
<1> HIDE DEF m
<1>5. m.labels \cup m.headers \subseteq DOMAIN m.symbols /\ DirectSymbols \subseteq DOMAIN m.symbols
  BY <1>2, <1>3 DEF Fits
<1>6. m.songs \subseteq DOMAIN m.music
  BY <1>2 DEF Fits
<1>7. m.symbols = Placed("blue", DOMAIN m.symbols)
  BY <1>2, <1>3
<1>8. ASSUME NEW song \in m.songs PROVE m.music[song] = Place("blue", song)
  <2>1. red.music[song] = Place("red", song) /\ song \notin BlueMoved
    BY <1>2, <1>8 DEF Fits, MusicStays
  <2>2. Place("red", song) = <<"red", song>>
    BY DEF Place
  <2>3. Place("blue", song) = <<"red", song>>
    BY <2>1 DEF Place
  <2> QED BY <1>2, <2>1, <2>2, <2>3
<1> QED BY <1>1, <1>4, <1>5, <1>6, <1>7, <1>8 DEF Fits

\* Yellow's has the places of Yellow's symbol file, even in the music Red's manifest names.
LEMMA YellowFits ==
  ASSUME NEW red, trees["yellow"] \in Trees["yellow"], DeriveYellow(red) # None
  PROVE  Fits(DeriveYellow(red), "yellow")
<1> DEFINE tree == trees["yellow"]
           m == [sha |-> "yellow", labels |-> tree.labels \cup ExtraLabels, headers |-> tree.headers, songs |-> tree.songs,
                 music |-> RemapAudio(red, tree), symbols |-> Placed("yellow", Carried(red, tree) \cup Found(tree))]
<1>1. ~ YellowStops(red, tree) /\ DeriveYellow(red) = m
  BY DEF DeriveYellow
<1>2. /\ m.sha = "yellow" /\ m.labels = tree.labels \cup ExtraLabels /\ m.headers = tree.headers /\ m.songs = tree.songs
      /\ m.music = RemapAudio(red, tree) /\ m.symbols = Placed("yellow", Carried(red, tree) \cup Found(tree))
  OBVIOUS
<1>3. m = [sha |-> "yellow", labels |-> m.labels, headers |-> m.headers, songs |-> m.songs,
           music |-> m.music, symbols |-> m.symbols]
  OBVIOUS
<1> HIDE DEF m
<1>4. DOMAIN m.symbols = Carried(red, tree) \cup Found(tree)
  BY <1>2 DEF Placed
<1>5. m.labels \cup m.headers \subseteq DOMAIN m.symbols
  BY <1>2, <1>4 DEF Found, Own
<1>6. m.symbols = Placed("yellow", DOMAIN m.symbols)
  BY <1>2, <1>4
<1>7. tree.songs \subseteq DOMAIN red.music /\ tree.songs \subseteq tree.symbols
  BY <1>1, TreesAssumption DEF YellowStops
<1>8. m.songs \subseteq DOMAIN m.music
  BY <1>2, <1>7 DEF RemapAudio
<1>9. ASSUME NEW song \in m.songs PROVE m.music[song] = Place("yellow", song)
  <2>1. song \in DOMAIN red.music /\ song \in tree.symbols
    BY <1>2, <1>7
  <2> QED BY <1>2, <2>1 DEF RemapAudio
<1> QED BY <1>1, <1>3, <1>5, <1>6, <1>8, <1>9 DEF Fits

\* What a tool writes takes the place of the manifest of its version.
LEMMA ShipFits ==
  ASSUME ManifestsInv, NEW v \in Versions, NEW m, Ship(v, m),
         m # None => Fits(m, v) /\ (v = "red" => MusicStays(m))
  PROVE  ManifestsInv'
<1>1. /\ manifests = [u \in Versions |-> manifests[u]]
      /\ \A u \in Versions : manifests[u] # None => Fits(manifests[u], u)
      /\ manifests["red"] # None => MusicStays(manifests["red"])
  BY DEF ManifestsInv
<1>2. m # None /\ manifests' = [manifests EXCEPT ![v] = m] /\ trees' = trees
  BY DEF Ship
<1>3. manifests' = [u \in Versions |-> IF u = v THEN m ELSE manifests[u]]
  BY <1>1, <1>2
<1>4. manifests' = [u \in Versions |-> manifests'[u]]
  BY <1>3
<1>5. \A u \in Versions : manifests'[u] = IF u = v THEN m ELSE manifests[u]
  BY <1>3
<1>6. \A u \in Versions : manifests'[u] # None => Fits(manifests'[u], u)
  BY <1>1, <1>2, <1>5
<1>7. manifests'["red"] # None => MusicStays(manifests'["red"])
  BY <1>1, <1>2, <1>5 DEF Versions
<1> QED BY <1>2, <1>4, <1>6, <1>7 DEF ManifestsInv

\* No tool and no edit of a checkout makes a manifest that does not fit.
LEMMA ManifestsStep == ManifestsInv /\ ManifestsNext => ManifestsInv'
<1> SUFFICES ASSUME ManifestsInv, ManifestsNext PROVE ManifestsInv'
  OBVIOUS
<1>1. /\ trees = [v \in Versions |-> trees[v]]
      /\ trees["red"] \in Trees["red"] /\ trees["yellow"] \in Trees["yellow"]
      /\ \A v \in Versions : trees[v] \in Trees[v]
  BY DEF ManifestsInv, Versions
<1>2. {"red", "blue", "yellow"} \subseteq Versions
  BY DEF Versions
<1>3. CASE MakeRed
  <2>1. GenerateRed # None => Fits(GenerateRed, "red") /\ MusicStays(GenerateRed)
    BY <1>1, RedFits
  <2> QED BY <1>2, <1>3, <2>1, ShipFits DEF MakeRed
<1>4. CASE MakeBlue
  <2> DEFINE red == manifests["red"]
  <2>1. Fits(red, "red") /\ MusicStays(red)
    BY <1>4 DEF MakeBlue, ManifestsInv, Versions
  <2>2. DeriveBlue(red) # None => Fits(DeriveBlue(red), "blue")
    BY <2>1, BlueFits
  <2> QED BY <1>2, <1>4, <2>2, ShipFits DEF MakeBlue
<1>5. CASE MakeYellow
  <2> DEFINE red == manifests["red"]
  <2>1. DeriveYellow(red) # None => Fits(DeriveYellow(red), "yellow")
    BY <1>1, YellowFits
  <2> QED BY <1>2, <1>5, <2>1, ShipFits DEF MakeYellow
<1>6. CASE EditTree
  <2>1. PICK v \in Versions : \E tree \in Trees[v] \ {trees[v]} : trees' = [trees EXCEPT ![v] = tree]
    BY <1>6 DEF EditTree
  <2>2. PICK tree \in Trees[v] : trees' = [trees EXCEPT ![v] = tree]
    BY <2>1
  <2>3. trees' = [u \in Versions |-> IF u = v THEN tree ELSE trees[u]]
    BY <1>1, <2>2
  <2>4. trees' = [u \in Versions |-> trees'[u]] /\ \A u \in Versions : trees'[u] \in Trees[u]
    BY <1>1, <2>2, <2>3
  <2>5. manifests' = manifests
    BY <1>6 DEF EditTree
  <2> QED BY <2>4, <2>5 DEF ManifestsInv
<1> QED BY <1>3, <1>4, <1>5, <1>6 DEF ManifestsNext

\* At first there is no manifest.
LEMMA ManifestsStart == ManifestsInit => ManifestsInv
<1> SUFFICES ASSUME ManifestsInit PROVE ManifestsInv
  OBVIOUS
<1>1. \A v \in Versions : Whole(v) \in Trees[v]
  BY TreesAssumption DEF Whole
<1>2. PICK v \in Versions : \E tree \in Trees[v] : trees = [[u \in Versions |-> Whole(u)] EXCEPT ![v] = tree]
  BY DEF ManifestsInit
<1>3. PICK tree \in Trees[v] : trees = [[u \in Versions |-> Whole(u)] EXCEPT ![v] = tree]
  BY <1>2
<1>4. trees = [u \in Versions |-> IF u = v THEN tree ELSE Whole(u)]
  BY <1>3
<1>5. trees = [u \in Versions |-> trees[u]] /\ \A u \in Versions : trees[u] \in Trees[u]
  BY <1>1, <1>3, <1>4
<1>6. manifests = [u \in Versions |-> manifests[u]] /\ \A u \in Versions : manifests[u] = None
  BY DEF ManifestsInit
<1>7. manifests["red"] = None
  BY <1>6 DEF Versions
<1> QED BY <1>5, <1>6, <1>7 DEF ManifestsInv

\* What fits is complete and of its version.
LEMMA FitManifests == ManifestsInv => ManifestsFit
<1> SUFFICES ASSUME ManifestsInv PROVE ManifestsFit
  OBVIOUS
<1>1. ASSUME NEW v \in Versions, manifests[v] # None
      PROVE  /\ manifests[v].sha = v
             /\ manifests[v].labels \cup manifests[v].headers \subseteq DOMAIN manifests[v].symbols
             /\ manifests[v].songs \subseteq DOMAIN manifests[v].music
             /\ v # "yellow" => DirectSymbols \subseteq DOMAIN manifests[v].symbols
             /\ manifests[v].symbols = Placed(v, DOMAIN manifests[v].symbols)
             /\ \A song \in manifests[v].songs : manifests[v].music[song] = Place(v, song)
  <2> DEFINE m == manifests[v]
  <2>1. Fits(m, v)
    BY <1>1 DEF ManifestsInv
  <2> HIDE DEF m
  <2>2. m.sha = v
    BY <2>1 DEF Fits
  <2> QED BY <2>1, <2>2 DEF Fits, m
<1> QED BY <1>1 DEF ManifestsFit, ManifestsComplete, PlacesFit

-----------------------------------------------------------------------------
(***************************************************************************)
(* Import                                                                  *)
(***************************************************************************)

\* An import that was not refused goes on from its arguments.
Accepted == stage \notin {"idle", "refused"}

\* Its manifest, whatever became of the file, fits the ROM it is given.
RunFits ==
  /\ stage # "idle" => run.args \in Arguments
  /\ Accepted => run.args.rom \in Versions /\ Fits(run.manifest, run.args.rom)

\* What it was asked for and no longer has to do is there, and the pictures of what is due if
\* they are said to be drawn.
Written ==
  Accepted =>
    /\ todo \subseteq run.args.only /\ (stage = "cleaning" => todo = run.args.only)
    /\ \A d \in run.args.only \ todo : tables[d] = run.args.rom /\ (d \in Pictured => pictures[d] = run.args.rom)
    /\ drawn => \A d \in Extracted : Due(d) => ~ Lacking(d) /\ (d \in Pictured => pictures[d] = run.args.rom)

\* Once the directories were emptied they hold only what this import writes.
Emptied ==
  stage \in {"building", "failed", "killed", "done"} /\ run.args.clean =>
    /\ \A d \in Extracted : tables[d] # None => tables[d] = run.args.rom /\ d \in run.args.only
    /\ \A d \in Pictured : pictures[d] # None => pictures[d] = run.args.rom
    /\ run.args.only = Extracted /\ tables["icons"] # None => pictures["sprites"] = run.args.rom

\* A table has its pictures.
Illustrated == \A d \in Pictured : tables[d] # None => pictures[d] # None

\* How an import ended.
Ended == (stage = "done" => todo = {}) /\ RedAndBlueComplete

\* The inductive invariant of the import.
ImportInv == ManifestsInv /\ ImportTypeOK /\ RunFits /\ Written /\ Emptied /\ Illustrated /\ Ended

\* Of two datasets one is extracted before the other, and not both.
LEMMA BeforeIsAsymmetric ==
  ASSUME NEW d, NEW e, Before(d, e), Before(e, d)
  PROVE  FALSE
<1>1. PICK i \in DOMAIN Datasets, j \in DOMAIN Datasets : i < j /\ Datasets[i] = d /\ Datasets[j] = e
  BY DEF Before
<1>2. PICK k \in DOMAIN Datasets, l \in DOMAIN Datasets : k < l /\ Datasets[k] = e /\ Datasets[l] = d
  BY DEF Before
<1>3. i = l /\ j = k
  BY <1>1, <1>2, DatasetsAssumption
<1>4. i \in Nat /\ j \in Nat
  BY DatasetsAssumption
<1> QED BY <1>1, <1>2, <1>3, <1>4

\* One dataset is due at a time.
LEMMA OneIsDue ==
  ASSUME NEW d, NEW e, Due(d), Due(e)
  PROVE  d = e
BY BeforeIsAsymmetric DEF Due

\* What is looked up is where the manifest says, if the manifest has it: an extractor reads
\* its own ROM.
LEMMA ReadIsRom ==
  ASSUME NEW d, Fits(run.manifest, run.args.rom), ~ Lacking(d)
  PROVE  Read(d) = run.args.rom
<1> DEFINE m == run.manifest
           rom == run.args.rom
<1>1. m.symbols = Placed(rom, DOMAIN m.symbols)
  BY DEF Fits
<1>2. \A n \in DOMAIN m.symbols : m.symbols[n] = Place(rom, n)
  BY <1>1 DEF Placed
<1>3. Needs(d, m) \subseteq DOMAIN m.symbols
  BY DEF Lacking
<1> QED BY <1>2, <1>3 DEF Read

\* Red's manifest and Blue's have all that extractors look up.
LEMMA OnlyYellowLacks ==
  ASSUME NEW d \in Extracted, Fits(run.manifest, run.args.rom), Lacking(d)
  PROVE  run.args.rom = "yellow"
<1> DEFINE m == run.manifest
<1> SUFFICES ASSUME run.args.rom # "yellow" PROVE FALSE
  OBVIOUS
<1>1. m.labels \subseteq DOMAIN m.symbols /\ m.headers \subseteq DOMAIN m.symbols /\ DirectSymbols \subseteq DOMAIN m.symbols
  BY DEF Fits
<1>2. CASE d = "text"
  BY <1>1, <1>2 DEF Lacking, Needs
<1>3. CASE d = "maps"
  BY <1>1, <1>3 DEF Lacking, Needs
<1>4. CASE d \notin {"text", "maps"}
  <2>1. AskedBy[d] \subseteq DirectSymbols
    BY <1>4, AskedByAssumption
  <2>2. Needs(d, m) = AskedBy[d] \ (OmittedIntro \ DOMAIN m.symbols)
    BY <1>4 DEF Needs
  <2> QED BY <1>1, <2>1, <2>2 DEF Lacking
<1> QED BY <1>2, <1>3, <1>4

\* A version is neither None nor a dataset's lack of one.
LEMMA VersionIsNotNone == None \notin Versions /\ None \notin Arguments
BY ArgumentsAssumption

\* An import that is accepted takes the manifest of the version its ROM is of.
LEMMA AcceptedFits ==
  ASSUME ManifestsInv, NEW args \in Arguments, ~ Refused(args)
  PROVE  args.rom \in Versions /\ Fits(ManifestFor(args), args.rom)
<1> DEFINE v == IF args.manifest = None THEN args.version ELSE args.manifest
<1>1. v \in Versions
  BY ArgumentsAssumption
<1>2. ManifestFor(args) = manifests[v] /\ manifests[v] # None /\ args.rom = manifests[v].sha
  BY DEF ManifestFor, Refused
<1> HIDE DEF v
<1>3. Fits(manifests[v], v)
  BY <1>1, <1>2 DEF ManifestsInv
<1>4. manifests[v].sha = v
  BY <1>3 DEF Fits
<1> QED BY <1>1, <1>2, <1>3, <1>4

\* Begin: a new import starts with all it was asked for still to do.
LEMMA BeginStep ==
  ASSUME ImportInv, NEW args \in Arguments, Begin(args), UNCHANGED manifestVars
  PROVE  ImportInv'
<1> USE DEF ImportInv
<1>1. ManifestsInv'
  BY DEF ManifestsInv, manifestVars
<1>2. /\ run' = [args |-> args, manifest |-> ManifestFor(args)] /\ drawn' = FALSE
      /\ tables' = tables /\ pictures' = pictures
  BY DEF Begin
<1>3. run'.args = args /\ run'.manifest = ManifestFor(args)
  BY <1>2
<1>4. args # None /\ args.only \subseteq Extracted
  BY ArgumentsAssumption
<1>5. \/ stage' = "refused" /\ todo' = {}
      \/ ~ Refused(args) /\ stage' \in {"cleaning", "building"} /\ todo' = args.only
         /\ (stage' = "building" => ~ args.clean)
  BY DEF Begin
<1>6. ImportTypeOK'
  BY <1>2, <1>3, <1>4, <1>5 DEF ImportTypeOK
<1>7. RunFits'
  BY <1>3, <1>5, AcceptedFits DEF RunFits, Accepted
<1>8. Written'
  BY <1>2, <1>3, <1>5 DEF Written, Accepted
<1>9. Emptied'
  BY <1>3, <1>5 DEF Emptied
<1>10. Illustrated' /\ Ended'
  BY <1>2, <1>5 DEF Illustrated, Ended, RedAndBlueComplete
<1> QED BY <1>1, <1>6, <1>7, <1>8, <1>9, <1>10

\* Clean: while the directories are emptied, nothing of the import is written.
LEMMA CleanStep ==
  ASSUME ImportInv, Clean, UNCHANGED manifestVars
  PROVE  ImportInv'
<1> USE DEF ImportInv
<1> DEFINE left == {d \in DOMAIN tables : tables[d] # None}
           drawings == {d \in Pictured : pictures[d] # None}
<1>1. ManifestsInv'
  BY DEF ManifestsInv, manifestVars
<1>2. stage = "cleaning" /\ run' = run /\ todo' = todo /\ drawn' = drawn
  BY DEF Clean
<1>3. /\ tables \in [Extracted -> Versions \cup {Garbled, None}]
      /\ pictures \in [Pictured -> Versions \cup {Garbled, None}]
      /\ ~ drawn /\ (run.args = None <=> stage = "idle") /\ todo \subseteq Extracted
  BY <1>2 DEF ImportTypeOK
<1>4. \/ \E d \in left : tables' = [tables EXCEPT ![d] = None] /\ stage' = stage /\ pictures' = pictures
      \/ \E d \in drawings : left = {} /\ pictures' = [pictures EXCEPT ![d] = None] /\ stage' = stage /\ tables' = tables
      \/ left \cup drawings = {} /\ stage' = "building" /\ tables' = tables /\ pictures' = pictures
  BY DEF Clean
<1>5. /\ tables' \in [Extracted -> Versions \cup {Garbled, None}]
      /\ pictures' \in [Pictured -> Versions \cup {Garbled, None}]
  BY <1>3, <1>4
<1>6. stage' \in {"cleaning", "building"}
  BY <1>2, <1>4
<1>7. ImportTypeOK'
  BY <1>2, <1>3, <1>5, <1>6 DEF ImportTypeOK
<1>8. RunFits'
  BY <1>2, <1>6 DEF RunFits, Accepted
<1>9. Illustrated'
  <2>1. CASE \E d \in left : tables' = [tables EXCEPT ![d] = None] /\ stage' = stage /\ pictures' = pictures
    BY <1>3, <2>1 DEF Illustrated
  <2>2. CASE left = {} /\ tables' = tables
    BY <1>3, <2>2, DatasetsAssumption DEF Illustrated
  <2> QED BY <1>4, <2>1, <2>2
<1>10. stage' = "building" => /\ \A d \in Extracted : tables'[d] = None
                              /\ \A d \in Pictured : pictures'[d] = None
  BY <1>2, <1>3, <1>4
<1>11. Emptied'
  BY <1>6, <1>10, DatasetsAssumption DEF Emptied
<1>12. Written'
  BY <1>2, <1>3, <1>6 DEF Written, Accepted
<1>13. Ended'
  BY <1>6 DEF Ended, RedAndBlueComplete
<1> QED BY <1>1, <1>7, <1>8, <1>9, <1>11, <1>12, <1>13

\* Draw: the pictures of what is due, from the ROM.
LEMMA DrawStep ==
  ASSUME ImportInv, NEW d \in Extracted, Draw(d), UNCHANGED manifestVars
  PROVE  ImportInv'
<1> USE DEF ImportInv
<1> DEFINE rom == run.args.rom
<1>1. ManifestsInv'
  BY DEF ManifestsInv, manifestVars
<1>2. /\ stage = "building" /\ Due(d) /\ ~ Lacking(d) /\ drawn' = TRUE
      /\ stage' = stage /\ run' = run /\ todo' = todo /\ tables' = tables
      /\ pictures' = [p \in Pictured |-> IF p = d THEN Read(d) ELSE pictures[p]]
  BY DEF Draw
<1>3. rom \in Versions /\ rom # None /\ Read(d) = rom
  BY <1>2, ReadIsRom, VersionIsNotNone DEF RunFits, Accepted
<1>4. \A p \in Pictured : pictures'[p] = IF p = d THEN rom ELSE pictures[p]
  BY <1>2, <1>3
<1>5. ImportTypeOK'
  <2>1. pictures' \in [Pictured -> Versions \cup {Garbled, None}]
    BY <1>2, <1>3 DEF ImportTypeOK
  <2>2. todo # {}
    BY <1>2 DEF Due
  <2> QED BY <1>2, <2>1, <2>2 DEF ImportTypeOK
<1>6. RunFits'
  BY <1>2 DEF RunFits, Accepted
<1>7. Written'
  <2>1. todo \subseteq run.args.only
        /\ \A e \in run.args.only \ todo : tables[e] = rom /\ (e \in Pictured => pictures[e] = rom)
    BY <1>2 DEF Written, Accepted
  <2>2. ASSUME NEW e \in run.args.only \ todo
        PROVE  tables'[e] = rom /\ (e \in Pictured => pictures'[e] = rom)
    BY <1>2, <1>4, <2>1, <2>2
  <2>3. ASSUME NEW e \in Extracted, Due(e)
        PROVE  ~ Lacking(e) /\ (e \in Pictured => pictures'[e] = rom)
    <3>1. e = d
      BY <1>2, <2>3, OneIsDue
    <3> QED BY <1>2, <1>4, <3>1
  <2>4. \A e : (Due(e)' <=> Due(e)) /\ (Lacking(e)' <=> Lacking(e))
    BY <1>2 DEF Due, Lacking
  <2> QED BY <1>2, <2>1, <2>2, <2>3, <2>4 DEF Written
<1>8. Emptied'
  <2>1. "sprites" \in Pictured
    BY DatasetsAssumption
  <2>2. SUFFICES ASSUME run.args.clean PROVE Emptied'
    BY <1>2 DEF Emptied
  <2>3. /\ \A e \in Extracted : tables[e] # None => tables[e] = rom /\ e \in run.args.only
        /\ \A e \in Pictured : pictures[e] # None => pictures[e] = rom
        /\ run.args.only = Extracted /\ tables["icons"] # None => pictures["sprites"] = rom
    BY <1>2, <2>2 DEF Emptied
  <2>4. \A e \in Pictured : pictures'[e] # None => pictures'[e] = rom
    BY <1>4, <2>3
  <2>5. run.args.only = Extracted /\ tables["icons"] # None => pictures'["sprites"] = rom
    BY <1>4, <2>1, <2>3
  <2> QED BY <1>2, <2>3, <2>4, <2>5 DEF Emptied
<1>9. Illustrated'
  BY <1>2, <1>3, <1>4 DEF Illustrated
<1>10. Ended'
  BY <1>2 DEF Ended, RedAndBlueComplete
<1> QED BY <1>1, <1>5, <1>6, <1>7, <1>8, <1>9, <1>10

\* WriteTable: the table of what is due, whose pictures are there.
LEMMA WriteTableStep ==
  ASSUME ImportInv, NEW d \in Extracted, WriteTable(d), UNCHANGED manifestVars
  PROVE  ImportInv'
<1> USE DEF ImportInv
<1> DEFINE rom == run.args.rom
<1>1. ManifestsInv'
  BY DEF ManifestsInv, manifestVars
<1>2. /\ stage = "building" /\ Due(d) /\ drawn /\ drawn' = FALSE
      /\ stage' = stage /\ run' = run /\ todo' = todo \ {d} /\ pictures' = pictures
      /\ tables' = [tables EXCEPT ![d] = Read(d)]
  BY DEF WriteTable
<1>3. /\ todo \subseteq run.args.only
      /\ \A e \in run.args.only \ todo : tables[e] = rom /\ (e \in Pictured => pictures[e] = rom)
      /\ ~ Lacking(d) /\ (d \in Pictured => pictures[d] = rom)
  BY <1>2 DEF Written, Accepted
<1>4. rom \in Versions /\ rom # None /\ Read(d) = rom
  BY <1>2, <1>3, ReadIsRom, VersionIsNotNone DEF RunFits, Accepted
<1>5. tables \in [Extracted -> Versions \cup {Garbled, None}]
  BY DEF ImportTypeOK
<1>6. \A e \in Extracted : tables'[e] = IF e = d THEN rom ELSE tables[e]
  BY <1>2, <1>4, <1>5
<1>7. d \in todo /\ \A e \in todo \ {d} : Before(d, e)
  BY <1>2 DEF Due
<1>8. run.args.only \subseteq Extracted
  BY <1>2, ArgumentsAssumption DEF RunFits
<1>9. ImportTypeOK'
  <2>1. tables' \in [Extracted -> Versions \cup {Garbled, None}]
    BY <1>2, <1>4, <1>5
  <2> QED BY <1>2, <2>1 DEF ImportTypeOK
<1>10. RunFits'
  BY <1>2 DEF RunFits, Accepted
<1>11. Written'
  <2>1. ASSUME NEW e \in run.args.only \ todo'
        PROVE  tables'[e] = rom /\ (e \in Pictured => pictures'[e] = rom)
    BY <1>2, <1>3, <1>6, <1>8, <2>1
  <2>2. todo' \subseteq run.args.only
    BY <1>2, <1>3
  <2> QED BY <1>2, <2>1, <2>2 DEF Written
<1>12. Emptied'
  <2>1. SUFFICES ASSUME run.args.clean PROVE Emptied'
    BY <1>2 DEF Emptied
  <2>2. /\ \A e \in Extracted : tables[e] # None => tables[e] = rom /\ e \in run.args.only
        /\ \A e \in Pictured : pictures[e] # None => pictures[e] = rom
        /\ run.args.only = Extracted /\ tables["icons"] # None => pictures["sprites"] = rom
    BY <1>2, <2>1 DEF Emptied
  <2>3. \A e \in Extracted : tables'[e] # None => tables'[e] = rom /\ e \in run.args.only
    BY <1>3, <1>6, <1>7, <2>2
  <2>4. ASSUME run.args.only = Extracted, tables'["icons"] # None PROVE pictures["sprites"] = rom
    <3>1. {"icons", "sprites"} \subseteq Extracted /\ "sprites" \in Pictured /\ Before("sprites", "icons")
      BY DatasetsAssumption
    <3>2. CASE d # "icons"
      BY <1>6, <2>2, <2>4, <3>1, <3>2
    <3>3. CASE d = "icons"
      <4>1. ~ Before("icons", "sprites")
        BY <3>1, BeforeIsAsymmetric
      <4>2. "sprites" # "icons"
        OBVIOUS
      <4>3. "sprites" \notin todo
        BY <1>7, <3>3, <4>1, <4>2
      <4> QED BY <1>3, <2>4, <3>1, <4>3
    <3> QED BY <3>2, <3>3
  <2> QED BY <1>2, <2>2, <2>3, <2>4 DEF Emptied
<1>13. Illustrated'
  BY <1>2, <1>3, <1>4, <1>6, DatasetsAssumption DEF Illustrated
<1>14. Ended'
  BY <1>2 DEF Ended, RedAndBlueComplete
<1> QED BY <1>1, <1>9, <1>10, <1>11, <1>12, <1>13, <1>14

\* Fail: a symbol that Yellow's manifest lacks ends the import.
LEMMA FailStep ==
  ASSUME ImportInv, NEW d \in Extracted, Fail(d), UNCHANGED manifestVars
  PROVE  ImportInv'
<1> USE DEF ImportInv
<1> DEFINE rom == run.args.rom
<1>1. ManifestsInv'
  BY DEF ManifestsInv, manifestVars
<1>2. /\ stage = "building" /\ ~ drawn /\ Lacking(d)
      /\ stage' = "failed" /\ run' = run /\ todo' = todo /\ drawn' = drawn /\ tables' = tables
      /\ pictures' = pictures \/ pictures' = [p \in Pictured |-> IF p = d THEN rom ELSE pictures[p]]
  BY DEF Fail
<1>3. rom \in Versions /\ rom # None /\ Fits(run.manifest, rom)
  BY <1>2, VersionIsNotNone DEF RunFits, Accepted
<1>4. \A p \in Pictured : pictures'[p] \in {pictures[p], rom}
  BY <1>2
<1>5. ImportTypeOK'
  <2>1. pictures' \in [Pictured -> Versions \cup {Garbled, None}]
    BY <1>2, <1>3 DEF ImportTypeOK
  <2> QED BY <1>2, <2>1 DEF ImportTypeOK
<1>6. RunFits'
  BY <1>2 DEF RunFits, Accepted
<1>7. Written'
  <2>1. /\ todo \subseteq run.args.only
        /\ \A e \in run.args.only \ todo : tables[e] = rom /\ (e \in Pictured => pictures[e] = rom)
    BY <1>2 DEF Written, Accepted
  <2>2. \A e \in run.args.only \ todo : tables'[e] = rom /\ (e \in Pictured => pictures'[e] = rom)
    BY <1>2, <1>4, <2>1
  <2> QED BY <1>2, <2>1, <2>2 DEF Written
<1>8. Emptied'
  <2>1. "sprites" \in Pictured
    BY DatasetsAssumption
  <2> QED BY <1>2, <1>4, <2>1 DEF Emptied
<1>9. Illustrated'
  BY <1>2, <1>3, <1>4 DEF Illustrated
<1>10. Ended'
  BY <1>2, <1>3, OnlyYellowLacks DEF Ended, RedAndBlueComplete
<1> QED BY <1>1, <1>5, <1>6, <1>7, <1>8, <1>9, <1>10

\* Complete and Kill: an import ends, and nothing is written.
LEMMA EndStep ==
  ASSUME ImportInv, Complete \/ Kill, UNCHANGED manifestVars
  PROVE  ImportInv'
<1> USE DEF ImportInv
<1>1. ManifestsInv'
  BY DEF ManifestsInv, manifestVars
<1>2. UNCHANGED <<run, todo, drawn, tables, pictures>>
  BY DEF Complete, Kill
<1>3. \/ stage = "building" /\ todo = {} /\ stage' = "done"
      \/ stage = "building" /\ stage' = "killed"
      \/ stage = "cleaning" /\ stage' = "half clean"
  BY DEF Complete, Kill, Busy
<1>4. \A d : (Due(d)' <=> Due(d)) /\ (Lacking(d)' <=> Lacking(d))
  BY <1>2 DEF Due, Lacking
<1>5. ImportTypeOK'
  BY <1>2, <1>3 DEF ImportTypeOK
<1>6. RunFits'
  BY <1>2, <1>3 DEF RunFits, Accepted
<1>7. Written'
  BY <1>2, <1>3, <1>4 DEF Written, Accepted
<1>8. Emptied'
  BY <1>2, <1>3 DEF Emptied
<1>9. Illustrated'
  BY <1>2 DEF Illustrated
<1>10. Ended'
  BY <1>2, <1>3 DEF Ended, RedAndBlueComplete
<1> QED BY <1>1, <1>5, <1>6, <1>7, <1>8, <1>9, <1>10

\* A manifest or a checkout that changes leaves an import that has read its manifest alone.
LEMMA ManifestsLeaveImport ==
  ASSUME ImportInv, ManifestsInv', UNCHANGED importVars
  PROVE  ImportInv'
<1> USE DEF ImportInv, importVars
<1>1. \A d : (Due(d)' <=> Due(d)) /\ (Lacking(d)' <=> Lacking(d))
  BY DEF Due, Lacking
<1>2. ImportTypeOK' /\ RunFits'
  BY DEF ImportTypeOK, RunFits, Accepted
<1>3. Written'
  BY <1>1 DEF Written, Accepted
<1>4. Emptied' /\ Illustrated' /\ Ended'
  BY DEF Emptied, Illustrated, Ended, RedAndBlueComplete
<1> QED BY <1>2, <1>3, <1>4

\* At first nothing is imported.
LEMMA ImportStart == ImportInit => ImportInv
<1> SUFFICES ASSUME ImportInit PROVE ImportInv
  OBVIOUS
<1> USE DEF ImportInit
<1>1. ManifestsInv
  BY ManifestsStart
<1>2. /\ stage = "idle" /\ run.args = None /\ todo = {} /\ drawn = FALSE
      /\ \A d \in Extracted : tables[d] = None
  OBVIOUS
<1>3. ImportTypeOK
  BY <1>2 DEF ImportTypeOK
<1>4. RunFits /\ Written /\ Emptied /\ Ended
  BY <1>2 DEF RunFits, Written, Accepted, Emptied, Ended, RedAndBlueComplete
<1>5. Illustrated
  BY <1>2, DatasetsAssumption DEF Illustrated
<1> QED BY <1>1, <1>3, <1>4, <1>5 DEF ImportInv

\* Every step keeps the invariant.
LEMMA ImportStep == ImportInv /\ [ImportNext]_<<manifestVars, importVars>> => ImportInv'
<1> SUFFICES ASSUME ImportInv, [ImportNext]_<<manifestVars, importVars>> PROVE ImportInv'
  OBVIOUS
<1>1. CASE ManifestsNext /\ UNCHANGED importVars
  <2>1. ManifestsInv'
    BY <1>1, ManifestsStep DEF ImportInv
  <2> QED BY <1>1, <2>1, ManifestsLeaveImport
<1>2. CASE UNCHANGED manifestVars /\ \E args \in Arguments : Begin(args)
  BY <1>2, BeginStep
<1>3. CASE UNCHANGED manifestVars /\ \E d \in Extracted : Draw(d) \/ WriteTable(d) \/ Fail(d)
  BY <1>3, DrawStep, WriteTableStep, FailStep
<1>4. CASE UNCHANGED manifestVars /\ Clean
  BY <1>4, CleanStep
<1>5. CASE UNCHANGED manifestVars /\ (Complete \/ Kill)
  BY <1>5, EndStep
<1>6. CASE UNCHANGED <<manifestVars, importVars>>
  <2>1. ManifestsInv'
    BY <1>6 DEF ImportInv, ManifestsInv, manifestVars
  <2> QED BY <1>6, <2>1, ManifestsLeaveImport
<1> QED BY <1>1, <1>2, <1>3, <1>4, <1>5, <1>6 DEF ImportNext

\* The invariant of any number of imports and of edits.
THEOREM ImportSafety == ImportSpec => []ImportInv
<1>1. ImportInit => ImportInv
  BY ImportStart
<1>2. ImportInv /\ [ImportNext]_<<manifestVars, importVars>> => ImportInv'
  BY ImportStep
<1> QED BY <1>1, <1>2, PTL DEF ImportSpec

-----------------------------------------------------------------------------
(***************************************************************************)
(* What the runs check, for every checkout, dataset and command line       *)
(***************************************************************************)

\* The variables of an import keep their types, and pictures are drawn of a dataset that is due.
THEOREM ImportTyped == ImportSpec => []ImportTypeOK
<1>1. ImportInv => ImportTypeOK
  BY DEF ImportInv
<1> QED BY <1>1, ImportSafety, PTL

\* Every manifest that is shipped is complete and has its own version's addresses, however the
\* checkouts changed between the tools.
THEOREM ManifestsAreFit == ImportSpec => []ManifestsFit
<1>1. ImportInv => ManifestsFit
  BY FitManifests DEF ImportInv
<1> QED BY <1>1, ImportSafety, PTL

\* What is done, and what an import that failed or was killed leaves behind, is whole.
LEMMA InvIsWhole == ImportInv => ImportIsWhole
<1> SUFFICES ASSUME ImportInv PROVE ImportIsWhole
  OBVIOUS
<1> USE DEF ImportInv
<1> DEFINE rom == run.args.rom
<1>1. Accepted => rom \in Versions /\ rom # None
  BY VersionIsNotNone DEF RunFits
<1>2. {"icons", "sprites"} \subseteq Pictured /\ Pictured \subseteq Extracted
  BY DatasetsAssumption
<1>3. DoneIsWhole
  <2> SUFFICES ASSUME stage = "done" PROVE DoneIsWhole
    BY DEF DoneIsWhole
  <2>1. \A d \in run.args.only : tables[d] = rom /\ (d \in Pictured => pictures[d] = rom)
    BY DEF Ended, Written, Accepted
  <2>2. run.args.clean => \A d \in Extracted \ run.args.only : tables[d] = None
    BY DEF Emptied
  <2> QED BY <2>1, <2>2 DEF DoneIsWhole
<1>4. TablesHavePictures
  <2>1. \A d \in Pictured : tables[d] # None => pictures[d] # None
    BY DEF Illustrated
  <2>2. ASSUME stage \in {"building", "failed", "killed", "done"}, run.args.clean
        PROVE  /\ \A d \in Pictured : tables[d] # None => tables[d] = pictures[d]
               /\ run.args.only = Extracted /\ tables["icons"] # None => pictures["sprites"] = tables["icons"]
    <3>1. /\ \A d \in Extracted : tables[d] # None => tables[d] = rom
          /\ \A d \in Pictured : pictures[d] # None => pictures[d] = rom
          /\ run.args.only = Extracted /\ tables["icons"] # None => pictures["sprites"] = rom
      BY <2>2 DEF Emptied
    <3> QED BY <1>2, <2>1, <3>1
  <2> QED BY <2>1, <2>2 DEF TablesHavePictures
<1>5. RedAndBlueComplete
  BY DEF Ended
<1> QED BY <1>3, <1>4, <1>5 DEF ImportIsWhole

\* An import leaves whole tables with their pictures, however it ends, and only Yellow's can
\* fail for want of a symbol.
THEOREM ImportLeavesWhole == ImportSpec => []ImportIsWhole
<1>1. ImportInv => ImportIsWhole
  BY InvIsWhole
<1> QED BY <1>1, ImportSafety, PTL

\* A step that writes or removes a file is one of an accepted import.
LEMMA OnlyAcceptedWrites ==
  ASSUME ImportInv, [ImportNext]_<<manifestVars, importVars>>, <<tables, pictures>>' # <<tables, pictures>>
  PROVE  run.args.rom = run.manifest.sha
<1>1. stage \in {"cleaning", "building"}
  BY DEF ImportNext, importVars, Begin, Clean, Draw, WriteTable, Fail, Complete, Kill
<1>2. Fits(run.manifest, run.args.rom)
  BY <1>1 DEF ImportInv, RunFits, Accepted
<1> DEFINE m == run.manifest
<1>3. m = [sha |-> run.args.rom, labels |-> m.labels, headers |-> m.headers, songs |-> m.songs,
           music |-> m.music, symbols |-> m.symbols]
  BY <1>2 DEF Fits
<1> HIDE DEF m
<1>4. m.sha = run.args.rom
  BY <1>3
<1> QED BY <1>4 DEF m

\* An import that is refused leaves what is there, with --clean too.
THEOREM RefusedIsHarmless == ImportSpec => RefusedTouchesNothing
<1>1. ImportInv /\ [ImportNext]_<<manifestVars, importVars>>
        => [<<tables, pictures>>' # <<tables, pictures>> => run.args.rom = run.manifest.sha]_<<manifestVars, importVars>>
  BY OnlyAcceptedWrites
<1> QED BY <1>1, ImportSafety, PTL DEF ImportSpec, RefusedTouchesNothing
=============================================================================
