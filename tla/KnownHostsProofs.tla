------------------------- MODULE KnownHostsProofs -------------------------
(***************************************************************************)
(* The trust properties of KnownHosts, for any hosts, fingerprints, files  *)
(* and faults.  The first two rest on one invariant: the places where the  *)
(* store is about to be written are reached only through the user's yes,   *)
(* and that yes does not outlive the check; what Lookup computes is not    *)
(* needed for them.  The second part follows fingerprints through torn and *)
(* merged lines.  The third is about a disk with room: what the file says  *)
(* of each host, and the table of TrustStore that it implements.           *)
(***************************************************************************)
EXTENDS KnownHosts, TLAPS, WellFoundedInduction

(* The places behind prompt_trust.                                         *)
Saving == {"append", "copy", "remove", "rename"}

ConsentInv ==
    /\ pc \in {"idle", "lookup", "promptNew", "promptChanged"} \cup Saving
    /\ pc # "idle" => verdict = "pending"
    /\ pc \in Saving => said
    /\ pc \in {"lookup", "promptNew", "promptChanged"} => ~said

(* No certificate is trusted at the first state.                           *)
LEMMA ConsentInit == Init => ConsentInv
BY DEF Init, ConsentInv, Saving

(* A crash, or a check that ends, leaves pc at "idle"; the next one starts *)
(* without consent.                                                        *)
LEMMA ConsentStep == ConsentInv /\ [Next]_vars => ConsentInv'
<1> SUFFICES ASSUME ConsentInv, [Next]_vars PROVE ConsentInv'
  OBVIOUS
<1> USE DEF ConsentInv, Saving, Trust, Reject, Gap
<1>1. ASSUME NEW h \in Hosts, NEW fp \in Fps, Check(h, fp) PROVE ConsentInv'
  BY <1>1 DEF Check
<1>2. CASE KnownMatch \/ KnownUnsupported \/ Prompt
  BY <1>2 DEF KnownMatch, KnownUnsupported, Prompt
<1>3. CASE Declines \/ Accepts
  BY <1>3 DEF Declines, Accepts
<1>4. CASE AppendEntry \/ AppendFailed
  BY <1>4 DEF AppendEntry, AppendFailed
<1>5. CASE CopyToTmp \/ CopyFailed
  BY <1>5 DEF CopyToTmp, CopyFailed
<1>6. CASE RemoveOld \/ RenameTmp \/ RenameFailed
  BY <1>6 DEF RemoveOld, RenameTmp, RenameFailed
<1>7. CASE Crash
  BY <1>7 DEF Crash
<1>8. CASE UNCHANGED vars
  BY <1>8 DEF vars
<1> QED BY <1>1, <1>2, <1>3, <1>4, <1>5, <1>6, <1>7, <1>8 DEF Next

(* Whoever is about to save was told yes, and whoever concludes has a      *)
(* reason (tofu.c:141-226).                                                *)
THEOREM ConsentInvariant == Spec => []ConsentInv
BY ConsentInit, ConsentStep, PTL DEF Spec

(* No fault of the disk, no crash and no hand-edited file makes a stranger *)
(* trusted: nos_tofu_check returns 0 for a stored fingerprint or after the *)
(* user's yes to this very one.                                            *)
THEOREM TrustNeedsReason == Spec => TrustedForAReason
<1>1. ASSUME ConsentInv, [Next]_vars, pc # "idle", verdict' = "trusted"
      PROVE  said \/ Lookup(store.lines, req.host) = req.fp
  <2>1. KnownMatch \/ AppendEntry \/ RenameTmp
    BY <1>1
    DEF Next, Check, KnownUnsupported, Prompt, Declines, Accepts, AppendFailed,
        CopyToTmp, CopyFailed, RemoveOld, RenameFailed, Crash, Trust, Reject, Gap, vars,
        ConsentInv
  <2>2. CASE KnownMatch
    BY <2>2 DEF KnownMatch
  <2>3. CASE AppendEntry \/ RenameTmp
    BY <1>1, <2>3 DEF AppendEntry, RenameTmp, Gap, ConsentInv, Saving
  <2> QED BY <2>1, <2>2, <2>3
<1>2. ConsentInv /\ [Next]_vars =>
        [pc # "idle" /\ verdict' = "trusted" =>
           said \/ Lookup(store.lines, req.host) = req.fp]_vars
  BY <1>1
<1> QED BY <1>2, ConsentInvariant, PTL DEF Spec, TrustedForAReason

(* known_hosts.txt is removed, replaced or appended to only after the      *)
(* user's yes.                                                             *)
THEOREM StoreChangesWithConsent == Spec => StoreNeedsConsent
<1>1. ASSUME ConsentInv, [Next]_vars, store' # store PROVE said
  <2>1. AppendEntry \/ RemoveOld \/ RenameTmp
    BY <1>1
    DEF Next, Check, KnownMatch, KnownUnsupported, Prompt, Declines, Accepts,
        AppendFailed, CopyToTmp, CopyFailed, RenameFailed, Crash, Trust, Reject, Gap, vars
  <2> QED BY <1>1, <2>1 DEF AppendEntry, RemoveOld, RenameTmp, Gap, ConsentInv, Saving
<1>2. ConsentInv /\ [Next]_vars => [store' # store => said]_vars
  BY <1>1
<1> QED BY <1>2, ConsentInvariant, PTL DEF Spec, StoreNeedsConsent

-----------------------------------------------------------------------------
(* What Lookup finds: the first line of a host, whose existence is a       *)
(* minimum of a set of numbers.                                            *)
Value(line) == IF line.algo # "SHA256" THEN Unsupported ELSE line.fp

Finished(lines) == \A i \in 1..Len(lines) : lines[i].nl

(* A host that is in the file has a first line.                            *)
LEMMA FirstMatch ==
    ASSUME NEW lines \in Seq(Lines), NEW h,
           \E i \in 1..Len(lines) : Matches(lines[i], h)
    PROVE  \E i \in 1..Len(lines) :
              Matches(lines[i], h)
              /\ \A j \in 1..(i - 1) : ~Matches(lines[j], h)
<1> DEFINE T == {i \in 1..Len(lines) : Matches(lines[i], h)}
<1>1. T \subseteq Nat /\ T # {}
  OBVIOUS
<1>2. PICK i \in T : \A j \in T : ~(<<j, i>> \in OpToRel(<, Nat))
  BY <1>1, NatLessThanWellFounded, WFMin
<1>3. \A j \in T : ~(j < i)
  BY <1>1, <1>2 DEF OpToRel
<1> QED  BY <1>1, <1>3

(* What check_known_host makes of a file without the host,                 *)
LEMMA LookupNone ==
    ASSUME NEW lines \in Seq(Lines), NEW h,
           \A i \in 1..Len(lines) : ~Matches(lines[i], h)
    PROVE  Lookup(lines, h) = NoFp
BY DEF Lookup, SelectInSeq

(* and of the first line of the host.                                      *)
LEMMA LookupAt ==
    ASSUME NEW lines \in Seq(Lines), NEW h, NEW i \in 1..Len(lines),
           Matches(lines[i], h), \A j \in 1..(i - 1) : ~Matches(lines[j], h)
    PROVE  Lookup(lines, h) = Value(lines[i])
<1> DEFINE I == {j \in 1..Len(lines) : Matches(lines[j], h)}
<1>1. i \in I /\ \A j \in I : i <= j
  OBVIOUS
<1>2. Min(I) = i
  BY <1>1 DEF Min
<1>3. SelectInSeq(lines, LAMBDA line : Matches(line, h)) = i
  BY <1>1, <1>2 DEF SelectInSeq
<1> QED  BY <1>3 DEF Lookup, Value

(* It is a fingerprint of a line, or says that there is none to compare.   *)
LEMMA LookupType ==
    ASSUME NEW F, NEW lines \in Seq(Lines), NEW h,
           \A i \in 1..Len(lines) : lines[i].fp \in F \cup {Garbled}
    PROVE  Lookup(lines, h) \in F \cup {Garbled, NoFp, Unsupported}
<1>1. CASE \E i \in 1..Len(lines) : Matches(lines[i], h)
  <2>1. PICK i \in 1..Len(lines) :
            Matches(lines[i], h) /\ \A j \in 1..(i - 1) : ~Matches(lines[j], h)
    BY <1>1, FirstMatch
  <2>2. Lookup(lines, h) = Value(lines[i])
    BY <2>1, LookupAt
  <2> QED  BY <2>2 DEF Value
<1>2. CASE \A i \in 1..Len(lines) : ~Matches(lines[i], h)
  BY <1>2, LookupNone
<1> QED  BY <1>1, <1>2

(* NoFp is only found where the host has no line.                          *)
LEMMA NoFpMeansNone ==
    ASSUME NEW lines \in Seq(Lines), NEW h, Lookup(lines, h) = NoFp
    PROVE  \A i \in 1..Len(lines) : ~Matches(lines[i], h)
<1> SUFFICES ASSUME \E i \in 1..Len(lines) : Matches(lines[i], h) PROVE FALSE
  OBVIOUS
<1>1. PICK i \in 1..Len(lines) :
          Matches(lines[i], h) /\ \A j \in 1..(i - 1) : ~Matches(lines[j], h)
  BY FirstMatch
<1>2. lines[i] \in Lines /\ Lookup(lines, h) = Value(lines[i])
  BY <1>1, LookupAt
<1> QED  BY <1>2, KnownHostsAssumption DEF Value, Lines

-----------------------------------------------------------------------------
(* Every file is a text file: only its last line may lack a newline.  The  *)
(* fingerprints in it that can be read are among F.                        *)
LinesOf(F) == {line \in Lines : line.fp \in F \cup {Garbled}}

TextFile(F, lines) ==
    /\ lines \in Seq(LinesOf(F))
    /\ \A i \in 1..(Len(lines) - 1) : lines[i].nl

(* Neither tearing a line nor writing behind a torn one makes a            *)
(* fingerprint that was not there.                                         *)
LEMMA LinesWritten ==
    ASSUME NEW F \in SUBSET Fps
    PROVE  /\ \A k \in Hosts, fp \in F : /\ Entry(k, fp) \in LinesOf(F)
                                         /\ Entry(k, fp).nl
           /\ \A line \in LinesOf(F) : Torn(line) \subseteq LinesOf(F)
           /\ \A line, text \in LinesOf(F) : Merged(line, text) \subseteq LinesOf(F)
<1>1. \A k \in Hosts, fp \in F : Entry(k, fp) \in LinesOf(F) /\ Entry(k, fp).nl
  BY DEF Entry, LinesOf, Lines
<1>2. ASSUME NEW line \in LinesOf(F), NEW new \in Torn(line)
      PROVE  new \in LinesOf(F)
  <2>1. CASE new = [line EXCEPT !.nl = FALSE]
    BY <2>1 DEF LinesOf, Lines
  <2>2. CASE new = [key |-> NoHost, algo |-> "key", fp |-> Garbled, nl |-> FALSE]
    BY <2>2 DEF LinesOf, Lines
  <2>3. CASE new = [line EXCEPT !.algo = "none", !.fp = Garbled, !.nl = FALSE]
    BY <2>3 DEF LinesOf, Lines
  <2>4. CASE new = [line EXCEPT !.fp = Garbled, !.nl = FALSE]
    BY <2>4 DEF LinesOf, Lines
  <2> QED  BY <1>2, <2>1, <2>2, <2>3, <2>4 DEF Torn
<1>3. ASSUME NEW line \in LinesOf(F), NEW text \in LinesOf(F),
             NEW new \in Merged(line, text)
      PROVE  new \in LinesOf(F)
  <2>1. CASE line.algo = "comment"
    BY <1>3, <2>1 DEF Merged, LinesOf, Lines
  <2>2. CASE line.algo = "key"
    <3>1. PICK k \in Hosts \cup {NoHost} : new = [text EXCEPT !.key = k]
      BY <1>3, <2>2 DEF Merged
    <3> QED  BY <3>1 DEF LinesOf, Lines
  <2>3. CASE line.algo = "none"
    <3>1. PICK algo \in {"SHA256", "other", "none"} :
              new = [line EXCEPT !.algo = algo, !.fp = Garbled, !.nl = text.nl]
      BY <1>3, <2>3 DEF Merged
    <3> QED  BY <3>1 DEF LinesOf, Lines
  <2>4. CASE line.algo \notin {"comment", "key", "none"}
    <3>1. new = [line EXCEPT !.fp = Garbled, !.nl = text.nl]
      BY <1>3, <2>4 DEF Merged
    <3> QED  BY <3>1 DEF LinesOf, Lines
  <2> QED  BY <2>1, <2>2, <2>3, <2>4
<1> QED  BY <1>1, <1>2, <1>3

(* The first lines of a file.                                              *)
LEMMA PrefixText ==
    ASSUME NEW F, NEW lines \in Seq(LinesOf(F)), NEW l \in 0..Len(lines)
    PROVE  /\ SubSeq(lines, 1, l) \in Seq(LinesOf(F))
           /\ Len(SubSeq(lines, 1, l)) = l
           /\ \A i \in 1..l : SubSeq(lines, 1, l)[i] = lines[i]
OBVIOUS

(* A text file with one more line, or with another last line.              *)
LEMMA LastLine ==
    ASSUME NEW F, NEW lines, TextFile(F, lines), NEW l \in 0..Len(lines),
           \A i \in 1..l : lines[i].nl, NEW text \in LinesOf(F)
    PROVE  TextFile(F, Append(SubSeq(lines, 1, l), text))
<1> DEFINE first == SubSeq(lines, 1, l)
           new   == Append(first, text)
<1>1. lines \in Seq(LinesOf(F))
  BY DEF TextFile
<1>2. /\ first \in Seq(LinesOf(F)) /\ Len(first) = l
      /\ \A i \in 1..l : first[i] = lines[i]
  BY <1>1, PrefixText
<1> HIDE DEF first
<1>3. /\ new \in Seq(LinesOf(F)) /\ Len(new) = l + 1
      /\ \A i \in 1..l : new[i] = first[i]
  BY <1>2
<1>4. \A i \in 1..(Len(new) - 1) : new[i].nl
  BY <1>2, <1>3
<1> HIDE DEF new
<1>5. TextFile(F, new)
  BY <1>3, <1>4 DEF TextFile
<1> QED  BY <1>5 DEF new, first

(* Appending keeps a text file one.                                        *)
LEMMA AppendedText ==
    ASSUME NEW F \in SUBSET Fps, NEW lines, TextFile(F, lines),
           NEW text \in LinesOf(F), NEW new \in Appended(lines, text)
    PROVE  TextFile(F, new)
<1> DEFINE n == Len(lines)
<1>1. lines \in Seq(LinesOf(F)) /\ n \in Nat /\ \A i \in 1..(n - 1) : lines[i].nl
  BY DEF TextFile
<1>2. CASE lines # <<>> /\ ~Last(lines).nl
  <2>1. n # 0 /\ Last(lines) \in LinesOf(F)
    BY <1>1, <1>2 DEF Last
  <2>2. PICK line \in Merged(Last(lines), text) : new = Append(Front(lines), line)
    BY <1>2 DEF Appended
  <2>3. line \in LinesOf(F)
    BY <2>1, <2>2, LinesWritten
  <2>4. n - 1 \in 0..n /\ Front(lines) = SubSeq(lines, 1, n - 1)
    BY <1>1, <2>1 DEF Front
  <2> QED  BY <1>1, <2>2, <2>3, <2>4, LastLine
<1>3. CASE ~(lines # <<>> /\ ~Last(lines).nl)
  <2>1. new = Append(lines, text)
    BY <1>3 DEF Appended
  <2>2. \A i \in 1..n : lines[i].nl
    <3>1. n # 0 => lines[n].nl
      BY <1>1, <1>3 DEF Last
    <3> QED  BY <1>1, <3>1
  <2>3. lines = SubSeq(lines, 1, n) /\ n \in 0..n
    BY <1>1
  <2> QED  BY <2>1, <2>2, <2>3, LastLine
<1> QED  BY <1>2, <1>3

(* So does cutting one at any byte.                                        *)
LEMMA CutText ==
    ASSUME NEW F \in SUBSET Fps, NEW lines, TextFile(F, lines),
           NEW new \in CutAnywhere(lines)
    PROVE  TextFile(F, new)
<1>1. lines \in Seq(LinesOf(F)) /\ \A i \in 1..(Len(lines) - 1) : lines[i].nl
  BY DEF TextFile
<1>2. CASE new \in Prefixes(lines)
  <2>1. PICK l \in 0..Len(lines) : new = SubSeq(lines, 1, l)
    BY <1>2 DEF Prefixes
  <2>2. /\ new \in Seq(LinesOf(F)) /\ Len(new) = l
        /\ \A i \in 1..l : new[i] = lines[i]
    BY <1>1, <2>1, PrefixText
  <2> QED  BY <1>1, <2>2 DEF TextFile
<1>3. ASSUME NEW i \in DOMAIN lines, NEW text \in Torn(lines[i]),
             new = Append(SubSeq(lines, 1, i - 1), text)
      PROVE  TextFile(F, new)
  <2>1. i \in 1..Len(lines) /\ lines[i] \in LinesOf(F)
    BY <1>1
  <2>2. text \in LinesOf(F)
    BY <2>1, LinesWritten
  <2>3. i - 1 \in 0..Len(lines) /\ \A j \in 1..(i - 1) : lines[j].nl
    BY <1>1, <2>1
  <2> QED  BY <1>3, <2>2, <2>3, LastLine
<1> QED  BY <1>2, <1>3 DEF CutAnywhere

(* What can be on the disk after the append, and in the copy.              *)
LEMMA FilesWritten ==
    ASSUME NEW F \in SUBSET Fps, NEW lines, TextFile(F, lines),
           NEW k \in Hosts, NEW fp \in F
    PROVE  /\ \A new \in Written(lines, Entry(k, fp)) : TextFile(F, new)
           /\ \A new \in Copied(lines, Entry(k, fp)) : TextFile(F, new)
<1> DEFINE e == Entry(k, fp)
           n == Len(lines)
           copy == [i \in DOMAIN lines |->
                      IF Matches(lines[i], e.key) THEN e ELSE lines[i]]
<1>1. e \in LinesOf(F) /\ e.nl /\ Torn(e) \subseteq LinesOf(F)
  BY LinesWritten
<1>2. lines \in Seq(LinesOf(F)) /\ n \in Nat /\ \A i \in 1..(n - 1) : lines[i].nl
  BY DEF TextFile
<1> HIDE DEF e
<1>3. \A text \in {e} \cup Torn(e) : \A new \in Appended(lines, text) : TextFile(F, new)
  BY <1>1, AppendedText
<1>4. \A new \in Written(lines, e) : TextFile(F, new)
  BY <1>3 DEF Written
<1>5. TextFile(F, copy)
  <2>1. copy \in Seq(LinesOf(F)) /\ Len(copy) = n
    BY <1>1, <1>2
  <2>2. \A i \in 1..(n - 1) : copy[i].nl
    BY <1>1, <1>2
  <2> QED  BY <2>1, <2>2 DEF TextFile
<1>6. ASSUME NEW new \in Updated(lines, e) PROVE TextFile(F, new)
  <2>1. new = copy \/ new \in Appended(copy, e)
    BY <1>6 DEF Updated
  <2>2. \A appended \in Appended(copy, e) : TextFile(F, appended)
    BY <1>1, <1>5, AppendedText
  <2> QED  BY <1>5, <2>1, <2>2
<1>7. \A new \in Copied(lines, e) : TextFile(F, new)
  BY <1>6, CutText DEF Copied
<1> QED  BY <1>4, <1>7 DEF e

(* What was granted is more after each yes.                                *)
LEMMA TextGrows ==
    ASSUME NEW F, NEW G, F \subseteq G, NEW lines, TextFile(F, lines)
    PROVE  TextFile(G, lines)
<1>1. LinesOf(F) \subseteq LinesOf(G)
  BY DEF LinesOf
<1> QED  BY <1>1 DEF TextFile

(* In a text file a line is a line.                                        *)
LEMMA TextLines ==
    ASSUME NEW F, NEW lines, TextFile(F, lines)
    PROVE  /\ lines \in Seq(Lines)
           /\ \A i \in 1..Len(lines) : lines[i] \in LinesOf(F)
<1>1. LinesOf(F) \subseteq Lines
  BY DEF LinesOf
<1> QED  BY <1>1 DEF TextFile

(* Every fingerprint on the disk was granted, and so is the one that is    *)
(* being saved.                                                            *)
GrantInv ==
    /\ TypeOK
    /\ TextFile(granted, store.lines) /\ TextFile(granted, tmp.lines)
    /\ pc \in Saving => req.fp \in granted
    /\ CertificateWasGranted

(* Every step writes files of text, with fingerprints that were granted.   *)
LEMMA GrantStep == ConsentInv /\ GrantInv /\ [Next]_vars => GrantInv'
<1> SUFFICES ASSUME ConsentInv, GrantInv, [Next]_vars PROVE GrantInv'
  OBVIOUS
<1>inv. /\ FileOK(store) /\ FileOK(tmp)
        /\ TextFile(granted, store.lines) /\ TextFile(granted, tmp.lines)
        /\ req \in [host : Hosts, fp : Fps]
        /\ req.host \in Hosts /\ req.fp \in Fps
        /\ granted \in SUBSET Fps
        /\ known \in [Hosts -> Fps \cup {NoFp}]
  BY DEF GrantInv, TypeOK
<1>empty. \A F : FileOK(NoFile) /\ TextFile(F, NoFile.lines)
  BY DEF NoFile, FileOK, TextFile
<1>file. ASSUME NEW lines, TextFile(granted, lines)
         PROVE  FileOK(File(lines)) /\ TextFile(granted, File(lines).lines)
  BY <1>file, TextLines DEF File, FileOK
<1>trust. ASSUME Trust PROVE /\ pc' = "idle" /\ verdict' = "trusted"
                             /\ UNCHANGED <<req, said, crashes, granted>>
                             /\ known' \in [Hosts -> Fps \cup {NoFp}]
  BY <1>inv, <1>trust DEF Trust
<1>reject. ASSUME Reject PROVE /\ pc' = "idle" /\ verdict' = "rejected"
                               /\ UNCHANGED <<req, said, granted>>
                               /\ known' \in [Hosts -> Fps \cup {NoFp}]
  BY <1>inv, <1>reject DEF Reject
<1> USE DEF Saving, CertificateWasGranted
<1>1. ASSUME NEW h \in Hosts, NEW fp \in Fps, Check(h, fp) PROVE GrantInv'
  BY <1>1 DEF Check, GrantInv, TypeOK
<1>2. CASE KnownMatch
  <2>1. Lookup(store.lines, req.host) \in granted \cup {Garbled, NoFp, Unsupported}
    <3>1. /\ store.lines \in Seq(Lines)
          /\ \A i \in 1..Len(store.lines) : store.lines[i] \in LinesOf(granted)
      BY <1>inv, TextLines
    <3>2. \A i \in 1..Len(store.lines) : store.lines[i].fp \in granted \cup {Garbled}
      BY <3>1 DEF LinesOf
    <3> QED  BY <3>1, <3>2, LookupType
  <2>2. req.fp \in granted
    BY <1>2, <1>inv, <2>1, KnownHostsAssumption DEF KnownMatch
  <2> QED  BY <1>2, <1>trust, <2>2 DEF KnownMatch, GrantInv, TypeOK
<1>3. CASE KnownUnsupported \/ Declines \/ AppendFailed \/ CopyFailed \/ RenameFailed
  BY <1>3, <1>reject
  DEF KnownUnsupported, Declines, AppendFailed, CopyFailed, RenameFailed,
      GrantInv, TypeOK
<1>4. CASE Prompt
  BY <1>4 DEF Prompt, GrantInv, TypeOK, ConsentInv
<1>5. CASE Accepts
  <2>1. granted' = granted \cup {req.fp} /\ UNCHANGED <<store, tmp>>
    BY <1>5 DEF Accepts
  <2>2. TextFile(granted', store'.lines) /\ TextFile(granted', tmp'.lines)
    BY <1>inv, <2>1, TextGrows
  <2> QED  BY <1>5, <1>inv, <2>1, <2>2 DEF Accepts, GrantInv, TypeOK
<1>6. CASE AppendEntry
  <2>1. req.fp \in granted
    BY <1>6 DEF AppendEntry, GrantInv
  <2>2. PICK lines \in Written(store.lines, Entry(req.host, req.fp)) :
            store' = File(lines)
    BY <1>6 DEF AppendEntry
  <2>3. FileOK(store') /\ TextFile(granted, store'.lines)
    BY <1>inv, <1>file, <2>1, <2>2, FilesWritten
  <2> QED
    BY <1>6, <1>trust, <2>1, <2>3 DEF AppendEntry, GrantInv, TypeOK, TextFile
<1>7. CASE CopyToTmp
  <2>1. req.fp \in granted
    BY <1>7 DEF CopyToTmp, GrantInv
  <2>2. PICK lines \in Copied(store.lines, Entry(req.host, req.fp)) :
            tmp' = File(lines)
    BY <1>7 DEF CopyToTmp
  <2>3. FileOK(tmp') /\ TextFile(granted, tmp'.lines)
    BY <1>inv, <1>file, <2>1, <2>2, FilesWritten
  <2> QED  BY <1>7, <2>3 DEF CopyToTmp, GrantInv, TypeOK
<1>8. CASE RemoveOld
  BY <1>8, <1>empty DEF RemoveOld, GrantInv, TypeOK, TextFile
<1>9. CASE RenameTmp
  <2>1. /\ store' = tmp /\ tmp' = NoFile /\ pc = "rename"
    BY <1>9 DEF RenameTmp, Gap
  <2>2. Trust
    BY <1>9 DEF RenameTmp
  <2> QED  BY <1>empty, <1>trust, <2>1, <2>2 DEF GrantInv, TypeOK, TextFile
<1>10. CASE Crash
  <2>1. Reject /\ UNCHANGED <<store, tmp>> /\ crashes' \in Nat
    BY <1>10 DEF Crash, GrantInv, TypeOK
  <2> QED  BY <1>reject, <2>1 DEF GrantInv, TypeOK
<1>11. CASE UNCHANGED vars
  BY <1>11 DEF vars, GrantInv, TypeOK
<1> QED
  BY <1>1, <1>2, <1>3, <1>4, <1>5, <1>6, <1>7, <1>8, <1>9, <1>10, <1>11 DEF Next

(* Whoever holds files may hold any text files in the beginning.           *)
StoresAreText ==
    \A f \in InitialStores : FileOK(f) /\ TextFile(Fps, f.lines)

LEMMA GrantInit == StoresAreText /\ Init => GrantInv
<1> SUFFICES ASSUME StoresAreText, Init PROVE GrantInv
  OBVIOUS
<1> DEFINE lines == store.lines
<1>1. FileOK(store) /\ TextFile(Fps, lines)
  BY DEF Init, StoresAreText
<1>2. /\ lines \in Seq(Lines) /\ \A i \in 1..Len(lines) : lines[i] \in Lines
      /\ \A i \in 1..(Len(lines) - 1) : lines[i].nl
  BY <1>1, TextLines DEF TextFile
<1>3. granted = {line.fp : line \in Range(lines)} \cap Fps
  BY DEF Init
<1> HIDE DEF lines
<1>4. \A i \in 1..Len(lines) : lines[i].fp \in granted \cup {Garbled}
  BY <1>2, <1>3 DEF Range, Lines
<1>5. lines \in Seq(LinesOf(granted))
  <2>1. \A i \in 1..Len(lines) : lines[i] \in LinesOf(granted)
    BY <1>2, <1>4 DEF LinesOf
  <2> QED  BY <1>2, <2>1
<1>6. TextFile(granted, lines)
  BY <1>2, <1>5 DEF TextFile
<1>7. FileOK(NoFile) /\ TextFile(granted, NoFile.lines)
  BY DEF NoFile, FileOK, TextFile
<1>8. known \in [Hosts -> Fps \cup {NoFp}] /\ granted \in SUBSET Fps
  BY <1>3 DEF Init
<1> QED
  BY <1>1, <1>2, <1>6, <1>7, <1>8
  DEF Init, GrantInv, TypeOK, Saving, CertificateWasGranted, lines

(* What is on the disk after any faults, and what the user granted.        *)
THEOREM GrantInvariant ==
    ASSUME StoresAreText
    PROVE  Spec => []GrantInv
<1>1. Init => GrantInv
  BY GrantInit
<1> QED  BY <1>1, GrantStep, ConsentInvariant, PTL DEF Spec

(* Whatever the disk does and however the user edited the file, every      *)
(* line that is read has a type, and only the last one of the store may be *)
(* unfinished.                                                             *)
THEOREM KnownHostsTypeCorrect ==
    ASSUME StoresAreText
    PROVE  Spec => []TypeOK
<1>1. GrantInv => TypeOK
  BY DEF GrantInv
<1> QED  BY <1>1, GrantInvariant, PTL

(* No line that a full disk tore, no file that a crash left and no text    *)
(* that ran into other text ever reads as a fingerprint that the user did  *)
(* not say yes to or store: nos_tofu_check returns 0 for no other          *)
(* certificate (tofu.c:90-226).                                            *)
THEOREM OnlyGrantedTrusted ==
    ASSUME StoresAreText
    PROVE  Spec => []CertificateWasGranted
<1>1. GrantInv => CertificateWasGranted
  BY DEF GrantInv
<1> QED  BY <1>1, GrantInvariant, PTL

-----------------------------------------------------------------------------
(***************************************************************************)
(* While the disk has room, known_hosts.txt is the table of TrustStore for *)
(* any hosts and any file whose lines are finished: what Lookup finds in   *)
(* it is what was accepted last.                                           *)
(***************************************************************************)
(* The line that is written for a host.                                    *)
LEMMA EntryOK ==
    ASSUME NEW k \in Hosts, NEW fp \in Fps
    PROVE  /\ Entry(k, fp) \in Lines /\ Entry(k, fp).nl
           /\ Value(Entry(k, fp)) = fp
           /\ \A h : Matches(Entry(k, fp), h) <=> h = k
BY DEF Entry, Lines, Value, Matches

(* The file says of host k what was accepted, and of the others what it    *)
(* said before.                                                            *)
Says(new, lines, k, fp) ==
    /\ new \in Seq(Lines) /\ Finished(new)
    /\ Lookup(new, k) = fp
    /\ \A h \in Hosts \ {k} : Lookup(new, h) = Lookup(lines, h)

(* fopen "a": a new host's line behind a finished file (tofu.c:196-205).   *)
LEMMA AppendedFile ==
    ASSUME NEW lines \in Seq(Lines), Finished(lines),
           NEW k \in Hosts, NEW fp \in Fps,
           \A i \in 1..Len(lines) : ~Matches(lines[i], k),
           NEW new \in Appended(lines, Entry(k, fp))
    PROVE  Says(new, lines, k, fp)
<1> DEFINE n == Len(lines)
<1>1. new = Append(lines, Entry(k, fp))
  BY DEF Appended, Finished, Last
<1>2. Entry(k, fp) \in Lines /\ Entry(k, fp).nl
  BY EntryOK
<1>3. /\ new \in Seq(Lines) /\ Len(new) = n + 1
      /\ \A i \in 1..n : new[i] = lines[i]
      /\ new[n + 1] = Entry(k, fp)
  BY <1>1, <1>2
<1>4. Finished(new)
  BY <1>2, <1>3 DEF Finished
<1>5. Lookup(new, k) = fp
  <2>1. Matches(new[n + 1], k) /\ Value(new[n + 1]) = fp
    BY <1>3, EntryOK
  <2>2. \A j \in 1..(n + 1 - 1) : ~Matches(new[j], k)
    BY <1>3
  <2>3. n + 1 \in 1..Len(new)
    BY <1>3
  <2> QED  BY <1>3, <2>1, <2>2, <2>3, LookupAt
<1>6. ASSUME NEW h \in Hosts \ {k} PROVE Lookup(new, h) = Lookup(lines, h)
  <2>1. ~Matches(new[n + 1], h)
    BY <1>3, EntryOK
  <2>2. CASE \E i \in 1..n : Matches(lines[i], h)
    <3>1. PICK i \in 1..n :
              Matches(lines[i], h) /\ \A j \in 1..(i - 1) : ~Matches(lines[j], h)
      BY <2>2, FirstMatch
    <3>2. /\ i \in 1..Len(new) /\ Matches(new[i], h) /\ new[i] = lines[i]
          /\ \A j \in 1..(i - 1) : ~Matches(new[j], h)
      BY <1>3, <3>1
    <3> QED  BY <1>3, <3>1, <3>2, LookupAt
  <2>3. CASE \A i \in 1..n : ~Matches(lines[i], h)
    <3>1. \A i \in 1..Len(new) : ~Matches(new[i], h)
      BY <1>3, <2>1, <2>3
    <3> QED  BY <1>3, <2>3, <3>1, LookupNone
  <2> QED  BY <2>2, <2>3
<1> QED  BY <1>3, <1>4, <1>5, <1>6 DEF Says

(* The copy of update_known_hosts_file changes what the file says of the   *)
(* one host and of no other, duplicates included (tofu.c:90-132).          *)
LEMMA UpdatedFile ==
    ASSUME NEW lines \in Seq(Lines), Finished(lines),
           NEW k \in Hosts, NEW fp \in Fps, NEW new \in Updated(lines, Entry(k, fp))
    PROVE  Says(new, lines, k, fp)
<1> DEFINE e == Entry(k, fp)
           n == Len(lines)
           copy == [i \in 1..n |-> IF Matches(lines[i], k) THEN e ELSE lines[i]]
<1>1. /\ e \in Lines /\ e.nl /\ e.key = k /\ Value(e) = fp
      /\ \A h : Matches(e, h) <=> h = k
  BY EntryOK DEF Entry
<1>2. n \in Nat /\ DOMAIN lines = 1..n /\ \A i \in 1..n : lines[i] \in Lines
  OBVIOUS
<1> HIDE DEF e, n
<1>3. new \in IF \E i \in 1..n : Matches(lines[i], k)
             THEN {copy} ELSE Appended(copy, e)
  BY <1>1, <1>2 DEF Updated, e
<1>4. CASE \E i \in 1..n : Matches(lines[i], k)
  <2>1. copy \in Seq(Lines) /\ Len(copy) = n
    BY <1>1, <1>2
  <2>2. Finished(copy)
    BY <1>1, <2>1, <1>2 DEF Finished, n
  <2>3. \A i \in 1..n : Matches(copy[i], k) <=> Matches(lines[i], k)
    BY <1>1
  <2>4. Lookup(copy, k) = fp
    <3>1. PICK i \in 1..n :
              Matches(copy[i], k) /\ \A j \in 1..(i - 1) : ~Matches(copy[j], k)
      BY <1>4, <2>1, <2>3, FirstMatch
    <3>2. copy[i] = e
      BY <2>3, <3>1
    <3> HIDE DEF copy
    <3>3. i \in 1..Len(copy) /\ Lookup(copy, k) = Value(copy[i])
      BY <2>1, <3>1, LookupAt
    <3> QED  BY <1>1, <3>2, <3>3
  <2>5. ASSUME NEW h \in Hosts \ {k} PROVE Lookup(copy, h) = Lookup(lines, h)
    <3>1. \A i \in 1..n : /\ Matches(copy[i], h) <=> Matches(lines[i], h)
                          /\ Matches(lines[i], h) => copy[i] = lines[i]
      BY <1>1 DEF Matches
    <3>2. CASE \E i \in 1..n : Matches(lines[i], h)
      <4>1. PICK i \in 1..n : /\ Matches(lines[i], h)
                              /\ \A j \in 1..(i - 1) : ~Matches(lines[j], h)
        BY <3>2, FirstMatch DEF n
      <4>2. /\ Matches(copy[i], h) /\ copy[i] = lines[i]
            /\ \A j \in 1..(i - 1) : ~Matches(copy[j], h)
        BY <1>2, <3>1, <4>1
      <4>3. Lookup(copy, h) = Value(copy[i])
        BY <2>1, <4>2, LookupAt
      <4>4. Lookup(lines, h) = Value(lines[i])
        BY <4>1, LookupAt DEF n
      <4> QED  BY <4>2, <4>3, <4>4
    <3>3. CASE \A i \in 1..n : ~Matches(lines[i], h)
      <4>1. Lookup(copy, h) = NoFp
        BY <2>1, <3>1, <3>3, LookupNone
      <4>2. Lookup(lines, h) = NoFp
        BY <3>3, LookupNone DEF n
      <4> QED  BY <4>1, <4>2
    <3> QED  BY <3>2, <3>3
  <2> QED  BY <1>3, <1>4, <2>1, <2>2, <2>4, <2>5 DEF Says
<1>5. CASE \A i \in 1..n : ~Matches(lines[i], k)
  <2>1. copy = lines
    BY <1>2, <1>5
  <2>2. new \in Appended(lines, e)
    BY <1>3, <1>5, <2>1
  <2> QED  BY <1>5, <2>2, AppendedFile DEF e, n
<1> QED  BY <1>4, <1>5

-----------------------------------------------------------------------------
(* The disk has room; operations may be refused and the machine may crash. *)
(* The files that the program may be started with are finished.            *)
DiskHasRoom == "diskfull" \notin Faults
StoresFinished == \A f \in InitialStores : FileOK(f) /\ Finished(f.lines)

(* Every host is known, or its line says what it was last trusted with.    *)
Remembers(lines) == \A h \in Hosts : known[h] \in {NoFp, Lookup(lines, h)}

(* What was found stays true until it is used: the file is not read again  *)
(* after the prompt, and behind remove the copy is all there is.           *)
FileInv ==
    /\ store.lines \in Seq(Lines) /\ Finished(store.lines)
    /\ ~store.exists => store.lines = <<>>
    /\ tmp.lines \in Seq(Lines) /\ Finished(tmp.lines)
    /\ tmp.exists \/ tmp.lines = <<>>
    /\ req.host \in Hosts /\ req.fp \in Fps
    /\ known \in [Hosts -> Fps \cup {NoFp}]
    /\ pc = "idle" => verdict # "pending"
    /\ pc \in {"promptNew", "promptChanged"} \cup Saving /\ ~Gap =>
           Lookup(store.lines, req.host) \notin {req.fp, Unsupported}
    /\ pc \in {"promptNew", "append"} => Lookup(store.lines, req.host) = NoFp
    /\ pc = "remove" => Says(tmp.lines, store.lines, req.host, req.fp)
    /\ Gap => Lookup(tmp.lines, req.host) = req.fp
    /\ ~Gap => Remembers(store.lines)
    /\ Gap => \A h \in Hosts \ {req.host} : known[h] \in {NoFp, Lookup(tmp.lines, h)}

(* The store is finished at the first state, and there is no copy.         *)
LEMMA FileInit == StoresFinished /\ Init => FileInv
<1> SUFFICES ASSUME StoresFinished, Init PROVE FileInv
  OBVIOUS
<1>1. tmp.lines = <<>>
  BY DEF Init, NoFile
<1>2. Finished(tmp.lines) /\ tmp.lines \in Seq(Lines)
  BY <1>1 DEF Finished
<1>3. /\ store.lines \in Seq(Lines) /\ Finished(store.lines)
      /\ store.exists \/ store.lines = <<>>
  BY DEF Init, StoresFinished, FileOK
<1> QED
  BY <1>1, <1>2, <1>3 DEF Init, FileInv, Remembers, Saving, Gap

(* The line of a new host is all that can be written, and the copy whole.  *)
LEMMA RoomOnDisk ==
    ASSUME DiskHasRoom
    PROVE  /\ \A lines, e : Written(lines, e) = Appended(lines, e)
           /\ \A lines, e : Copied(lines, e) = Updated(lines, e)
BY DEF DiskHasRoom, Written, Copied

(* A check that fails leaves the files alone: outside of the gap they      *)
(* still say what was known, and in the gap nothing is known any more.     *)
LEMMA RejectKeeps ==
    ASSUME FileInv, Reject, UNCHANGED <<store, tmp>>
    PROVE  FileInv'
<1>1. /\ pc' = "idle" /\ verdict' = "rejected" /\ UNCHANGED req
      /\ known' = IF Gap THEN [h \in Hosts |-> NoFp] ELSE known
  BY DEF Reject
<1>2. known' \in [Hosts -> Fps \cup {NoFp}]
  BY <1>1 DEF FileInv
<1>3. Remembers(store.lines)'
  BY <1>1 DEF FileInv, Remembers
<1>4. pc' \notin {"promptNew", "promptChanged"} \cup Saving /\ ~Gap'
  BY <1>1 DEF Saving, Gap
<1> QED  BY <1>1, <1>2, <1>3, <1>4 DEF FileInv

(* A check that succeeds leaves a file that says what is known now.        *)
LEMMA TrustKnows ==
    ASSUME FileInv, Trust,
           store'.lines \in Seq(Lines), Finished(store'.lines),
           store'.exists \/ store'.lines = <<>>,
           tmp'.lines \in Seq(Lines), Finished(tmp'.lines),
           tmp'.exists \/ tmp'.lines = <<>>,
           Lookup(store'.lines, req.host) = req.fp,
           \A h \in Hosts \ {req.host} : known[h] \in {NoFp, Lookup(store'.lines, h)}
    PROVE  FileInv'
<1>1. /\ pc' = "idle" /\ verdict' = "trusted" /\ UNCHANGED req
      /\ known' = [known EXCEPT ![req.host] = req.fp]
  BY DEF Trust
<1>2. known' \in [Hosts -> Fps \cup {NoFp}]
  BY <1>1 DEF FileInv
<1>3. ASSUME NEW h \in Hosts PROVE known'[h] \in {NoFp, Lookup(store'.lines, h)}
  BY <1>1 DEF FileInv
<1>4. Remembers(store.lines)'
  BY <1>3 DEF Remembers
<1>5. pc' \notin {"promptNew", "promptChanged"} \cup Saving /\ ~Gap'
  BY <1>1 DEF Saving, Gap
<1> QED  BY <1>1, <1>2, <1>4, <1>5 DEF FileInv

(* Only the append and the rename touch the store, and remove opens the    *)
(* gap.                                                                    *)
LEMMA FileStep == DiskHasRoom /\ FileInv /\ [Next]_vars => FileInv'
<1> SUFFICES ASSUME DiskHasRoom, FileInv, [Next]_vars PROVE FileInv'
  OBVIOUS
<1>1. ASSUME NEW h \in Hosts, NEW fp \in Fps, Check(h, fp) PROVE FileInv'
  BY <1>1 DEF Check, FileInv, Remembers, Gap, Saving
<1>2. CASE KnownMatch
  <2>1. /\ Trust /\ UNCHANGED <<store, tmp>> /\ ~Gap
        /\ Lookup(store.lines, req.host) = req.fp
    BY <1>2 DEF KnownMatch, Gap
  <2> QED  BY <2>1, TrustKnows DEF FileInv, Remembers
<1>3. CASE KnownUnsupported \/ Declines \/ AppendFailed \/ CopyFailed
           \/ RenameFailed \/ Crash
  BY <1>3, RejectKeeps
  DEF KnownUnsupported, Declines, AppendFailed, CopyFailed, RenameFailed, Crash
<1>4. CASE Prompt
  BY <1>4 DEF Prompt, FileInv, Remembers, Gap, Saving
<1>5. CASE Accepts
  BY <1>5 DEF Accepts, FileInv, Remembers, Gap, Saving
<1>6. CASE AppendEntry
  <2>1. PICK new \in Appended(store.lines, Entry(req.host, req.fp)) :
            store' = File(new)
    BY <1>6, RoomOnDisk DEF AppendEntry
  <2>2. Trust /\ pc = "append" /\ tmp' = tmp /\ ~Gap
    BY <1>6 DEF AppendEntry, Gap
  <2>3. \A i \in 1..Len(store.lines) : ~Matches(store.lines[i], req.host)
    BY <2>2, NoFpMeansNone DEF FileInv
  <2>4. Says(new, store.lines, req.host, req.fp)
    BY <2>1, <2>3, AppendedFile DEF FileInv
  <2>5. store'.lines = new /\ store'.exists
    BY <2>1 DEF File
  <2>6. \A h \in Hosts \ {req.host} : known[h] \in {NoFp, Lookup(new, h)}
    BY <2>2, <2>4 DEF FileInv, Remembers, Says
  <2> QED
    BY <2>2, <2>4, <2>5, <2>6, TrustKnows DEF FileInv, Says
<1>7. CASE CopyToTmp
  <2>1. PICK new \in Updated(store.lines, Entry(req.host, req.fp)) :
            tmp' = File(new)
    BY <1>7, RoomOnDisk DEF CopyToTmp
  <2>2. /\ pc = "copy" /\ pc' = "remove" /\ UNCHANGED <<store, req, known>>
        /\ ~Gap /\ ~Gap'
    BY <1>7 DEF CopyToTmp, Gap
  <2>3. Says(new, store.lines, req.host, req.fp)
    BY <2>1, UpdatedFile DEF FileInv
  <2>4. tmp'.lines = new /\ tmp'.exists
    BY <2>1 DEF File
  <2>5. Says(tmp'.lines, store'.lines, req'.host, req'.fp)
    BY <2>2, <2>3, <2>4
  <2>6. tmp'.lines \in Seq(Lines) /\ Finished(tmp'.lines)
    BY <2>3, <2>4 DEF Says
  <2> QED
    BY <2>2, <2>4, <2>5, <2>6 DEF FileInv, Remembers, Saving
<1>8. CASE RemoveOld
  <2>1. /\ pc = "remove" /\ pc' = "rename" /\ UNCHANGED <<tmp, req, known>>
        /\ store' \in {store, NoFile} /\ ~Gap
    BY <1>8 DEF RemoveOld, Gap
  <2>2. /\ Lookup(tmp.lines, req.host) = req.fp
        /\ \A h \in Hosts \ {req.host} :
              known[h] \in {NoFp, Lookup(tmp.lines, h)}
    BY <2>1 DEF FileInv, Says, Remembers
  <2>3. NoFile.lines = <<>> /\ ~NoFile.exists
    BY DEF NoFile
  <2>4. <<>> \in Seq(Lines) /\ Finished(<<>>)
    BY DEF Finished
  <2>5. CASE store' = store
    BY <2>1, <2>2, <2>5 DEF FileInv, Remembers, Saving, Gap
  <2>6. CASE store' = NoFile
    BY <2>1, <2>2, <2>3, <2>4, <2>6 DEF FileInv, Saving, Gap
  <2> QED  BY <2>1, <2>5, <2>6
<1>9. CASE RenameTmp
  <2>1. Trust /\ Gap /\ store' = tmp /\ tmp' = NoFile
    BY <1>9 DEF RenameTmp
  <2>2. tmp'.lines = <<>> /\ tmp'.lines \in Seq(Lines) /\ Finished(tmp'.lines)
    BY <2>1 DEF NoFile, Finished
  <2> QED  BY <2>1, <2>2, TrustKnows DEF FileInv
<1>10. CASE UNCHANGED vars
  BY <1>10 DEF vars, FileInv, Remembers, Gap
<1> QED
  BY <1>1, <1>2, <1>3, <1>4, <1>5, <1>6, <1>7, <1>8, <1>9, <1>10 DEF Next

(* The invariant, from the start on.                                       *)
THEOREM FileInvariant ==
    ASSUME DiskHasRoom, StoresFinished
    PROVE  Spec => []FileInv
<1>1. Init => FileInv
  BY FileInit
<1>2. FileInv /\ [Next]_vars => FileInv'
  BY FileStep
<1> QED  BY <1>1, <1>2, PTL DEF Spec

(* What a host was last trusted with is what the file says of it at every  *)
(* later check, whatever was declined, refused or interrupted since, until *)
(* the user accepts another certificate for it; only a crash or a refused  *)
(* rename between remove and rename ends this, for all hosts at once       *)
(* (tofu.c:90-226).                                                        *)
THEOREM AcceptedStays ==
    ASSUME DiskHasRoom, StoresFinished
    PROVE  Spec => []AcceptedIsRemembered
<1>1. FileInv => AcceptedIsRemembered
  BY DEF FileInv, Remembers, AcceptedIsRemembered, Gap
<1> QED  BY <1>1, FileInvariant, PTL

-----------------------------------------------------------------------------
(* What the file says of each host, as TrustStore sees it.                 *)
Table == [h \in Hosts |-> Lookup(Current, h)]

(* The first table is the one that Lookup reads from the file.             *)
LEMMA StoreStarts ==
    ASSUME StoresFinished, Init
    PROVE  Store!StoreInit
<1>1. Current = store.lines /\ store.lines \in Seq(Lines)
  BY DEF Init, Current, Gap, StoresFinished, FileOK
<1>2. \A i \in 1..Len(store.lines) : store.lines[i].fp \in (Fps \cup {Garbled}) \cup {Garbled}
  <2>1. \A i \in 1..Len(store.lines) : store.lines[i] \in Lines
    BY <1>1
  <2> QED  BY <2>1 DEF Lines
<1>3. \A h \in Hosts :
          Lookup(Current, h) \in (Fps \cup {Garbled}) \cup {Garbled, NoFp, Unsupported}
  BY <1>1, <1>2, LookupType
<1>4. req \in [host : Hosts, fp : Fps \cup {Garbled}]
  BY DEF Init
<1> QED
  BY <1>3, <1>4 DEF Init, Store!StoreInit, Store!Fingerprint

(* A check may end without trust when something can fail, or when the file  *)
(* does not name the certificate.                                          *)
CanReject ==
    \/ Faults # {}
    \/ ~Gap /\ Lookup(store.lines, req.host) # req.fp

(* A check that fails is a failure of the table: before the user's yes and *)
(* outside of the gap the old table stays, in the gap it is gone.          *)
LEMMA FailureSteps ==
    ASSUME ConsentInv, FileInv, Reject, UNCHANGED <<store, tmp>>, pc # "idle",
           CanReject
    PROVE  Store!StoreNext
<1>types. req.host \in Hosts /\ req.fp \in Fps
  BY DEF FileInv
<1>1. /\ pc' = "idle" /\ UNCHANGED <<req, said>>
      /\ verdict = "pending" /\ verdict' = "rejected"
  BY DEF Reject, ConsentInv
<1>2. ~Gap' /\ Current' = store.lines
  BY <1>1 DEF Gap, Current
<1>3. CASE Gap
  <2>1. /\ said /\ Current = tmp.lines /\ store.lines = <<>>
        /\ Lookup(tmp.lines, req.host) = req.fp
    BY <1>3 DEF Gap, ConsentInv, Saving, Current, FileInv
  <2>2. \A h : Lookup(store.lines, h) = NoFp
    <3>1. store.lines \in Seq(Lines) /\ 1..Len(store.lines) = {}
      BY <2>1 DEF FileInv
    <3>2. \A h : \A i \in 1..Len(store.lines) : ~Matches(store.lines[i], h)
      BY <3>1
    <3> QED  BY <3>1, <3>2, LookupNone
  <2>3. Table' = [h \in Hosts |-> NoFp] /\ Table[req.host] = req.fp
    BY <1>2, <1>types, <2>1, <2>2 DEF Table
  <2>4. Store!Lose
    <3>1. Faults # {}
      BY <1>3 DEF CanReject
    <3> QED  BY <1>1, <2>1, <2>3, <3>1 DEF Store!Lose, Table
  <2> QED  BY <2>4 DEF Store!StoreNext
<1>4. CASE ~Gap
  <2>1. Current = store.lines /\ Table' = Table
    BY <1>2, <1>4 DEF Current, Table
  <2>2. Table[req.host] = Lookup(store.lines, req.host)
    BY <1>types, <2>1 DEF Table
  <2>3. CASE Lookup(store.lines, req.host) # req.fp
    <3>1. Store!Rejected
      BY <1>1, <2>1, <2>2, <2>3 DEF Store!Rejected, Table
    <3> QED  BY <3>1 DEF Store!StoreNext
  <2>4. CASE Lookup(store.lines, req.host) = req.fp
    <3>1. pc \notin {"promptNew", "promptChanged"} \cup Saving
      BY <1>4, <2>4 DEF FileInv
    <3>2. Faults # {} /\ ~said
      BY <1>4, <2>4, <3>1 DEF ConsentInv, CanReject
    <3>3. Store!Interrupted
      BY <1>1, <2>1, <3>2 DEF Store!Interrupted, Table
    <3> QED  BY <3>3 DEF Store!StoreNext
  <2> QED  BY <2>3, <2>4
<1> QED  BY <1>3, <1>4

(* Each step looks up, asks, writes, fails or stutters in the table: the   *)
(* copy is not seen before the gap.                                        *)
LEMMA StoreStep ==
    ASSUME DiskHasRoom, ConsentInv, FileInv, [Next]_vars
    PROVE  Store!StoreNext \/ UNCHANGED Store!storeVars
<1>types. req.host \in Hosts /\ req.fp \in Fps
  BY DEF FileInv
<1>table. ASSUME NEW h \in Hosts PROVE Table[h] = Lookup(Current, h)
  BY DEF Table
<1>still. UNCHANGED <<store, tmp>> /\ pc # "rename" /\ pc' # "rename"
          => Current = store.lines /\ Current' = store.lines /\ Table' = Table
  BY DEF Current, Gap, Table
<1>1. ASSUME NEW h \in Hosts, NEW fp \in Fps, Check(h, fp)
      PROVE  Store!StoreNext
  <2>1. /\ UNCHANGED <<store, tmp>> /\ pc # "rename" /\ pc' # "rename"
        /\ req' = [host |-> h, fp |-> fp] /\ said' = FALSE
        /\ verdict' = "pending" /\ pc = "idle"
    BY <1>1 DEF Check
  <2>2. verdict # "pending"
    BY <2>1 DEF FileInv
  <2>3. Store!Present(h, fp)
    BY <2>1, <2>2, <1>still DEF Store!Present, Table
  <2> QED  BY <2>3 DEF Store!StoreNext
<1>2. CASE KnownMatch
  <2>1. /\ UNCHANGED <<store, tmp, req, said>> /\ pc = "lookup" /\ pc' = "idle"
        /\ Lookup(store.lines, req.host) = req.fp /\ verdict' = "trusted"
    BY <1>2 DEF KnownMatch, Trust
  <2>2. verdict = "pending"
    BY <2>1 DEF ConsentInv
  <2>3. Store!Trusted
    BY <2>1, <2>2, <1>still, <1>types DEF Store!Trusted, Table
  <2> QED  BY <2>3 DEF Store!StoreNext
<1>3. CASE KnownUnsupported
  <2>1. Unsupported # req.fp
    BY <1>types, KnownHostsAssumption
  <2>2. CanReject
    BY <1>3, <2>1 DEF CanReject, KnownUnsupported, Gap
  <2> QED  BY <1>3, <2>2, FailureSteps DEF KnownUnsupported
<1>4. CASE Declines
  <2>1. CanReject
    BY <1>4 DEF CanReject, Declines, Gap, FileInv
  <2> QED  BY <1>4, <2>1, FailureSteps DEF Declines
<1>5. CASE AppendFailed \/ CopyFailed
  <2>1. Reject /\ UNCHANGED <<store, tmp>> /\ pc # "idle" /\ "denied" \in Faults
    BY <1>5 DEF AppendFailed, CopyFailed
  <2>2. CanReject
    BY <2>1 DEF CanReject
  <2> QED  BY <2>1, <2>2, FailureSteps
<1>6. CASE Crash
  <2>1. Reject /\ UNCHANGED <<store, tmp>> /\ pc # "idle" /\ "crash" \in Faults
    BY <1>6 DEF Crash
  <2>2. CanReject
    BY <2>1 DEF CanReject
  <2> QED  BY <2>1, <2>2, FailureSteps
<1>7. CASE RenameFailed
  <2>1. Reject /\ UNCHANGED <<store, tmp>> /\ pc = "rename" /\ pc # "idle"
    BY <1>7 DEF RenameFailed
  <2>2. CASE store.exists
    <3>1. CanReject
      BY <2>1, <2>2 DEF CanReject, Gap, FileInv, Saving
    <3> QED  BY <2>1, <3>1, FailureSteps
  <2>3. CASE "denied" \in Faults
    <3>1. CanReject
      BY <2>3 DEF CanReject
    <3> QED  BY <2>1, <3>1, FailureSteps
  <2> QED  BY <1>7, <2>2, <2>3 DEF RenameFailed
<1>8. CASE Prompt
  BY <1>8, <1>still DEF Prompt, Store!storeVars, Table
<1>9. CASE Accepts
  <2>1. /\ UNCHANGED <<store, tmp, req, verdict>> /\ pc' # "rename"
        /\ pc \in {"promptNew", "promptChanged"} /\ said' = TRUE
    BY <1>9 DEF Accepts
  <2>2. /\ verdict = "pending" /\ ~said
        /\ Lookup(store.lines, req.host) \notin {req.fp, Unsupported}
    BY <2>1 DEF ConsentInv, FileInv, Gap
  <2>3. Store!Consent
    BY <2>1, <2>2, <1>still, <1>types DEF Store!Consent, Table
  <2> QED  BY <2>3 DEF Store!StoreNext
<1>10. CASE AppendEntry
  <2>1. PICK new \in Appended(store.lines, Entry(req.host, req.fp)) :
            store' = File(new)
    BY <1>10, RoomOnDisk DEF AppendEntry
  <2>2. /\ pc = "append" /\ pc' = "idle"
        /\ UNCHANGED <<tmp, req, said>> /\ verdict' = "trusted"
    BY <1>10 DEF AppendEntry, Trust
  <2>3. \A i \in 1..Len(store.lines) : ~Matches(store.lines[i], req.host)
    BY <2>2, NoFpMeansNone DEF FileInv
  <2>4. Says(new, store.lines, req.host, req.fp)
    BY <2>1, <2>3, AppendedFile DEF FileInv
  <2>5. Current = store.lines /\ Current' = new
    BY <2>1, <2>2 DEF Current, Gap, File
  <2>6. verdict = "pending" /\ said
    BY <2>2 DEF ConsentInv, Saving
  <2>7. Table' = [Table EXCEPT ![req.host] = req.fp]
    BY <2>4, <2>5 DEF Table, Says
  <2>8. Store!SaveAndTrust
    BY <2>2, <2>6, <2>7 DEF Store!SaveAndTrust, Table
  <2> QED  BY <2>8 DEF Store!StoreNext
<1>11. CASE CopyToTmp
  <2>1. UNCHANGED <<store, req, said, verdict>> /\ pc = "copy" /\ pc' = "remove"
    BY <1>11 DEF CopyToTmp
  <2>2. Current' = Current
    BY <2>1 DEF Current, Gap
  <2> QED  BY <2>1, <2>2 DEF Store!storeVars
<1>12. CASE RemoveOld
  <2>1. /\ pc = "remove" /\ pc' = "rename" /\ ~Gap
        /\ UNCHANGED <<tmp, req, said, verdict>>
        /\ store' \in {store, NoFile}
    BY <1>12 DEF RemoveOld, Gap
  <2>2. Current = store.lines
    BY <2>1 DEF Current
  <2>3. CASE Gap'
    <3>1. Current' = tmp.lines
      BY <2>1, <2>3 DEF Current
    <3>2. Says(tmp.lines, store.lines, req.host, req.fp)
      BY <2>1 DEF FileInv
    <3>3. verdict = "pending" /\ said
      BY <2>1 DEF ConsentInv, Saving
    <3>4. Table' = [Table EXCEPT ![req.host] = req.fp]
      BY <2>1, <2>2, <3>1, <3>2 DEF Table, Says
    <3>5. Store!Save
      BY <2>1, <3>3, <3>4 DEF Store!Save, Table
    <3> QED  BY <3>5 DEF Store!StoreNext
  <2>4. CASE ~Gap'
    <3>1. store' = store
      BY <2>1, <2>4 DEF Gap, NoFile
    <3>2. Current' = Current
      BY <2>2, <2>4, <3>1 DEF Current
    <3> QED  BY <2>1, <3>2 DEF Store!storeVars
  <2> QED  BY <2>3, <2>4
<1>13. CASE RenameTmp
  <2>1. /\ Gap /\ store' = tmp /\ pc' = "idle"
        /\ UNCHANGED <<req, said>> /\ verdict' = "trusted"
    BY <1>13 DEF RenameTmp, Trust
  <2>2. verdict = "pending" /\ Lookup(tmp.lines, req.host) = req.fp
    BY <2>1 DEF ConsentInv, FileInv, Gap
  <2>3. Current = tmp.lines /\ Current' = tmp.lines
    BY <2>1 DEF Current, Gap
  <2>4. Table' = Table /\ Table[req.host] = req.fp
    BY <2>2, <2>3, <1>types DEF Table
  <2>5. Store!Trusted
    BY <2>1, <2>2, <2>4 DEF Store!Trusted, Table
  <2> QED  BY <2>5 DEF Store!StoreNext
<1>14. CASE UNCHANGED vars
  <2>1. Current' = Current
    BY <1>14 DEF vars, Current, Gap
  <2> QED  BY <1>14, <2>1 DEF vars, Store!storeVars
<1> QED
  BY <1>1, <1>2, <1>3, <1>4, <1>5, <1>6, <1>7, <1>8, <1>9, <1>10, <1>11,
     <1>12, <1>13, <1>14 DEF Next

(* While the disk has room known_hosts.txt is the table of TrustStore: an  *)
(* accepted certificate changes the entry of its host and no other, and    *)
(* nothing else changes any; a crash or a refused operation leaves the old *)
(* table, the new one or none (tofu.c:90-226).                             *)
THEOREM FileIsTheTable ==
    ASSUME DiskHasRoom, StoresFinished
    PROVE  Spec => ImplementsTrustStore
<1>1. Init => Store!StoreInit
  BY StoreStarts
<1>2. ConsentInv /\ FileInv /\ [Next]_vars
      => [Store!StoreNext]_(Store!storeVars)
  BY StoreStep
<1>3. Spec => []FileInv
  BY FileInvariant
<1> QED
  BY <1>1, <1>2, <1>3, ConsentInvariant, PTL
  DEF Spec, ImplementsTrustStore, Store!StoreSpec
=============================================================================
