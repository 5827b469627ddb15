------------------------------ MODULE KnownHosts ------------------------------
(***************************************************************************)
(* nos_tofu_check (src/src/tofu.c): the certificate of a host against      *)
(* C:\known_hosts.txt, a text file with one "host:port SHA256 <hex>" line  *)
(* for each trusted host, that the user may also edit.                     *)
(*                                                                         *)
(* A line is what the program reads of it: the host (keys are compared     *)
(* without case), the algorithm, the fingerprint, and whether it ends in a *)
(* newline, since what is appended behind an unfinished line becomes part  *)
(* of it.  A line that sscanf does not find three tokens in has algo       *)
(* "comment" (it starts with #), "key" (it ends within its first token) or *)
(* "none"; its fp says nothing.                                            *)
(***************************************************************************)
EXTENDS Naturals, Sequences, SequencesExt

CONSTANTS Hosts,         \* host:port keys
          Fps,           \* fingerprints that peers present
          NoFp, Unsupported, Garbled,
          NoHost,        \* a first token that is no key of Hosts
          InitialStores, \* files the program may be started with
          Faults,        \* what may go wrong: "diskfull"; "denied", DOS refuses to
                         \* open a file for writing, to remove or rename it; "crash"
          MaxLines,      \* bound: lines of the file
          MaxCrashes     \* bound: crashes

ASSUME KnownHostsAssumption ==
    /\ NoHost \notin Hosts
    /\ {NoFp, Unsupported, Garbled} \cap Fps = {}
    /\ NoFp \notin {Unsupported, Garbled}
    /\ Faults \subseteq {"diskfull", "denied", "crash"}
    /\ MaxLines \in Nat /\ MaxCrashes \in Nat

VARIABLES store,    \* known_hosts.txt
          tmp,      \* known_hosts.tmp
          pc,       \* where in check_known_host the program is
          req,      \* the host and the fingerprint being checked
          said,     \* the user's answer in this check
          verdict,  \* "pending", or how the last check ended
          crashes,
          known,    \* history: the certificate that each host was last trusted
                    \* with, since the store was last lost
          granted   \* history: fingerprints that the first file names or the
                    \* user said yes to

vars == <<store, tmp, pc, req, said, verdict, crashes, known, granted>>

NoFile == [exists |-> FALSE, lines |-> <<>>]
File(lines) == [exists |-> TRUE, lines |-> lines]

Entry(h, fp) == [key |-> h, algo |-> "SHA256", fp |-> fp, nl |-> TRUE]

(* sscanf finds three tokens and the first is h.                           *)
Matches(line, h) == line.key = h /\ line.algo \in {"SHA256", "other"}

(* What check_known_host makes of the file: the first matching line.       *)
Lookup(lines, h) ==
    LET i == SelectInSeq(lines, LAMBDA line : Matches(line, h))
    IN  IF i = 0 THEN NoFp
        ELSE IF lines[i].algo # "SHA256" THEN Unsupported
        ELSE lines[i].fp

(* What a line can become when text is written behind its unfinished end:  *)
(* a comment goes on; a first token grows, and may become another host's   *)
(* key in front of the new algorithm and fingerprint; behind "host:port"   *)
(* or "host:port SHA256" the new tokens are taken for those missing; a     *)
(* fingerprint grows.                                                      *)
Merged(line, text) ==
    CASE line.algo = "comment" -> {[line EXCEPT !.nl = text.nl]}
      [] line.algo = "key"     ->
            {[text EXCEPT !.key = k] :
                k \in IF text.algo = "key" THEN {NoHost}
                      ELSE (Hosts \cup {NoHost}) \ {text.key}}
      [] line.algo = "none"    ->
            {[line EXCEPT !.algo = algo, !.fp = Garbled, !.nl = text.nl] :
                algo \in {x \in {"SHA256", "other", "none"} :
                            x = "none" => text.algo \in {"key", "none"}}}
      [] OTHER                 -> {[line EXCEPT !.fp = Garbled, !.nl = text.nl]}

(* The file with text written behind its end.                              *)
Appended(lines, text) ==
    IF lines # <<>> /\ ~ Last(lines).nl
    THEN {Append(Front(lines), line) : line \in Merged(Last(lines), text)}
    ELSE {Append(lines, text)}

(* A line that was cut when the disk filled up: all but the newline, or    *)
(* part of the key, of what stands behind it, or of the fingerprint.       *)
Torn(line) ==
    {[line EXCEPT !.nl = FALSE]} \cup
    IF line.algo \in {"comment", "key"} THEN {}
    ELSE { [key |-> NoHost, algo |-> "key", fp |-> Garbled, nl |-> FALSE],
           [line EXCEPT !.algo = "none", !.fp = Garbled, !.nl = FALSE],
           [line EXCEPT !.fp = Garbled, !.nl = FALSE] }

(* The file after fprintf, whose result nobody looks at.                   *)
Written(lines, entry) ==
    Appended(lines, entry) \cup
    IF "diskfull" \in Faults
    THEN {lines} \cup UNION {Appended(lines, text) : text \in Torn(entry)}
    ELSE {}

(* Mutation: the copy stops at the host's line.                            *)
UpdatedCutShort(lines, entry) ==
    LET i == SelectInSeq(lines, LAMBDA line : Matches(line, entry.key))
    IN  IF i = 0 THEN Appended(lines, entry)
        ELSE {Append(SubSeq(lines, 1, i - 1), entry)}

(* The copy loop of update_known_hosts_file: every line of the host is     *)
(* replaced, the others are copied; without one, the entry is appended.    *)
Updated(lines, entry) ==
    LET copy == [i \in DOMAIN lines |->
                   IF Matches(lines[i], entry.key) THEN entry ELSE lines[i]]
    IN  IF \E i \in DOMAIN lines : Matches(lines[i], entry.key)
        THEN {copy}
        ELSE Appended(copy, entry)

(* The first bytes of a file: whole lines, and perhaps a torn one.         *)
CutAnywhere(lines) ==
    Prefixes(lines) \cup
    UNION {{Append(SubSeq(lines, 1, i - 1), text) : text \in Torn(lines[i])} :
              i \in DOMAIN lines}

(* The copy as it reaches the disk: whole, or cut when the disk is full.   *)
Copied(lines, entry) ==
    Updated(lines, entry) \cup
    IF "diskfull" \in Faults
    THEN UNION {CutAnywhere(copy) : copy \in Updated(lines, entry)}
    ELSE {}

-----------------------------------------------------------------------------
Init ==
    /\ store \in InitialStores
    /\ tmp = NoFile
    /\ pc = "idle"
    /\ req \in [host : Hosts, fp : Fps]
    /\ said = FALSE
    /\ verdict = "rejected"
    /\ crashes = 0
    /\ known = [h \in Hosts |-> NoFp]
    /\ granted = {line.fp : line \in Range(store.lines)} \cap Fps

(* nos_tofu_check is called: the fingerprint is computed, the file read.   *)
Check(h, fp) ==
    /\ pc = "idle"
    /\ req' = [host |-> h, fp |-> fp]
    /\ said' = FALSE
    /\ verdict' = "pending"
    /\ pc' = "lookup"
    /\ UNCHANGED <<store, tmp, crashes, known, granted>>

(* After remove and before rename there is no known_hosts.txt.             *)
Gap == pc = "rename" /\ ~store.exists

(* nos_tofu_check returns 0 ...                                            *)
Trust ==
    /\ pc' = "idle" /\ verdict' = "trusted"
    /\ known' = [known EXCEPT ![req.host] = req.fp]
    /\ UNCHANGED <<req, said, crashes, granted>>

(* ... or -1, or never returns: in the gap all that was known is lost.     *)
Reject ==
    /\ pc' = "idle" /\ verdict' = "rejected"
    /\ known' = IF Gap THEN [h \in Hosts |-> NoFp] ELSE known
    /\ UNCHANGED <<req, said, granted>>

(* Mutation: a known host passes, whatever its fingerprint.                *)
KnownHostMatch ==
    /\ pc = "lookup"
    /\ Lookup(store.lines, req.host) \in Fps
    /\ Trust
    /\ UNCHANGED <<store, tmp>>

(* Mutation: the comparison of fingerprints stops where the shorter ends.  *)
KnownPrefixMatch ==
    /\ pc = "lookup"
    /\ Lookup(store.lines, req.host) \in {req.fp, Garbled}
    /\ Trust
    /\ UNCHANGED <<store, tmp>>

(* A line of the host with this fingerprint: silent.                       *)
KnownMatch ==
    /\ pc = "lookup"
    /\ Lookup(store.lines, req.host) = req.fp
    /\ Trust
    /\ UNCHANGED <<store, tmp>>

(* A line of the host with another algorithm.                              *)
KnownUnsupported ==
    /\ pc = "lookup"
    /\ Lookup(store.lines, req.host) = Unsupported
    /\ Reject
    /\ UNCHANGED <<store, tmp, crashes>>

(* Mutation: a changed fingerprint is saved after the warning, unasked.    *)
PromptOnlyNew ==
    /\ pc = "lookup"
    /\ Lookup(store.lines, req.host) \notin {req.fp, Unsupported}
    /\ pc' = IF Lookup(store.lines, req.host) = NoFp THEN "promptNew" ELSE "copy"
    /\ UNCHANGED <<store, tmp, req, said, verdict, crashes, known, granted>>

(* Otherwise prompt_trust, for a changed fingerprint after a warning.  The *)
(* file is not read again.                                                 *)
Prompt ==
    /\ pc = "lookup"
    /\ Lookup(store.lines, req.host) \notin {req.fp, Unsupported}
    /\ pc' = IF Lookup(store.lines, req.host) = NoFp THEN "promptNew" ELSE "promptChanged"
    /\ UNCHANGED <<store, tmp, req, said, verdict, crashes, known, granted>>

Declines ==
    /\ pc \in {"promptNew", "promptChanged"}
    /\ Reject
    /\ UNCHANGED <<store, tmp, crashes>>

\* bound: at MaxLines lines the user stops accepting new hosts
Accepts ==
    /\ pc \in {"promptNew", "promptChanged"}
    /\ pc = "promptNew" => Len(store.lines) < MaxLines
    /\ said' = TRUE
    /\ granted' = granted \cup {req.fp}
    /\ pc' = IF pc = "promptNew" THEN "append" ELSE "copy"
    /\ UNCHANGED <<store, tmp, req, verdict, crashes, known>>

(* New host: fopen "a", fprintf, fclose.                                   *)
AppendEntry ==
    /\ pc = "append"
    /\ \E lines \in Written(store.lines, Entry(req.host, req.fp)) : store' = File(lines)
    /\ Trust
    /\ UNCHANGED tmp

AppendFailed ==
    /\ pc = "append" /\ "denied" \in Faults
    /\ Reject
    /\ UNCHANGED <<store, tmp, crashes>>

(* Changed host: the temporary file is written and closed ...              *)
CopyToTmp ==
    /\ pc = "copy"
    /\ \E lines \in Copied(store.lines, Entry(req.host, req.fp)) : tmp' = File(lines)
    /\ pc' = "remove"
    /\ UNCHANGED <<store, req, said, verdict, crashes, known, granted>>

CopyFailed ==
    /\ pc = "copy" /\ "denied" \in Faults
    /\ Reject
    /\ UNCHANGED <<store, tmp, crashes>>

(* ... the store is removed, which may fail unnoticed ...                  *)
RemoveOld ==
    /\ pc = "remove"
    /\ \/ store' = NoFile
       \/ "denied" \in Faults /\ UNCHANGED store
    /\ pc' = "rename"
    /\ UNCHANGED <<tmp, req, said, verdict, crashes, known, granted>>

(* Mutation: the error of rename is returned as it is.                     *)
RenameTmpCode ==
    /\ Gap
    /\ store' = tmp
    /\ tmp' = NoFile
    /\ pc' = "idle" /\ verdict' = "renamed"
    /\ UNCHANGED <<req, said, crashes, known, granted>>

(* ... and the temporary file takes its name.                              *)
RenameTmp ==
    /\ Gap
    /\ store' = tmp
    /\ tmp' = NoFile
    /\ Trust

(* Mutation: the error of rename is not looked at.                         *)
RenameUnchecked ==
    /\ pc = "rename"
    /\ store.exists \/ "denied" \in Faults
    /\ Trust
    /\ UNCHANGED <<store, tmp>>

(* On DOS rename fails while the old name exists; when it fails although   *)
(* the old file is gone, there is no store any more.                       *)
RenameFailed ==
    /\ pc = "rename"
    /\ store.exists \/ "denied" \in Faults
    /\ Reject
    /\ UNCHANGED <<store, tmp, crashes>>

(* The machine goes down: only the closed files are left.                  *)
Crash ==
    /\ "crash" \in Faults /\ pc # "idle"
    /\ crashes < MaxCrashes
    /\ crashes' = crashes + 1
    /\ Reject
    /\ UNCHANGED <<store, tmp>>

Next ==
    \/ \E h \in Hosts, fp \in Fps : Check(h, fp)
    \/ KnownMatch \/ KnownUnsupported \/ Prompt \/ Declines \/ Accepts
    \/ AppendEntry \/ AppendFailed
    \/ CopyToTmp \/ CopyFailed \/ RemoveOld \/ RenameTmp \/ RenameFailed
    \/ Crash

Spec == Init /\ [][Next]_vars

-----------------------------------------------------------------------------
Lines == [key : Hosts \cup {NoHost},
          algo : {"SHA256", "other", "none", "key", "comment"},
          fp : Fps \cup {Garbled}, nl : BOOLEAN]

FileOK(f) == /\ f.exists \in BOOLEAN
             /\ f.lines \in Seq(Lines)
             /\ f.exists \/ f.lines = <<>>

(* Every variable has its type, and only the last line may lack a newline. *)
TypeOK ==
    /\ FileOK(store) /\ FileOK(tmp)
    /\ \A i \in 1..(Len(store.lines) - 1) : store.lines[i].nl
    /\ pc \in {"idle", "lookup", "promptNew", "promptChanged", "append",
               "copy", "remove", "rename"}
    /\ req \in [host : Hosts, fp : Fps]
    /\ said \in BOOLEAN
    /\ verdict \in {"pending", "trusted", "rejected"}
    /\ crashes \in Nat
    /\ known \in [Hosts -> Fps \cup {NoFp}]
    /\ granted \in SUBSET Fps

(* A certificate is trusted only when the file names it as its host's      *)
(* first entry, or the user accepted it in this very check, whatever the   *)
(* disk does and wherever the machine goes down.                           *)
TrustedForAReason ==
    [][pc # "idle" /\ verdict' = "trusted" =>
          said \/ Lookup(store.lines, req.host) = req.fp]_vars

(* What the file says is sound, too: no certificate is ever trusted that   *)
(* the user did not accept or store, out of lines that a full disk has     *)
(* torn, files that a crash has left, or text run into other text.  On a   *)
(* full disk it may have been accepted for another host (see Merged).      *)
CertificateWasGranted == verdict = "trusted" => req.fp \in granted

(* The file is touched only with the user's consent.                       *)
StoreNeedsConsent == [][store' # store => said]_vars

(* What the user accepted is remembered: between two checks the file still *)
(* names, for every host, the certificate it was last trusted with.  So a  *)
(* check may return 0 only when the certificate was saved, no later check  *)
(* of any host and no refused or interrupted one may undo it, and only in  *)
(* the gap between remove and rename can it be lost.                       *)
AcceptedIsRemembered ==
    pc = "idle" => \A h \in Hosts : known[h] \in {NoFp, Lookup(store.lines, h)}

(* In the gap the trusted hosts are those of the copy.                     *)
Current == IF Gap THEN tmp.lines ELSE store.lines

Store == INSTANCE TrustStore WITH
    Fps     <- Fps \cup {Garbled},
    MayFail <- Faults # {},
    trust   <- [h \in Hosts |-> Lookup(Current, h)],
    asked   <- req,
    consent <- said

(* The file is the table of TrustStore while the disk has room: every save *)
(* changes the entry of one host and no other, and a crash or a refused    *)
(* operation leaves the old table, the new one or, in the gap, none at all *)
(* -- never a part of it.                                                  *)
ImplementsTrustStore == Store!StoreSpec
=============================================================================
