--------------------------- MODULE IdentifyProofs ---------------------------
(***************************************************************************)
(* What the order of the tests of package identify guarantees for every    *)
(* file and every filter.  The invariant says that a result is that of the *)
(* file, and that an outcome is that of the result.                        *)
(***************************************************************************)
EXTENDS Identify, TLAPS

Decided ==
  /\ pc = "identify" => outcome = "pending"
  /\ pc = "dispatch" => outcome = "pending" /\ info = identifyFromHeader(file)
  /\ pc = "done" =>
       \/ outcome = "failed"
       \/ /\ info = identifyFromHeader(file)
          /\ outcome = IF Skipped(file) THEN "filtered"
                       ELSE IF info.native THEN "native"
                       ELSE HandlerOf(info.format)

Inv == TypeOK /\ Decided

(***************************************************************************)
(* The switch knows each result: it has a handler for those that are       *)
(* extractable, and for no other that gets so far.                         *)
(***************************************************************************)
LEMMA SwitchAgrees ==
  ASSUME NEW f \in File
  PROVE  LET r == identifyFromHeader(f)
         IN  /\ r.native \in BOOLEAN /\ r.extractable \in BOOLEAN
             /\ r.native => ~r.extractable
             /\ ~r.native => (HandlerOf(r.format) \in Handlers <=> r.extractable)
             /\ HandlerOf(r.format) \in Handlers \cup {"toolMissing", "skipped"}
<1> DEFINE r == identifyFromHeader(f)
<1>1. f.magic \in Magic
  BY DEF File
<1>2. /\ f.magic \in DOMAIN Signature =>
           Signature[f.magic] \in {"InstallShieldCAB", "CAB", "MSI", "7z", "RAR"}
      /\ f.magic \in DOMAIN Compressed =>
           Compressed[f.magic] \in {"GzipTAR", "Bzip2TAR", "XzTAR", "ZstdTAR"}
      /\ f.magic \in DOMAIN Late => Late[f.magic] \in {"Squashfs", "CPIO"}
  BY <1>1 DEF Signature, Compressed, Late
<1>3. \/ r \in {Unknown, Native("ZIP"), Native("Unknown"), Container("ZIP"),
               Container("TAR"), Container("GzipTAR"), Container("ISO"),
               Container("Squashfs"), Container("InstallShieldCAB"),
               [format |-> "AppImage", native |-> FALSE, extractable |-> FALSE]}
      \/ f.magic \in DOMAIN Signature /\ r = Container(Signature[f.magic])
      \/ f.magic \in DOMAIN Compressed /\ r = Container(Compressed[f.magic])
      \/ f.magic \in DOMAIN Late /\ r = Container(Late[f.magic])
  BY DEF identifyFromHeader
<1> DEFINE Formats == {"ZIP", "TAR", "CAB", "7z", "RAR", "MSI", "ISO", "CPIO", "GzipTAR",
                       "Bzip2TAR", "XzTAR", "ZstdTAR", "InstallShieldCAB", "Squashfs"}
           Agrees(i) == /\ i.native \in BOOLEAN /\ i.extractable \in BOOLEAN
                        /\ i.native => ~i.extractable
                        /\ ~i.native => (HandlerOf(i.format) \in Handlers <=> i.extractable)
                        /\ HandlerOf(i.format) \in Handlers \cup {"toolMissing", "skipped"}
<1>4. \A format \in Formats : Agrees(Container(format))
  BY DEF Container, HandlerOf, Handlers
<1>5. Agrees(Unknown) /\ Agrees(Native("ZIP")) /\ Agrees(Native("Unknown"))
  BY DEF Unknown, Native, HandlerOf, Handlers
<1>6. Agrees([format |-> "AppImage", native |-> FALSE, extractable |-> FALSE])
  BY DEF HandlerOf, Handlers
<1>7. (\E format \in Formats : r = Container(format)) \/ Agrees(r)
  <2> HIDE DEF Agrees
  <2>1. QED
    BY <1>2, <1>3, <1>5, <1>6, Zenon
<1>8. Agrees(r)
  BY <1>4, <1>7
<1>9. QED
  BY <1>8

(***************************************************************************)
(* Before a file is identified.                                            *)
(***************************************************************************)
LEMMA InitInv == Init => Inv
BY DEF Init, Inv, TypeOK, Decided

(***************************************************************************)
(* Each of the two decisions keeps the invariant.                          *)
(***************************************************************************)
LEMMA NextInv == Inv /\ [Next]_vars => Inv'
<1> SUFFICES ASSUME Inv, [Next]_vars PROVE Inv'
  OBVIOUS
<1>1. CASE Identify
  BY <1>1 DEF Identify, Inv, TypeOK, Decided
<1>2. CASE IdentifyFails
  BY <1>2 DEF IdentifyFails, Inv, TypeOK, Decided
<1>3. CASE Dispatch
  <2>1. info = identifyFromHeader(file) /\ file \in File
    BY <1>3 DEF Dispatch, Inv, TypeOK, Decided
  <2>2. HandlerOf(info.format) \in Handlers \cup {"toolMissing", "skipped"}
    BY <2>1, SwitchAgrees
  <2>3. outcome' \in {"filtered", "native", "toolMissing", "skipped"} \cup Handlers
    BY <1>3, <2>2 DEF Dispatch
  <2>4. TypeOK'
    BY <1>3, <2>3 DEF Dispatch, Inv, TypeOK
  <2>5. Decided'
    BY <1>3, <2>1 DEF Dispatch, Decided
  <2>6. QED
    BY <2>4, <2>5 DEF Inv
<1>4. CASE Terminated \/ UNCHANGED vars
  BY <1>4 DEF Terminated, vars, Inv, TypeOK, Decided
<1>5. QED
  BY <1>1, <1>2, <1>3, <1>4 DEF Next

(***************************************************************************)
(* Every reachable state is well typed.                                    *)
(***************************************************************************)
THEOREM TypeCorrect == Spec => []TypeOK
<1>1. Inv => TypeOK
  BY DEF Inv
<1>2. QED
  BY InitInv, NextInv, <1>1, PTL DEF Spec

(***************************************************************************)
(* Package identify and the switch of package extract agree on what is     *)
(* extracted, for every combination of header, name and filter.            *)
(***************************************************************************)
THEOREM FlagsAgree == Spec => []ExtractableIsExtracted
<1>1. Inv => ExtractableIsExtracted
  <2> SUFFICES ASSUME Inv, pc = "done", outcome \notin {"failed", "filtered"}
               PROVE  outcome \in Handlers <=> info.extractable
    BY DEF ExtractableIsExtracted
  <2>1. /\ file \in File
        /\ info = identifyFromHeader(file)
        /\ outcome = IF info.native THEN "native" ELSE HandlerOf(info.format)
    BY DEF Inv, TypeOK, Decided
  <2>2. "native" \notin Handlers
    BY DEF Handlers
  <2>3. QED
    BY <2>1, <2>2, SwitchAgrees
<1>2. QED
  BY InitInv, NextInv, <1>1, PTL DEF Spec

(***************************************************************************)
(* An OLE document is never unpacked as an installer.                      *)
(***************************************************************************)
THEOREM DocumentsStay == Spec => []DocumentsNeverExtracted
<1>1. Inv => DocumentsNeverExtracted
  <2> SUFFICES ASSUME Inv, file.magic = "ole", file.ext = "doc"
               PROVE  outcome \notin Handlers
    BY DEF DocumentsNeverExtracted
  <2>1. identifyFromHeader(file) = Unknown
    BY DEF identifyFromHeader
  <2>2. HandlerOf("Unknown") = "skipped"
    BY DEF HandlerOf
  <2>3. outcome \in {"pending", "failed", "filtered", "native", "skipped"}
    BY <2>1, <2>2 DEF Inv, TypeOK, Decided, Unknown
  <2>4. QED
    BY <2>3 DEF Handlers
<1>2. QED
  BY InitInv, NextInv, <1>1, PTL DEF Spec

(***************************************************************************)
(* What identify.go:121 says of packages for Syft holds for all but gems:  *)
(* one that can be read is passed to Syft as it is, unless the filter of   *)
(* extensions leaves it out before; it is never given to a tool.           *)
(***************************************************************************)
NativeExceptGem ==
  Genuine(file) /\ file.ext # "gem" =>
    /\ outcome \notin Handlers
    /\ pc = "done" /\ outcome # "failed" =>
         outcome = IF Skipped(file) THEN "filtered" ELSE "native"

(***************************************************************************)
(* A genuine package for Syft that is no gem is passed on unextracted, if  *)
(* its extension is not filtered out.                                      *)
(***************************************************************************)
THEOREM NativePassedOn == Spec => []NativeExceptGem
<1>1. Inv => NativeExceptGem
  <2> SUFFICES ASSUME Inv, Genuine(file), file.ext # "gem"
               PROVE  /\ outcome \notin Handlers
                      /\ pc = "done" /\ outcome # "failed" =>
                           outcome = IF Skipped(file) THEN "filtered" ELSE "native"
    BY DEF NativeExceptGem
  <2>1. file \in File
    BY DEF Inv, TypeOK
  <2>2. identifyFromHeader(file).native
    <3>1. CASE file.magic = "zip"
      BY <3>1 DEF Genuine, identifyFromHeader, Native, syftNativeExtensions
    <3>2. CASE file.magic \in {"other", "gzip"}
      <4>1. file.ext = "deb" /\ ~file.ustar /\ ~file.tarName /\ ~file.dataName
        BY <2>1, <3>2 DEF Genuine, File
      <4>2. QED
        BY <3>2, <4>1 DEF identifyFromHeader, Native, Signature, Compressed, Late,
                          syftNativeExtensions
    <3>3. QED
      BY <3>1, <3>2 DEF Genuine
  <2>3. outcome \in {"pending", "failed", "filtered", "native"}
    BY <2>2 DEF Inv, TypeOK, Decided
  <2>4. outcome \notin Handlers
    BY <2>3 DEF Handlers
  <2>5. pc = "done" /\ outcome # "failed" =>
          outcome = IF Skipped(file) THEN "filtered" ELSE "native"
    BY <2>2 DEF Inv, Decided
  <2>6. QED
    BY <2>4, <2>5
<1>2. QED
  BY InitInv, NextInv, <1>1, PTL DEF Spec
=============================================================================
