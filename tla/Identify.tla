------------------------------ MODULE Identify ------------------------------
(***************************************************************************)
(* Package identify, and the choice that extractRecursive makes by its     *)
(* result: what Extraction leaves to the environment, the handler of a     *)
(* file or the status of a file without one.                               *)
(*                                                                         *)
(* A file is what the tests can tell apart: the magic bytes at the start   *)
(* of its header, or "short" for fewer than four bytes; the mark of a TAR  *)
(* at offset 257; its extension; and what two tests say of its base name.  *)
(* An extension stands for its class: "jar" for the packages Syft reads    *)
(* that are ZIP files, "gem" for the one that is a TAR, and "deb" for      *)
(* those with a header of their own; "doc" for an OLE document, "gz" also  *)
(* for .tgz, "snap" also for .squashfs.                                    *)
(***************************************************************************)
EXTENDS Naturals

CONSTANT SkipExtensions   \* cfg.SkipExtensions

VARIABLES
  pc,       \* "identify", "dispatch" or "done"
  file,     \* the file at filePath
  info,     \* node.Format, a FormatInfo
  outcome   \* the status of a file without a handler, or the handler

vars == <<pc, file, info, outcome>>

syftNativeExtensions == {"jar", "deb", "gem"}

Magic == {"short", "zip", "isc", "mscf", "ole", "sevenZip", "rar", "gzip", "bzip2",
          "xz", "zstd", "appimage", "squashfs", "cpio", "other"}

Extension == syftNativeExtensions \cup {"doc", "gz", "iso", "snap", "cab", "other", ""}

(***************************************************************************)
(* isTarExtension and isInstallShieldByName look at the end of the name,   *)
(* and so agree with its extension.                                        *)
(***************************************************************************)
File == {f \in [magic : Magic, ustar : BOOLEAN, ext : Extension,
                tarName : BOOLEAN, dataName : BOOLEAN] :
           /\ f.magic = "short" => ~f.ustar
           /\ f.tarName => f.ext \in {"gz", "other"}
           /\ f.dataName => f.ext = "cab"}

-----------------------------------------------------------------------------
Unknown == [format |-> "Unknown", native |-> FALSE, extractable |-> FALSE]

Native(format) == [format |-> format, native |-> TRUE, extractable |-> FALSE]

Container(format) == [format |-> format, native |-> FALSE, extractable |-> TRUE]

(***************************************************************************)
(* The formats that the first bytes decide whatever the name is, and the   *)
(* compressed formats that are a TAR if their name says so.                *)
(***************************************************************************)
Signature == [isc |-> "InstallShieldCAB", mscf |-> "CAB", ole |-> "MSI",
              sevenZip |-> "7z", rar |-> "RAR"]

Compressed == [gzip |-> "GzipTAR", bzip2 |-> "Bzip2TAR", xz |-> "XzTAR",
               zstd |-> "ZstdTAR"]

Late == [squashfs |-> "Squashfs", cpio |-> "CPIO"]

(***************************************************************************)
(* The tests in their order: the first that applies decides.  The mark of  *)
(* a TAR comes before the extensions, those of Syft's packages are last.   *)
(***************************************************************************)
identifyFromHeader(f) ==
  IF f.magic = "short" THEN Unknown
  ELSE IF f.magic = "zip" THEN
    IF f.ext \in syftNativeExtensions THEN Native("ZIP") ELSE Container("ZIP")
  ELSE IF f.magic = "ole" /\ f.ext = "doc" THEN Unknown
  ELSE IF f.magic \in DOMAIN Signature THEN Container(Signature[f.magic])
  ELSE IF f.magic \in DOMAIN Compressed /\ f.tarName THEN Container(Compressed[f.magic])
  ELSE IF f.ustar THEN Container("TAR")
  ELSE IF f.magic = "appimage" THEN
    [format |-> "AppImage", native |-> FALSE, extractable |-> FALSE]
  ELSE IF f.magic \in DOMAIN Late THEN Container(Late[f.magic])
  ELSE IF f.magic = "gzip" /\ f.ext = "gz" THEN Container("GzipTAR")
  ELSE IF f.ext = "iso" THEN Container("ISO")
  ELSE IF f.ext = "snap" THEN Container("Squashfs")
  ELSE IF f.dataName THEN Container("InstallShieldCAB")
  ELSE IF f.ext \in syftNativeExtensions THEN Native("Unknown")
  ELSE Unknown

Handlers == {"archive", "compressedTAR", "installShield", "squashfs"}

(***************************************************************************)
(* The switch of extractRecursive; it does not look at Extractable.        *)
(***************************************************************************)
HandlerOf(format) ==
  IF format \in {"ZIP", "TAR", "CAB", "7z", "RAR", "MSI", "ISO", "CPIO"} THEN "archive"
  ELSE IF format \in {"GzipTAR", "Bzip2TAR", "XzTAR", "ZstdTAR"} THEN "compressedTAR"
  ELSE IF format = "InstallShieldCAB" THEN "installShield"
  ELSE IF format = "Squashfs" THEN "squashfs"
  ELSE IF format = "AppImage" THEN "toolMissing"
  ELSE "skipped"

-----------------------------------------------------------------------------
Init ==
  /\ pc = "identify"
  /\ file \in File
  /\ info = Unknown
  /\ outcome = "pending"

Identify ==
  /\ pc = "identify"
  /\ info' = identifyFromHeader(file)
  /\ pc' = "dispatch"
  /\ UNCHANGED <<file, outcome>>

(***************************************************************************)
(* The file cannot be opened or read.                                      *)
(***************************************************************************)
IdentifyFails ==
  /\ pc = "identify"
  /\ outcome' = "failed"
  /\ pc' = "done"
  /\ UNCHANGED <<file, info>>

(***************************************************************************)
(* isSkippedExtension: a file without an extension is never filtered.      *)
(***************************************************************************)
Skipped(f) == f.ext # "" /\ f.ext \in SkipExtensions

(***************************************************************************)
(* The filter comes before Syft's packages, and both before the switch.    *)
(***************************************************************************)
Dispatch ==
  /\ pc = "dispatch"
  /\ outcome' = IF Skipped(file) THEN "filtered"
                ELSE IF info.native THEN "native"
                ELSE HandlerOf(info.format)
  /\ pc' = "done"
  /\ UNCHANGED <<file, info>>

Terminated == pc = "done" /\ UNCHANGED vars

Next == Identify \/ IdentifyFails \/ Dispatch \/ Terminated

Spec == Init /\ [][Next]_vars

-----------------------------------------------------------------------------
(***************************************************************************)
(* Every variable holds a value of its type.                               *)
(***************************************************************************)
TypeOK ==
  /\ pc \in {"identify", "dispatch", "done"}
  /\ file \in File
  /\ info \in {Unknown} \cup {identifyFromHeader(f) : f \in File}
  /\ outcome \in {"pending", "failed", "filtered", "native", "skipped",
                  "toolMissing"} \cup Handlers

(***************************************************************************)
(* The switch, which knows the formats by name, extracts what package      *)
(* identify calls extractable and nothing else: no format falls through to *)
(* its default, and none that is Unknown or for Syft reaches a tool.       *)
(***************************************************************************)
ExtractableIsExtracted ==
  pc = "done" /\ outcome \notin {"failed", "filtered"} =>
    (outcome \in Handlers <=> info.extractable)

(***************************************************************************)
(* A document that shares the magic bytes of an installer is never given   *)
(* to 7-Zip, whatever else its header and name look like.                  *)
(***************************************************************************)
DocumentsNeverExtracted ==
  file.magic = "ole" /\ file.ext = "doc" => outcome \notin Handlers

(***************************************************************************)
(* A package for Syft that is what its extension says.                     *)
(***************************************************************************)
Genuine(f) ==
  \/ f.ext = "jar" /\ f.magic = "zip" /\ ~f.ustar
  \/ f.ext = "deb" /\ f.magic \in {"other", "gzip"} /\ ~f.ustar
  \/ f.ext = "gem" /\ f.magic = "other" /\ f.ustar

(***************************************************************************)
(* identify.go:121: packages that Syft reads natively "are never extracted *)
(* by extract-sbom and instead passed directly to Syft".                   *)
(***************************************************************************)
NativeNeverExtracted == Genuine(file) => outcome \notin Handlers
=============================================================================
