------------------------------- MODULE PEFile -------------------------------
(***************************************************************************)
(* PEParse: what IsPE accepts, what is then read to classify a file, and    *)
(* how an address in the file and an exported function are found.  A file   *)
(* is a record of the fields that the code looks at, a name a sequence.     *)
(* Sums of unsigned long wrap; those with a size_t only in a 32-bit build.  *)
(***************************************************************************)
EXTENDS Integers, Sequences, FiniteSetsExt, SequencesExt

CONSTANTS Ulong,         \* how many values an unsigned long has: 2^32
          Files,         \* the files: records of the fields below
          ExportTables,  \* [names, ordinals, functions], as a linker writes them
          Wanted         \* the names that are looked for

VARIABLES build,     \* "Win32" or "x64"
          file,      \* size, mz, lfanew, nt, magic, sections, optional, dll, subsystem,
                     \* imports, table: what is where the code looks, in the file or not
          stage,     \* "loaded", "accepted", "refused", "classified", "crashed"
          class,     \* what ClassifyPE32 or ClassifyPE64 has returned
          reads,     \* the bytes of the headers that the functions have read
          table, wanted, found   \* the last export looked for, in a loaded image

peVars == <<build, file, stage, class, reads, table, wanted, found>>

DosHeader == 64
NtHeaders32 == 248
NtHeaders64 == 264
SectionHeader == 40

NULL == -1
NotYet == -2

Init ==
    /\ build \in {"Win32", "x64"} /\ file \in Files
    /\ stage = "loaded" /\ class = NotYet
    /\ reads = {}
    /\ table \in ExportTables /\ wanted \in Wanted /\ found = NotYet

-------------------------------------------------------------------------------
(* Addresses                                                                  *)

Wrapped(n) == n % Ulong

Within(section, rva) == section.va <= rva /\ rva < Wrapped(section.va + section.vsize)

\* The first of the sections that holds the address.
Rva2Section(sections, rva) ==
    LET holders == {i \in DOMAIN sections : Within(sections[i], rva)}
    IN  IF holders = {} THEN NULL ELSE Min(holders)

RVA2FA(sections, rva) ==
    LET i == Rva2Section(sections, rva)
    IN  IF i = NULL THEN NULL ELSE rva - sections[i].va + sections[i].raw

\* Where the NT headers are for IsPE: an address of 32 bits wraps to what is before the
\* file.  For the others e_lfanew is a signed LONG.
Place ==
    IF build = "Win32" /\ file.lfanew + NtHeaders32 >= Ulong
      THEN file.lfanew - Ulong ELSE file.lfanew
PlaceSigned ==
    IF build = "x64" /\ file.lfanew >= Ulong \div 2 THEN file.lfanew - Ulong ELSE Place

\* The bytes of a field, in the DOS header, the NT headers and the section table.
Bytes(from, to) == [from |-> from, to |-> to, of |-> "headers"]
Signature(place) == Bytes(place, place + 4)
NumberOfSections(place) == Bytes(place + 6, place + 8)
SizeOfOptionalHeader(place) == Bytes(place + 20, place + 22)
Characteristics(place) == Bytes(place + 22, place + 24)
Magic(place) == Bytes(place + 24, place + 26)
Subsystem(place) == Bytes(place + 92, place + 94)
ImportDirectory(place) == Bytes(place + 128, place + 132)
SectionBytes(place, n, from, to) ==
    LET at == place + 24 + file.optional + (n - 1) * SectionHeader
    IN  [from |-> at + from, to |-> at + to, of |-> "sections"]

When(c, S) == IF c THEN S ELSE {}

-------------------------------------------------------------------------------
(* IsPE and ClassifyPE                                                        *)

LongEnough == file.size > DosHeader + NtHeaders32
HeadersFit ==
    LET end == file.lfanew + NtHeaders32
    IN  LongEnough /\ file.mz /\ file.size > IF build = "Win32" THEN Wrapped(end) ELSE end

\* The last test counts the sections from the size of the headers, or, when the magic
\* number is none of the three, from where the headers begin.
Counted ==
    CASE file.magic = "PE32" -> NtHeaders32
      [] file.magic = "PE64" -> NtHeaders64
      [] OTHER -> file.lfanew

\* The test that forgets how many sections there are.
SectionFits == file.size >= Wrapped(Counted + SectionHeader)

SectionsFit == file.size >= Wrapped(Counted + Len(file.sections) * SectionHeader)

IsPE ==
    /\ stage = "loaded"
    /\ stage' = IF HeadersFit /\ file.nt /\ file.magic # "ROM" /\ SectionsFit
                  THEN "accepted" ELSE "refused"
    /\ reads' = When(LongEnough, {Bytes(0, 2)})
           \cup When(LongEnough /\ file.mz, {Bytes(60, 64)})
           \cup When(HeadersFit, {Signature(Place)})
           \cup When(HeadersFit /\ file.nt, {Magic(Place)})
           \cup When(HeadersFit /\ file.nt /\ file.magic # "ROM", {NumberOfSections(Place)})
    /\ UNCHANGED <<build, file, class, table, wanted, found>>

\* The descriptors of the imported libraries that are looked at: up to the first with
\* Characteristics 0 (the end of the list, or a library of which a linker wrote no
\* OriginalFirstThunk), the kernel's, or the first the name of which no section holds.
Named(import) == RVA2FA(file.sections, import.name) # NULL
Described ==
    {n \in DOMAIN file.imports :
        /\ \A m \in 1..n : file.imports[m].characteristics # 0
        /\ \A m \in 1..(n - 1) : Named(file.imports[m]) /\ file.imports[m].dll # "ntoskrnl.exe"}

\* An address is looked up in the section table from its beginning: of each section
\* VirtualSize and VirtualAddress, and of its own PointerToRawData too.
LooksUp(rva) ==
    {SectionBytes(PlaceSigned, n, 8, IF Within(file.sections[n], rva) THEN 24 ELSE 16) :
        n \in {n \in DOMAIN file.sections :
                  \A m \in 1..(n - 1) : ~Within(file.sections[m], rva)}}

\* The imports are found through the section their address lies in.
Imported == RVA2FA(file.sections, file.table) # NULL
IsDriver32 == Imported /\ \E n \in Described : file.imports[n].dll = "ntoskrnl.exe"

ReadsOfIsDriver32 ==
    {ImportDirectory(PlaceSigned), NumberOfSections(PlaceSigned), SizeOfOptionalHeader(PlaceSigned)}
      \cup LooksUp(file.table)
      \cup When(Imported, UNION {LooksUp(file.imports[n].name) : n \in Described})

\* A name that no section holds is NULL, and compared all the same.
Crashes == Imported /\ \E n \in Described : ~Named(file.imports[n])

Windowed == file.subsystem \in {"gui", "console"}

Classify32 ==
    CASE file.dll -> 1
      [] ~file.dll /\ Windowed -> 2
      [] ~file.dll /\ ~Windowed -> IF IsDriver32 THEN 3 ELSE 0

Classify64 ==
    CASE file.dll -> 1
      [] ~file.dll -> IF Windowed THEN 2 ELSE 3

\* Each field is read only if the one before has not decided.
ClassifyPE ==
    LET imports == ~file.dll /\ ~Windowed /\ file.magic # "PE64"
    IN  /\ stage = "accepted"
        /\ \/ imports /\ Crashes /\ stage' = "crashed" /\ UNCHANGED class
           \/ /\ ~(imports /\ Crashes) /\ stage' = "classified"
              /\ class' = IF file.magic = "PE64" THEN Classify64 ELSE Classify32
        /\ reads' = reads \cup {Characteristics(PlaceSigned)}
               \cup When(~file.dll, {Subsystem(PlaceSigned)})
               \cup When(imports, ReadsOfIsDriver32)
        /\ UNCHANGED <<build, file, table, wanted, found>>

-------------------------------------------------------------------------------
(* FindDllExportProcAddr32, in an image in memory                             *)

\* The comparison that asks only for the first letter.
AgreesAtFirst(name, procName) == Head(name) = Head(procName)

\* The comparison stops at the end of the name that is looked for.
Agrees(name, procName) == IsPrefix(procName, name)

\* The first name that agrees and whose ordinal is one of a function.
FindDllExportProcAddr32(t, procName) ==
    LET hits == {i \in DOMAIN t.names :
                    Agrees(t.names[i], procName) /\ t.ordinals[i] < Len(t.functions)}
    IN  IF hits = {} THEN NULL ELSE t.functions[t.ordinals[Min(hits)] + 1]

FindExport ==
    /\ found = NotYet
    /\ found' = FindDllExportProcAddr32(table, wanted)
    /\ UNCHANGED <<build, file, stage, class, reads, table, wanted>>

Next == IsPE \/ ClassifyPE \/ FindExport

Spec == Init /\ [][Next]_peVars

-------------------------------------------------------------------------------
\* Names in the order of their characters, none twice.
Before(a, b) ==
    \E n \in 1..Len(b) :
        /\ \A m \in 1..(n - 1) : m <= Len(a) /\ a[m] = b[m]
        /\ n > Len(a) \/ a[n] < b[n]
Sorted(names) == \A m, n \in DOMAIN names : m < n => Before(names[m], names[n])

\* The comparison takes a longer name for the one it looks for.  Nevertheless an
\* exported name is found, with its own function, for a linker sorts the names and a
\* name sorts before those it begins; only a name that is not there may be taken for
\* another.
ExportFound ==
    \A i \in DOMAIN table.names :
        found # NotYet /\ table.names[i] = wanted /\ table.ordinals[i] < Len(table.functions)
            => found = table.functions[table.ordinals[i] + 1]

\* Whatever is read of the headers lies in the file, of a file that IsPE refuses too,
\* wherever the headers are, but for an e_lfanew that is negative, which gets past IsPE
\* in a 32-bit build and in a file of more than 2 GB.  What is read of the section table
\* ends after the file by no more than what the last test does not count.
Negative == file.lfanew >= Ulong \div 2
Uncounted == file.lfanew + 24 + file.optional - Counted
AcceptedIsReadable ==
    \/ Negative /\ (build = "Win32" \/ file.size > Ulong \div 2)
    \/ \A r \in reads :
          0 <= r.from /\ r.to <= file.size + (IF r.of = "sections" THEN Uncounted ELSE 0)

===============================================================================
