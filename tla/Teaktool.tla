------------------------------ MODULE Teaktool ------------------------------
(***************************************************************************)
(* From the linker script (teak.ld) through the ELF file and teaktool to   *)
(* the TLF file that a program of the ARM9 loads.  Addresses and sizes are *)
(* in bytes, as in the ELF file, and contents in 16-bit words: teak.ld     *)
(* aligns all sections to four bytes.  W is the width of an address or a   *)
(* size in a TLF section header, 16 in the code.                           *)
(***************************************************************************)
EXTENDS CInt, SequencesExt

CONSTANTS
    W,
    StackSize   \* 0x500 words in the code, a multiple of 4 bytes

DataSpace == 2^(W + 12)

-----------------------------------------------------------------------------
(* The linker *)

AlignTo(n, x) == ((x + n - 1) \div n) * n

\* A section with "used" bytes in it, padded with zero words; a word is named
\* by its section and place.
Section(name, type, alloc, addr, used) ==
    LET size == AlignTo(4, used)
    IN  [name |-> name, type |-> type, alloc |-> alloc, addr |-> addr, size |-> size,
         data |-> IF type = "NOBITS" THEN <<>>
                  ELSE [k \in 1 .. size \div 2 |-> IF 2 * k - 1 > used THEN <<"pad", 0>> ELSE <<name, k>>]]

\* The sections of a program with so many bytes of code, constants, variables
\* and zeroed variables; the table begins with an empty entry.
Link(text, rodata, data, bss) ==
    LET rodata_start == DataSpace + StackSize
        data_start == rodata_start + AlignTo(4, rodata)
        bss_start == AlignTo(8, data_start + AlignTo(4, data))
    IN  << Section("", "NULL", FALSE, 0, 0),
           Section(".text", "PROGBITS", TRUE, 0, text),
           Section(".rodata", "PROGBITS", TRUE, rodata_start, rodata),
           Section(".data", "PROGBITS", TRUE, data_start, data),
           Section(".bss", "NOBITS", TRUE, bss_start, AlignTo(8, bss)),
           Section(".comment", "PROGBITS", FALSE, 0, 12),
           Section(".symtab", "SYMTAB", FALSE, 0, 16) >>

\* The ASSERT at the end of teak.ld, for the sections of Link.
FitsDataMemory(sections) ==
    \A i \in DOMAIN sections :
        sections[i].name = ".bss" => sections[i].addr + sections[i].size <= DataSpace + 2^W

TeakHeader == [magic |-> "ELF", class |-> 32, encoding |-> "LSB", version |-> 1, type |-> "EXEC",
               machine |-> "Teak", ehsize |-> 52, phnum |-> 2, shstrndx |-> 6]

-----------------------------------------------------------------------------
(* teaktool *)

TLF_SEGMENT_CODE == 0
TLF_SEGMENT_DATA == 1

elf_load(elf) ==
    /\ \A f \in {"magic", "class", "encoding", "version", "type", "machine", "ehsize"} :
          elf.header[f] = TeakHeader[f]
    /\ elf.header.phnum # 0
    /\ Len(elf.sections) # 0

SegmentType(name) ==
    CASE name = ".text" -> {TLF_SEGMENT_CODE}
      [] name \in {".rodata", ".data"} -> {TLF_SEGMENT_DATA}
      [] OTHER -> {}

elf_section_info(section) ==
    [address |-> U(W, section.addr) \div 2, size |-> section.size,
     type |-> CHOOSE t \in SegmentType(section.name) : TRUE, data |-> section.data]

Loadable(section) == section.size # 0 /\ SegmentType(section.name) # {}

read_sections(elf) ==
    LET read[i \in 0 .. Len(elf.sections)] ==
            IF i = 0 THEN <<>>
            ELSE IF Loadable(elf.sections[i])
                   THEN Append(read[i - 1], elf_section_info(elf.sections[i]))
                   ELSE read[i - 1]
    IN  IF elf.header.shstrndx = 0 THEN <<>> ELSE read[Len(elf.sections)]

\* Mutant of full_header_size: the header of the file isn't counted.
full_header_sizeOfSections(sections) == 12 * Len(sections)

\* sizeof(tlf_header) and sizeof(tlf_section_header)
full_header_size(sections) == 8 + 12 * Len(sections)

\* current_section_offset, after i headers.
DataOffset(sections) ==
    LET offset[i \in 0 .. Len(sections)] ==
            IF i = 0 THEN full_header_size(sections) ELSE offset[i - 1] + sections[i].size
    IN  offset

\* The words of the file: those of the headers, and the data of each section.
FileWords(sections) ==
    LET written[i \in 0 .. Len(sections)] ==
            IF i = 0 THEN [k \in 1 .. 4 + 6 * Len(sections) |-> <<"header", 0>>]
            ELSE written[i - 1] \o sections[i].data
    IN  written[Len(sections)]

\* All writes succeed, and the sections don't exceed MAX_SECTIONS: teak.ld makes
\* one section of each name.
Tlf(elf) ==
    LET sections == read_sections(elf)
    IN  [section |-> [i \in DOMAIN sections |->
             [address |-> sections[i].address, size |-> U(W, sections[i].size),
              type |-> sections[i].type, data_offset |-> DataOffset(sections)[i - 1]]],
         words |-> FileWords(sections)]

\* The files that teaktool writes: one, or none if elf_load() fails.
teaktool(elf) == IF elf_load(elf) THEN {Tlf(elf)} ELSE {}

-----------------------------------------------------------------------------
(* Two loaders, as sets of <<space, address in words, word>>. *)

Words(type, address, data) == {<<type, address + k, data[k + 1]>> : k \in 0 .. Len(data) - 1}

\* What tlf.h says of the fields: sizes and offsets in bytes, addresses in words.
TlfImage(tlf) ==
    UNION {LET s == tlf.section[i]
               first == s.data_offset \div 2
           IN  Words(s.type, s.address, SubSeq(tlf.words, first + 1, first + s.size \div 2)) :
           i \in DOMAIN tlf.section}

\* load_elf() of teaksim, which goes by types and flags instead of names.
load_elf(elf) ==
    LET Loaded == {s \in ToSet(elf.sections) : s.type = "PROGBITS" /\ s.alloc /\ s.size # 0}
    IN  UNION {IF s.addr >= DataSpace
                 THEN Words(TLF_SEGMENT_DATA, (s.addr - DataSpace) \div 2, s.data)
                 ELSE Words(TLF_SEGMENT_CODE, s.addr \div 2, s.data) : s \in Loaded}

-----------------------------------------------------------------------------

\* For every program that teak.ld links, the TLF file loads the words that
\* teaksim loads from the ELF file, and no others, exactly if the code is
\* shorter than the 16-bit size in a section header can say (main.c:173 cuts
\* it down without a check, and teak.ld checks only the data).  An ELF file
\* for another machine isn't converted.
LoadsAlike(elf) ==
    LET CodeFits == \A s \in ToSet(elf.sections) : s.name = ".text" => s.size < 2^W
    IN  IF elf.header.machine = "Teak"
          THEN /\ teaktool(elf) # {}
               /\ \A tlf \in teaktool(elf) : (TlfImage(tlf) = load_elf(elf)) <=> CodeFits
          ELSE teaktool(elf) = {}
=============================================================================
