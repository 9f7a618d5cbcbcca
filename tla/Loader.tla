------------------------------- MODULE Loader -------------------------------
(***************************************************************************)
(* The first and the last of the loader: loader_init() and boot_kernel()   *)
(* of loader_init.c, sysdeps_create_boot_params() of system.c and          *)
(* start_kernel() of sysdeps.h, with printk() in between.                  *)
(*                                                                         *)
(* mem is the memory above 1 MB in large units, low the memory from        *)
(* high_base_mem on in units of 2 KB.  A cell holds a part of a file       *)
(* (<<file, number of the part>>) or something else (<<what, 0>>).  The    *)
(* stack, with the boot parameters on it, is one cell of mem.  What is     *)
(* printed between, by do_main() and what it calls, are Messages; what     *)
(* boot_kernel() says of its progress is Notice.                           *)
(***************************************************************************)
EXTENDS Console

CONSTANTS
    kernel_start, KERNEL_BUFFER,
    InitrdStart,         \* 15 MB
    Top,                 \* last unit of memory
    Setups,              \* what boot_kernel() is called with (see Setup)
    Messages,            \* sequence of the calls of printk(): fmt and args
    Notice,              \* a text
    Conversions,         \* calls of sprintf() with one number: d and arg
    MaxPrints            \* bound: messages before boot_kernel()

Layout ==
    /\ kernel_start \in Nat \ {0} /\ {KERNEL_BUFFER, InitrdStart, Top, MaxPrints} \subseteq Nat
    /\ kernel_start + KERNEL_BUFFER <= InitrdStart /\ InitrdStart <= Top
\* malloc() has put kernel and ramdisk apart from each other and from the stack,
\* above 15 MB.
Units(at, len) == at .. at + len - 1
Placed(s) ==
    /\ {s.k, s.k_len, s.r, s.r_len, s.stack, s.setup_sects} \subseteq Nat
    /\ Units(s.k, s.k_len) \subseteq InitrdStart + 1 .. Top \ {s.stack}
    /\ s.k_len > 0 /\ s.stack \in InitrdStart + 1 .. Top
    /\ s.r # 0 => Units(s.r, s.r_len) \subseteq
                  InitrdStart + 1 .. Top \ ({s.stack} \cup Units(s.k, s.k_len))
AllPlaced == \A s \in Setups : Placed(s)

ASSUME LoaderAssumption == Layout
ASSUME SetupsAssumption == AllPlaced
\* Only characters are printed.
ASSUME TextsAssumption ==
    Notice \in Seq(STRING) /\ \A i \in DOMAIN Messages : vsprintf(Messages[i].fmt, Messages[i].args) \in Seq(STRING)

VARIABLES
    stage,     \* "main", "copy", "params", "start", "started", "sprintf"
    console,
    mem, low,
    bp,        \* the boot parameters
    setup,     \* what boot_kernel() was called with
    prints,
    paper,     \* the rows printed so far, as they would stand on endless paper
    neat,      \* no row has run over the right edge
    result     \* the last call of sprintf() and its text
loader_vars == <<stage, console, mem, low, bp, setup, prints, paper, neat, result>>
display == <<console, paper, neat>>

-----------------------------------------------------------------------------
(* printk().                                                                *)

RowWidth(row) == BootVideoOverlayString(Blank, row).w
\* The same text on paper: a new row at a newline, and behind a text that ends
\* over the edge.
OnPaper(rows, text) ==
    LET Char(acc, ch) == IF ch = NL THEN Append(acc, <<>>)
                         ELSE Append(Front(acc), Append(Last(acc), ch))
        after == Folded(Char, rows, text)
    IN  IF text # <<>> /\ Last(text) # NL /\ RowWidth(Last(after)) > Width
        THEN Append(after, <<>>) ELSE after

\* printk() has room for 1024 characters; Messages and Notice fit.
Says(text) ==
    LET rows == OnPaper(paper, text)
    IN  /\ console' = BootVideoChunkedPrint(console, text)
        /\ paper' = rows
        /\ neat' = (neat /\ \A i \in DOMAIN rows : RowWidth(rows[i]) <= Width)

printk(m) == Says(vsprintf(m.fmt, m.args))

DoMainPrints ==
    /\ stage = "main" /\ prints < MaxPrints
    /\ \E i \in DOMAIN Messages : printk(Messages[i])
    /\ prints' = prints + 1
    /\ UNCHANGED <<stage, mem, low, bp, setup, result>>

\* A number as any of the calls of sprintf() prints it.
Sprintf ==
    /\ stage = "main" /\ prints = 0
    /\ \E c \in Conversions : result' = [c |-> c, text |-> vsprintf(<<c.d>>, <<c.arg>>)]
    /\ stage' = "sprintf"
    /\ UNCHANGED <<display, mem, low, bp, setup, prints>>

-----------------------------------------------------------------------------
(* Memory.                                                                  *)

\* A mutant: the last unit first.
MEMCPY_Backwards(m, to, from, cnt) ==
    LET f[n \in 0 .. cnt] == IF n = 0 THEN m
                             ELSE [f[n - 1] EXCEPT ![to + cnt - n] = f[n - 1][from + cnt - n]]
    IN  IF to = 0 \/ from = 0 THEN m ELSE f[cnt]

\* Unit by unit from the first on, as memcpy() does too; nothing for null pointers.
MEMCPY(m, to, from, cnt) ==
    LET f[n \in 0 .. cnt] == IF n = 0 THEN m
                             ELSE [f[n - 1] EXCEPT ![to + n - 1] = f[n - 1][from + n - 1]]
    IN  IF to = 0 \/ from = 0 THEN m ELSE f[cnt]
MEMSET(m, ptr, size) == [a \in DOMAIN m |-> IF a \in ptr .. ptr + size - 1 THEN <<"zero", 0>> ELSE m[a]]

Parts(file, at, len) == [a \in Units(at, len) |-> <<file, a - at>>]
\* Kernel and ramdisk where malloc() has put them, the stack somewhere else.
Loaded(s) ==
    LET k == Parts("kernel", s.k, s.k_len)
        r == IF s.r = 0 THEN <<>> ELSE Parts("ramdisk", s.r, s.r_len)
    IN  [a \in 1 .. Top |->
            IF a \in DOMAIN k THEN k[a] ELSE IF s.r # 0 /\ a \in DOMAIN r THEN r[a]
            ELSE IF a = s.stack THEN <<"stack", 0>> ELSE <<"other", 0>>]

-----------------------------------------------------------------------------
(* boot_kernel().                                                           *)

NoSetup == [k |-> 0]
\* Called once here; on a wrong signature it returns.
boot_kernel ==
    /\ stage = "main" /\ setup = NoSetup
    /\ \E s \in Setups :
        /\ setup' = s /\ mem' = Loaded(s)
        /\ stage' = IF s.signature THEN "copy" ELSE "main"
    /\ Says(Notice)
    /\ UNCHANGED <<low, bp, prints, result>>

SetupLen == setup.setup_sects + 1
CopyKernel ==
    /\ stage = "copy"
    /\ mem' = MEMCPY(MEMSET(mem, kernel_start, KERNEL_BUFFER),
                     kernel_start, setup.k + SetupLen, setup.k_len - SetupLen)
    /\ Says(Notice)
    /\ stage' = "params"
    /\ UNCHANGED <<low, bp, setup, prints, result>>

\* "%s video=...,width:%d,height:%d,linelength:%d,base:%d"
CmdlineFormat ==
    LET d == Conv("d", {}, None, None, "")
    IN  <<Conv("s", {}, None, None, "")>> \o <<Lit(","), d, Lit(","), d, Lit(","), d, Lit(","), d>>
Cmdline(s) ==
    vsprintf(CmdlineFormat, <<[null |-> FALSE, text |-> s.o], s.video.width, s.video.height,
                              s.video.rowb, s.video.addr>>)

high_ext_mem_k == 32 * 1024
\* The fields that are only cleared, or describe a text mode nobody uses, are left out.
sysdeps_create_boot_params(header, s) ==
    LET given == s.r # 0 /\ s.r_len # 0
    IN  [header |-> header,
         loader_type |-> "ELILO", efi_loader_sig |-> "EFIL",
         cmdline |-> Cmdline(s), cmdline_offset |-> 7, cmdline_addr |-> 0,
         alt_mem_k |-> high_ext_mem_k,
         ext_mem_k |-> IF high_ext_mem_k <= 65535 THEN high_ext_mem_k ELSE 65535,
         initrd_start |-> IF given THEN s.r ELSE 0,
         initrd_size |-> IF given THEN s.r_len ELSE 0,
         orig_root_dev |-> IF given THEN "ram" ELSE "kernel's",
         kernel_start |-> kernel_start]

CreateParams ==
    /\ stage = "params"
    /\ bp' = sysdeps_create_boot_params(mem[setup.k], setup)
    /\ Says(Notice)
    /\ stage' = "start"
    /\ UNCHANGED <<mem, low, setup, prints, result>>

high_base_mem == 288     \* 0x90000 in units of 2 KB
BOOT_PARAM_UNITS == 8    \* 0x4000
gdt_base == 296          \* 0x94000

\* What start_kernel() copies: the parameters, if the stack still has them.
ParamUnit(m, b, u) ==
    IF m[setup.stack] # <<"stack", 0>> THEN <<"lost", 0>>
    ELSE IF u = 0 THEN <<"params", 0>>
    ELSE IF u = b.cmdline_offset THEN <<"cmdline", 0>> ELSE <<"zero", 0>>

StartKernel ==
    LET there == bp.initrd_start # 0
        m == IF there THEN MEMCPY(mem, InitrdStart, bp.initrd_start, bp.initrd_size) ELSE mem
        b == IF there THEN [bp EXCEPT !.initrd_start = InitrdStart] ELSE bp
    IN  /\ stage = "start"
        /\ mem' = m /\ bp' = b
        /\ low' = [u \in DOMAIN low |->
                      IF u = gdt_base THEN <<"gdt", 0>>
                      ELSE IF u \in high_base_mem .. high_base_mem + BOOT_PARAM_UNITS - 1
                           THEN ParamUnit(m, b, u - high_base_mem) ELSE low[u]]
        /\ stage' = "started"
        /\ UNCHANGED <<display, setup, prints, result>>

-----------------------------------------------------------------------------
\* loader_init()
LoaderInit ==
    /\ stage = "main" /\ prints = 0
    /\ console = Blank /\ paper = << <<>> >> /\ neat = TRUE
    /\ mem = [a \in 1 .. Top |-> <<"other", 0>>]
    /\ low = [u \in high_base_mem .. gdt_base |-> <<"other", 0>>]
    /\ bp = [header |-> <<"other", 0>>] /\ setup = NoSetup
    /\ result = [text |-> <<>>]

LoaderNext == DoMainPrints \/ Sprintf \/ boot_kernel \/ CopyKernel \/ CreateParams \/ StartKernel
LoaderSpec == LoaderInit /\ [][LoaderNext]_loader_vars

-----------------------------------------------------------------------------
(* Properties.                                                              *)

\* Whatever was printed, each line of the screen down to the cursor shows exactly the
\* row of the endless paper it stands for, however often the screen has scrolled
\* (BootVideoHelpers.c:198-246): nothing older shines through, nothing is lost but
\* what has scrolled away; and nothing is drawn outside the frame buffer unless a row
\* was wider than the screen.
ScreenShowsTail ==
    LET lines == console.y \div LineHeight + 1
        Band(frame, i) == [a \in (i - 1) * LineHeight * Width .. i * LineHeight * Width - 1 |-> frame[a]]
        Row(i) == paper[Len(paper) - lines + i]
        Shown(i) == BootVideoOverlayString([Blank EXCEPT !.y = (i - 1) * LineHeight], Row(i)).c.frame
    IN  /\ lines <= Len(paper)
        /\ \A i \in 1 .. lines : Band(console.frame, i) = Band(Shown(i), i)
        /\ console.outside => ~neat

AfterComma(text, k) ==
    SubSeq(text, 1 + CHOOSE i \in DOMAIN text :
                        /\ text[i] = ","
                        /\ Len(SelectSeq(SubSeq(text, 1, i), LAMBDA ch : ch = ",")) = k, Len(text))
\* What number() prints (vsprintf.c:89-154) is read back as the number that was
\* taken, by simple_strtol() without the padding and the plus, whatever flags, width and
\* precision are used, also for the most negative number; and the field is never
\* shorter than asked.  The exception is %#X (rtl8139.c:214): number() writes the prefix
\* 0X (vsprintf.c:141) and simple_strtoul() knows only 0x (vsprintf.c:42), so that base 0
\* takes the text as the octal 0; there the digits behind the prefix, read in base 16, are
\* the number.  The command line of the kernel (loader_init.c:123) begins with
\* the options of the configuration, and the numbers behind them are read as those of the
\* frame buffer, an address above 2 GB too.
NumbersReadBack ==
    /\ stage = "sprintf" =>
        LET d == result.c.d
            bare == SelectSeq(result.text, LAMBDA ch : ch \notin {" ", "+"})
            special == "SPECIAL" \in d.flags /\ BaseOf(d.conv) # 10
            value == Signed(Taken(d.conv, d.qualifier, result.c.arg), WordBits)
        IN  /\ Len(result.text) >= d.width
            /\ IF special /\ d.conv = "X"
               THEN /\ SubSeq(bare, 1, 2) = <<"0", "X">>
                    /\ simple_strtol(bare, 0) = 0
                    /\ simple_strtol(SubSeq(bare, 3, Len(bare)), 16) = value
               ELSE simple_strtol(bare, IF special THEN 0 ELSE BaseOf(d.conv)) = value
    /\ stage = "started" =>
        LET v == setup.video
            Number(k) == simple_strtol(AfterComma(bp.cmdline, k), 10)
        IN  /\ SubSeq(bp.cmdline, 1, Len(setup.o)) = setup.o
            /\ <<Number(1), Number(2), Number(3), Number(4)>> =
               <<Signed(v.width, WordBits), Signed(v.height, WordBits), Signed(v.rowb, WordBits),
                 Signed(v.addr, WordBits)>>

Fits(s) ==
    /\ s.setup_sects < s.k_len
    /\ kernel_start + s.k_len - s.setup_sects - 1 <= InitrdStart
    /\ s.r # 0 => InitrdStart + s.r_len <= s.stack
\* A kernel that is started (sysdeps.h:328-381) lies whole at kernel_start, its
\* ramdisk whole where the boot parameters say, parameters and command line where the
\* kernel looks for them with the descriptor table behind: if the kernel ends below the
\* ramdisk and the ramdisk below the stack, also when the copy of the ramdisk runs into
\* the buffer it is copied from.
HandsOver ==
    stage = "started" /\ Fits(setup) =>
        LET s == setup
        IN  /\ \A i \in SetupLen .. s.k_len - 1 :
                    mem[kernel_start + i - SetupLen] = <<"kernel", i>>
            /\ IF s.r # 0 /\ s.r_len # 0
               THEN /\ bp.initrd_start = InitrdStart /\ bp.initrd_size = s.r_len
                    /\ \A i \in 0 .. s.r_len - 1 : mem[bp.initrd_start + i] = <<"ramdisk", i>>
               ELSE bp.initrd_start = 0
            /\ bp.header = <<"kernel", 0>> /\ bp.kernel_start = kernel_start
            /\ low[high_base_mem] = <<"params", 0>> /\ low[gdt_base] = <<"gdt", 0>>
            /\ low[high_base_mem + bp.cmdline_offset] = <<"cmdline", 0>>

-----------------------------------------------------------------------------
(* The inductive invariant of HandsOver.                                    *)

\* The kernel is where it will run, and nothing above it has been touched.
KernelCopied(m, s) ==
    /\ m = [a \in 1 .. Top |-> m[a]]
    /\ \A i \in s.setup_sects + 1 .. s.k_len - 1 :
            m[kernel_start + i - (s.setup_sects + 1)] = <<"kernel", i>>
    /\ \A a \in InitrdStart .. Top : m[a] = Loaded(s)[a]

HandInv ==
    /\ stage \in {"copy", "params", "start", "started"} => setup \in Setups
    /\ stage = "copy" => mem = Loaded(setup)
    /\ stage \in {"params", "start"} /\ Fits(setup) => KernelCopied(mem, setup)
    /\ stage = "start" /\ Fits(setup) => bp = sysdeps_create_boot_params(<<"kernel", 0>>, setup)
    /\ DOMAIN low = high_base_mem .. gdt_base
    /\ HandsOver
=============================================================================
