------------------------------ MODULE HidParser -----------------------------
(***************************************************************************)
(* The parser of HID report descriptors (hardware/hid/parse.c): a          *)
(* descriptor is any sequence of at most MaxItems items, of which the tag  *)
(* and what decides the layout of the reports are kept; usages, units and  *)
(* ranges are counted or only valid or not.  A parser belongs to the       *)
(* address of its device and is not deleted with it, so another device at  *)
(* that address goes on with what the last one left.                       *)
(***************************************************************************)
EXTENDS Integers, Sequences, SequencesExt, FiniteSets

CONSTANTS
    MaxItems,       \* bound on the length of a descriptor
    MaxDevs,        \* bound on the devices at the address
    GloStkSize,     \* hw_hid_ParserGlobal_StkSize
    UsageMx,        \* hw_hid_ParserLocal_UsageMx
    ColStkSz,       \* hw_hid_Parser_CollectStkSz
    MxFields,       \* hw_hid_Parser_MxFields
    MxBits,         \* (hw_hid_Parser_MxBufSz - 1) << 3
    MaxSz, MaxCnt,  \* the greatest report size and count that are accepted
    MxReports,      \* hw_hid_ReportEnum_MxReports
    ReportTps,      \* the types of reports, and of collections
    Collections

ASSUME HidAssumption ==
    /\ MaxSz \in Nat /\ MaxCnt \in Nat /\ MxReports \in Nat
    /\ GloStkSize \in Nat /\ UsageMx \in Nat /\ ColStkSz \in Nat

VARIABLES
    glo, gloStk,    \* hw_hid_ParserGlobal and its stack
    loc,            \* hw_hid_ParserLocal
    col, colCap, colStk,
    report,         \* the reports that are registered: <<type, id>> -> report
    parse, left, devs

parserVars == <<glo, gloStk, loc, col, colCap, colStk, report>>
hidVars == <<parserVars, parse, left, devs>>

NoGlo == [sz |-> 0, cnt |-> 0, id |-> 0, range |-> TRUE]
NoLoc == [usages |-> 0, min |-> 0, dep |-> 0, branch |-> 0]

\* hw_hid_getParser and _initParser.
HidInit ==
    /\ glo = NoGlo /\ gloStk = <<>>
    /\ loc = NoLoc
    /\ col = <<>> /\ colCap = 1 /\ colStk = <<>>
    /\ report = <<>>
    /\ parse = "items" /\ left = MaxItems /\ devs = 1

-----------------------------------------------------------------------------
(***************************************************************************)
(* The items that are accepted.                                            *)
(***************************************************************************)
Global(g) == glo' = g /\ UNCHANGED <<gloStk, loc, col, colCap, colStk, report>>

ReportSize(n) == n <= MaxSz /\ Global([glo EXCEPT !.sz = n])
ReportCount(n) == n <= MaxCnt /\ Global([glo EXCEPT !.cnt = n])
ReportId(n) == n # 0 /\ Global([glo EXCEPT !.id = n])
Logical(ok) == Global([glo EXCEPT !.range = ok])

Push ==
    /\ Len(gloStk) < GloStkSize
    /\ gloStk' = Append(gloStk, glo)
    /\ UNCHANGED <<glo, loc, col, colCap, colStk, report>>

Pop ==
    /\ gloStk # <<>>
    /\ glo' = Last(gloStk) /\ gloStk' = Front(gloStk)
    /\ UNCHANGED <<loc, col, colCap, colStk, report>>

Local(l) == loc' = l /\ UNCHANGED <<glo, gloStk, col, colCap, colStk, report>>

Delimiter(open) ==
    /\ loc.dep = IF open THEN 0 ELSE 1
    /\ Local(IF open THEN [loc EXCEPT !.dep = 1, !.branch = @ + 1] ELSE [loc EXCEPT !.dep = 0])

\* A usage, or the range of n from the minimum; other branches are ignored.
Usages(n) ==
    /\ loc.branch > 1 \/ loc.usages + n <= UsageMx
    /\ Local(IF loc.branch > 1 THEN loc ELSE [loc EXCEPT !.usages = @ + n])

\* _collection; the array doubles when it is full.
Collection(tp) ==
    /\ Len(colStk) < ColStkSz
    /\ colCap' = IF Len(col) = colCap THEN 2 * colCap ELSE colCap
    /\ col' = Append(col, tp)
    /\ colStk' = Append(colStk, Len(col) + 1)
    /\ loc' = NoLoc
    /\ UNCHANGED <<glo, gloStk, report>>

EndCollection ==
    /\ colStk # <<>>
    /\ colStk' = Front(colStk)
    /\ loc' = NoLoc
    /\ UNCHANGED <<glo, gloStk, col, colCap, report>>

\* _lookupCol: the innermost open collection of a type.
LookupCol(tp) ==
    LET open == {i \in DOMAIN colStk : col[colStk[i]] = tp} IN
    IF open = {} THEN 0 ELSE colStk[CHOOSE i \in open : \A j \in open : j <= i]

\* _registerReport.
RegisteredReport(tp) ==
    IF <<tp, glo.id>> \in DOMAIN report THEN report[<<tp, glo.id>>]
    ELSE [sz |-> 0, app |-> LookupCol("Application"), field |-> <<>>]

\* The size of a report behind the field.  Mutant: of one value of it.
GrownOnce(r) == r.sz + glo.sz
Grown(r) == r.sz + glo.sz * glo.cnt

\* _addField.  A field without usages is padding.
AddField(tp) ==
    LET r     == RegisteredReport(tp)
        field == [off |-> r.sz, sz |-> glo.sz, cnt |-> glo.cnt,
                  mxUsage |-> IF loc.usages > glo.cnt THEN loc.usages ELSE glo.cnt] IN
    /\ glo.id < MxReports /\ glo.range
    /\ Grown(r) <= MxBits
    /\ loc.usages = 0 \/ Len(r.field) < MxFields
    /\ report' = [k \in DOMAIN report \union {<<tp, glo.id>>} |->
                    IF k # <<tp, glo.id>> THEN report[k]
                    ELSE [r EXCEPT !.sz = Grown(r),
                                   !.field = IF loc.usages = 0 THEN @ ELSE Append(@, field)]]
    /\ loc' = NoLoc
    /\ UNCHANGED <<glo, gloStk, col, colCap, colStk>>

Item ==
    /\ parse = "items" /\ left > 0
    /\ left' = left - 1
    /\ \/ \E n \in 1 .. MaxSz : ReportSize(n)
       \/ \E n \in 1 .. MaxCnt : ReportCount(n)
       \/ \E n \in 1 .. MxReports : ReportId(n)
       \/ \E ok \in BOOLEAN : Logical(ok) \/ Delimiter(ok)
       \/ Push \/ Pop \/ EndCollection
       \/ \E n \in 1 .. UsageMx : Usages(n)
       \/ \E tp \in Collections : Collection(tp)
       \/ \E tp \in ReportTps : AddField(tp)
    /\ UNCHANGED <<parse, devs>>

\* An item that is not accepted, or an unknown tag: hw_usb_hid_config deletes
\* the parser (hw_hid_delParser) with what the item may have changed.
Refuse ==
    /\ parse = "items" /\ left > 0
    /\ parse' = "fail"
    /\ glo' = NoGlo /\ gloStk' = <<>> /\ loc' = NoLoc
    /\ col' = <<>> /\ colCap' = 1 /\ colStk' = <<>> /\ report' = <<>>
    /\ UNCHANGED <<left, devs>>

Finish == parse = "items" /\ parse' = "done" /\ UNCHANGED <<parserVars, left, devs>>

\* The device goes, the parser stays (hw_usb_hid_uninstall); the next one
\* with the same address finds it, unless a failure deleted it.
NextDev ==
    /\ parse \in {"done", "fail"} /\ devs < MaxDevs
    /\ parse' = "items" /\ left' = MaxItems /\ devs' = devs + 1
    /\ UNCHANGED parserVars

HidNext == Item \/ Refuse \/ Finish \/ NextDev

HidSpec == HidInit /\ [][HidNext]_hidVars

-----------------------------------------------------------------------------
HidTypeOK ==
    /\ glo.sz \in 0 .. MaxSz /\ glo.cnt \in 0 .. MaxCnt /\ glo.id \in 0 .. MxReports
    /\ Len(gloStk) <= GloStkSize /\ Len(colStk) <= ColStkSz /\ loc.usages <= UsageMx
    /\ DOMAIN report \subseteq ReportTps \X (0 .. MxReports)
    /\ parse \in {"items", "done", "fail"}

(***************************************************************************)
(* The fields of a report do not share a bit and end within its size,      *)
(* padding between them included, every value of a field has a usage, and  *)
(* the collections that are open are in the array (_addField, _collection).*)
(***************************************************************************)
Bits(f) == f.off .. f.off + f.sz * f.cnt - 1

FieldsApart ==
    /\ \A k \in DOMAIN report : LET r == report[k] IN
          \A i \in DOMAIN r.field :
              /\ Bits(r.field[i]) \subseteq 0 .. r.sz - 1
              /\ r.field[i].cnt <= r.field[i].mxUsage
              /\ \A j \in DOMAIN r.field \ {i} : Bits(r.field[i]) \cap Bits(r.field[j]) = {}
    /\ Len(col) <= colCap
    /\ \A i \in DOMAIN colStk : colStk[i] <= Len(col)
=============================================================================
