----------------------------- MODULE UnitTests -----------------------------
(***************************************************************************)
(* The unit tests of both codecs, replayed side by side: the binary suite  *)
(* of protocol/binary.rs on BinaryUnitTests and the compact suite of       *)
(* protocol/compact.rs on CompactUnitTests.  The two harnesses share no    *)
(* state; each step is a step of one of them.  Beside the tests, in the    *)
(* build the tests run in (overflow checks on), CompactForged feeds the    *)
(* compact decoder forged streams.  A behaviour runs the suites or one    *)
(* forged stream (suite), so the state spaces add up.                      *)
(***************************************************************************)

CONSTANTS None, NoLimit

VARIABLES
  bWstrict, bOut, bWstate, bRstrict, bConfig, bDepth, bIn, bRpos, bRet, bRstate,
  bAllocated, bTest, bPc, bVerdict,                              \* binary suite
  cLastWrite, cWriteStack, cPendingWrite, cOut, cWstate, cConfig, cLastRead,
  cReadStack, cPendingRead, cDepth, cIn, cRpos, cRet, cRstate, cAllocated,
  cTest, cPc, cVerdict,                                          \* compact suite
  fLastRead, fReadStack, fPendingRead, fDepth, fRpos, fRet, fRstate, fAllocated,
  fConfig, fCtx, fMsgs, fLog, fForged, fPendingWrite,            \* forged input
  suite                                                          \* the branch

bVars == <<bWstrict, bOut, bWstate, bRstrict, bConfig, bDepth, bIn, bRpos, bRet, bRstate,
           bAllocated, bTest, bPc, bVerdict>>
cVars == <<cLastWrite, cWriteStack, cPendingWrite, cOut, cWstate, cConfig, cLastRead,
           cReadStack, cPendingRead, cDepth, cIn, cRpos, cRet, cRstate, cAllocated, cTest, cPc,
           cVerdict>>
fVars == <<fLastRead, fReadStack, fPendingRead, fDepth, fRpos, fRet, fRstate, fAllocated,
           fConfig, fCtx, fMsgs, fLog, fForged, fPendingWrite>>
vars == <<bVars, cVars, fVars, suite>>

Binary == INSTANCE BinaryUnitTests
  WITH wstrict <- bWstrict, out <- bOut, wstate <- bWstate, rstrict <- bRstrict,
       config <- bConfig, recursionDepth <- bDepth, in <- bIn, rpos <- bRpos, ret <- bRet,
       rstate <- bRstate, allocated <- bAllocated, test <- bTest, pc <- bPc,
       verdict <- bVerdict

Compact == INSTANCE CompactUnitTests
  WITH lastWriteFieldId <- cLastWrite, writeFieldIdStack <- cWriteStack,
       pendingWriteBool <- cPendingWrite, out <- cOut, wstate <- cWstate,
       config <- cConfig, lastReadFieldId <- cLastRead, readFieldIdStack <- cReadStack,
       pendingReadBool <- cPendingRead, recursionDepth <- cDepth, in <- cIn,
       rpos <- cRpos, ret <- cRet, rstate <- cRstate, allocated <- cAllocated,
       test <- cTest, pc <- cPc, verdict <- cVerdict

\* Forged bodies: a field of id i16::MAX (long form, I32 value 0), an I32
\* field one id on (value 0), a Bool field one id on, a struct field one id
\* on, a stop byte, a list field one id on holding two Bool elements,
\* 0xFF (delta 15, type nibble 15, which is no type), string fields one id
\* on holding U+00E9 and a lone lead byte, and a map field one id on of
\* declared size -1 (raw varint 0xFFFFFFFF).
ForgedFragments ==
  {<<5, 254, 255, 3, 0>>, <<21, 0>>, <<17>>, <<28>>, <<0>>, <<25, 33>>, <<255>>,
   <<24, 2, 195, 169>>, <<24, 1, 195>>, <<27, 255, 255, 255, 255, 15, 17>>}

Forged == INSTANCE CompactForged
  WITH OverflowChecks <- TRUE, MaxRecursionDepth <- 2, Fragments <- ForgedFragments,
       MaxFragments <- 4,
       lastReadFieldId <- fLastRead, readFieldIdStack <- fReadStack,
       pendingReadBool <- fPendingRead, recursionDepth <- fDepth, rpos <- fRpos,
       ret <- fRet, rstate <- fRstate, allocated <- fAllocated, rconfig <- fConfig,
       rctx <- fCtx, rmsgs <- fMsgs, rlog <- fLog, forged <- fForged,
       pendingWriteBool <- fPendingWrite

\* The harnesses that do not run stay in one initial state.
Init ==
  /\ suite \in {"tests", "forged"}
  /\ suite = "forged" => /\ bTest = (CHOOSE t \in Binary!Tests : TRUE)
                        /\ cTest = (CHOOSE t \in Compact!Tests : TRUE)
  /\ Binary!Init /\ Compact!Init
  /\ IF suite = "forged" THEN Forged!Init
     ELSE fForged = Forged!ForgedHeader /\ Forged!ServerInit

TestStep ==
  /\ suite = "tests"
  /\ \/ Binary!Next /\ UNCHANGED cVars
     \/ Compact!Next /\ UNCHANGED bVars
  /\ UNCHANGED <<fVars, suite>>

ForgedStep == suite = "forged" /\ Forged!Next /\ UNCHANGED <<bVars, cVars, suite>>

Next == TestStep \/ ForgedStep

Spec == Init /\ [][Next]_vars

(***************************************************************************)
(* The model passes the unit tests of binary.rs: for every test, each     *)
(* encoder call it makes succeeds and writes the bytes it expects, and     *)
(* each decoder call returns the value or the error kind it expects, with  *)
(* the recursion depth it expects, on the bytes the test feeds it.         *)
(***************************************************************************)
BinaryTestsPass == Binary!UnitTestsHold

(***************************************************************************)
(* The model passes the unit tests of compact.rs: every encoder call      *)
(* succeeds, or panics in a should_panic test, writing the bytes expected; *)
(* every decoder call returns the identifier or value written, or an       *)
(* error of a kind the test accepts (field-id deltas, the pending Bool     *)
(* field and value, raw and zig-zag varints, nibble headers, limits).      *)
(***************************************************************************)
CompactTestsPass == Compact!UnitTestsHold

\* On any forged stream the compact decoder aborts only on a field id
\* overflowing in read_field_begin (CompactForged).
PanicsOnlyOnFieldIdOverflow == Forged!PanicsOnlyOnFieldIdOverflow

\* On any forged stream, every value the compact decoder returns is one the
\* encoder accepts: UTF-8 strings, known message kinds, sizes not negative.
ReturnsOnlyEncodableValues == Forged!ReturnsOnlyEncodableValues

\* Reading a forged header whose delta overflows the field id aborts the
\* server in a debug build (CompactForged, compact.rs read_field_begin).
FieldIdOverflowAborts == Forged!FieldIdOverflowAborts

=============================================================================
