------------------------------ MODULE CostTable ------------------------------
(***************************************************************************)
(* The default cost model of the host (budget.rs): for each cost type, the *)
(* constant term and the linear term (scaled by 128) of its CPU and memory *)
(* cost.  A network replaces the numbers by its configuration; which types *)
(* take an input is fixed.                                                 *)
(***************************************************************************)
EXTENDS Integers, TLC

(* CPU instructions: the host, the VM and the older cryptography. *)
HostCpu ==
    [WasmInsnExec |-> <<4, 0>>, MemAlloc |-> <<434, 16>>, MemCpy |-> <<42, 16>>,
     MemCmp |-> <<44, 16>>, DispatchHostFunction |-> <<310, 0>>,
     VisitObject |-> <<61, 0>>, ValSer |-> <<230, 29>>,
     ValDeser |-> <<59052, 4001>>, ComputeSha256Hash |-> <<3738, 7012>>,
     ComputeEd25519PubKey |-> <<40253, 0>>,
     VerifyEd25519Sig |-> <<377524, 4068>>,
     VmInstantiation |-> <<451626, 45405>>,
     VmCachedInstantiation |-> <<41142, 634>>, InvokeVmFunction |-> <<1948, 0>>,
     ComputeKeccak256Hash |-> <<3766, 5969>>,
     DecodeEcdsaCurve256Sig |-> <<710, 0>>,
     RecoverEcdsaSecp256k1Key |-> <<2315295, 0>>, Int256AddSub |-> <<4404, 0>>,
     Int256Mul |-> <<4947, 0>>, Int256Div |-> <<4911, 0>>,
     Int256Pow |-> <<4286, 0>>, Int256Shift |-> <<913, 0>>,
     ChaCha20DrawBytes |-> <<1058, 501>>]

(* CPU instructions: parsing and instantiating by refined inputs. *)
WasmCpu ==
    [ParseWasmInstructions |-> <<73077, 25410>>,
     ParseWasmFunctions |-> <<0, 540752>>, ParseWasmGlobals |-> <<0, 176363>>,
     ParseWasmTableEntries |-> <<0, 29989>>, ParseWasmTypes |-> <<0, 1061449>>,
     ParseWasmDataSegments |-> <<0, 237336>>,
     ParseWasmElemSegments |-> <<0, 328476>>,
     ParseWasmImports |-> <<0, 701845>>, ParseWasmExports |-> <<0, 429383>>,
     ParseWasmDataSegmentBytes |-> <<0, 28>>,
     InstantiateWasmInstructions |-> <<43030, 0>>,
     InstantiateWasmFunctions |-> <<0, 7556>>,
     InstantiateWasmGlobals |-> <<0, 10711>>,
     InstantiateWasmTableEntries |-> <<0, 3300>>,
     InstantiateWasmTypes |-> <<0, 0>>,
     InstantiateWasmDataSegments |-> <<0, 23038>>,
     InstantiateWasmElemSegments |-> <<0, 42488>>,
     InstantiateWasmImports |-> <<0, 828974>>,
     InstantiateWasmExports |-> <<0, 297100>>,
     InstantiateWasmDataSegmentBytes |-> <<0, 14>>]

(* CPU instructions: curve operations. *)
CurveCpu ==
    [Sec1DecodePointUncompressed |-> <<1882, 0>>,
     VerifyEcdsaSecp256r1Sig |-> <<3000906, 0>>,
     Bls12381EncodeFp |-> <<661, 0>>, Bls12381DecodeFp |-> <<985, 0>>,
     Bls12381G1CheckPointOnCurve |-> <<1934, 0>>,
     Bls12381G1CheckPointInSubgroup |-> <<730510, 0>>,
     Bls12381G2CheckPointOnCurve |-> <<5921, 0>>,
     Bls12381G2CheckPointInSubgroup |-> <<1057822, 0>>,
     Bls12381G1ProjectiveToAffine |-> <<92642, 0>>,
     Bls12381G2ProjectiveToAffine |-> <<100742, 0>>,
     Bls12381G1Add |-> <<7689, 0>>, Bls12381G1Mul |-> <<2458985, 0>>,
     Bls12381G1Msm |-> <<2426722, 96397671>>,
     Bls12381MapFpToG1 |-> <<1541554, 0>>,
     Bls12381HashToG1 |-> <<3211191, 6713>>, Bls12381G2Add |-> <<25207, 0>>,
     Bls12381G2Mul |-> <<7873219, 0>>, Bls12381G2Msm |-> <<8035968, 309667335>>,
     Bls12381MapFp2ToG2 |-> <<2420202, 0>>,
     Bls12381HashToG2 |-> <<7050564, 6797>>,
     Bls12381Pairing |-> <<10558948, 632860943>>,
     Bls12381FrFromU256 |-> <<1994, 0>>, Bls12381FrToU256 |-> <<1155, 0>>,
     Bls12381FrAddSub |-> <<74, 0>>, Bls12381FrMul |-> <<332, 0>>,
     Bls12381FrPow |-> <<691, 74558>>, Bls12381FrInv |-> <<35421, 0>>]

(* memory bytes: the host, the VM and the older cryptography. *)
HostMem ==
    [WasmInsnExec |-> <<0, 0>>, MemAlloc |-> <<16, 128>>, MemCpy |-> <<0, 0>>,
     MemCmp |-> <<0, 0>>, DispatchHostFunction |-> <<0, 0>>,
     VisitObject |-> <<0, 0>>, ValSer |-> <<242, 384>>, ValDeser |-> <<0, 384>>,
     ComputeSha256Hash |-> <<0, 0>>, ComputeEd25519PubKey |-> <<0, 0>>,
     VerifyEd25519Sig |-> <<0, 0>>, VmInstantiation |-> <<130065, 5064>>,
     VmCachedInstantiation |-> <<69472, 1217>>, InvokeVmFunction |-> <<14, 0>>,
     ComputeKeccak256Hash |-> <<0, 0>>, DecodeEcdsaCurve256Sig |-> <<0, 0>>,
     RecoverEcdsaSecp256k1Key |-> <<181, 0>>, Int256AddSub |-> <<99, 0>>,
     Int256Mul |-> <<99, 0>>, Int256Div |-> <<99, 0>>, Int256Pow |-> <<99, 0>>,
     Int256Shift |-> <<99, 0>>, ChaCha20DrawBytes |-> <<0, 0>>]

(* memory bytes: parsing and instantiating by refined inputs. *)
WasmMem ==
    [ParseWasmInstructions |-> <<17564, 6457>>,
     ParseWasmFunctions |-> <<0, 47464>>, ParseWasmGlobals |-> <<0, 13420>>,
     ParseWasmTableEntries |-> <<0, 6285>>, ParseWasmTypes |-> <<0, 64670>>,
     ParseWasmDataSegments |-> <<0, 29074>>,
     ParseWasmElemSegments |-> <<0, 48095>>, ParseWasmImports |-> <<0, 103229>>,
     ParseWasmExports |-> <<0, 36394>>,
     ParseWasmDataSegmentBytes |-> <<0, 257>>,
     InstantiateWasmInstructions |-> <<70704, 0>>,
     InstantiateWasmFunctions |-> <<0, 14613>>,
     InstantiateWasmGlobals |-> <<0, 6833>>,
     InstantiateWasmTableEntries |-> <<0, 1025>>,
     InstantiateWasmTypes |-> <<0, 0>>,
     InstantiateWasmDataSegments |-> <<0, 129632>>,
     InstantiateWasmElemSegments |-> <<0, 13665>>,
     InstantiateWasmImports |-> <<0, 97637>>,
     InstantiateWasmExports |-> <<0, 9176>>,
     InstantiateWasmDataSegmentBytes |-> <<0, 126>>]

(* memory bytes: curve operations. *)
CurveMem ==
    [Sec1DecodePointUncompressed |-> <<0, 0>>,
     VerifyEcdsaSecp256r1Sig |-> <<0, 0>>, Bls12381EncodeFp |-> <<0, 0>>,
     Bls12381DecodeFp |-> <<0, 0>>, Bls12381G1CheckPointOnCurve |-> <<0, 0>>,
     Bls12381G1CheckPointInSubgroup |-> <<0, 0>>,
     Bls12381G2CheckPointOnCurve |-> <<0, 0>>,
     Bls12381G2CheckPointInSubgroup |-> <<0, 0>>,
     Bls12381G1ProjectiveToAffine |-> <<0, 0>>,
     Bls12381G2ProjectiveToAffine |-> <<0, 0>>, Bls12381G1Add |-> <<0, 0>>,
     Bls12381G1Mul |-> <<0, 0>>, Bls12381G1Msm |-> <<109494, 354667>>,
     Bls12381MapFpToG1 |-> <<5552, 0>>, Bls12381HashToG1 |-> <<9424, 0>>,
     Bls12381G2Add |-> <<0, 0>>, Bls12381G2Mul |-> <<0, 0>>,
     Bls12381G2Msm |-> <<219654, 354667>>, Bls12381MapFp2ToG2 |-> <<3344, 0>>,
     Bls12381HashToG2 |-> <<6816, 0>>, Bls12381Pairing |-> <<2204, 9340474>>,
     Bls12381FrFromU256 |-> <<0, 0>>, Bls12381FrToU256 |-> <<248, 0>>,
     Bls12381FrAddSub |-> <<0, 0>>, Bls12381FrMul |-> <<0, 0>>,
     Bls12381FrPow |-> <<0, 128>>, Bls12381FrInv |-> <<0, 0>>]

DefaultCpu == HostCpu @@ WasmCpu @@ CurveCpu
DefaultMem == HostMem @@ WasmMem @@ CurveMem

ContractCostType == DOMAIN HostCpu \union DOMAIN WasmCpu \union DOMAIN CurveCpu

(* BudgetTracker::default: the types whose tracker has no input. *)
ConstantTypes ==
    {"WasmInsnExec", "DispatchHostFunction", "VisitObject",
     "ComputeEd25519PubKey", "InvokeVmFunction", "DecodeEcdsaCurve256Sig",
     "RecoverEcdsaSecp256k1Key", "Int256AddSub", "Int256Mul", "Int256Div",
     "Int256Pow", "Int256Shift", "InstantiateWasmInstructions",
     "InstantiateWasmTypes", "Sec1DecodePointUncompressed",
     "VerifyEcdsaSecp256r1Sig", "Bls12381EncodeFp", "Bls12381DecodeFp",
     "Bls12381G1CheckPointOnCurve", "Bls12381G1CheckPointInSubgroup",
     "Bls12381G2CheckPointOnCurve", "Bls12381G2CheckPointInSubgroup",
     "Bls12381G1ProjectiveToAffine", "Bls12381G2ProjectiveToAffine",
     "Bls12381G1Add", "Bls12381G1Mul", "Bls12381MapFpToG1", "Bls12381G2Add",
     "Bls12381G2Mul", "Bls12381MapFp2ToG2", "Bls12381FrFromU256",
     "Bls12381FrToU256", "Bls12381FrAddSub", "Bls12381FrMul", "Bls12381FrInv"}

TakesInput(ty) == ty \notin ConstantTypes

(* A type charged without an input has no linear term to lose.             *)
ASSUME ConstantTypesAreConstant ==
    /\ ConstantTypes \subseteq ContractCostType
    /\ DOMAIN DefaultCpu = ContractCostType /\ DOMAIN DefaultMem = ContractCostType
    /\ \A ty \in ConstantTypes : DefaultCpu[ty][2] = 0 /\ DefaultMem[ty][2] = 0
=============================================================================
