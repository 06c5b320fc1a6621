--------------------------- MODULE ServicesProofs ---------------------------
(***************************************************************************)
(* The components around the channels, put together as MCServices does: in *)
(* every behaviour each of them behaves as it does by itself, so that what *)
(* DeliveryProofs and ConfigFileProofs show of one holds of all together.  *)
(***************************************************************************)
EXTENDS MCServices, DeliveryProofs, ConfigFileProofs

ServicesSafety == ServicesInit /\ [][ServicesNext]_servicesVars

\* A step of all is a step of each component, or leaves it alone.
LEMMA EachTurn ==
  ASSUME [ServicesNext]_servicesVars
  PROVE  /\ [BufNext]_bufVars /\ [PipeNext]_pipeVars /\ [ScanNext]_scanVars /\ [FileNext]_fileVars /\ [IceNext]_iceVars
         /\ [TagNext]_tagVars /\ [UpNext]_upVars /\ [RemoteNext]_remoteVars /\ [ConfNext]_confVars
<1>1. CASE ServicesNext
  BY <1>1, Zenon DEF ServicesNext, Turn
<1>2. CASE UNCHANGED servicesVars
  BY <1>2, Zenon DEF servicesVars
<1> QED
  BY <1>1, <1>2

LEMMA EachByItself ==
  ServicesSafety => /\ BufSpec /\ PipeSafety /\ ScanSafety /\ FileSafety /\ StreamSafety
                    /\ TagSafety /\ UpSafety /\ RemoteSafety /\ ConfSpec
<1>1. ServicesInit => BufInit /\ PipeInit /\ ScanInit /\ FileInit /\ IceInit /\ TagInit /\ UpInit /\ RemoteInit /\ ConfInit
  BY DEF ServicesInit
<1> QED
  BY <1>1, EachTurn, PTL
     DEF ServicesSafety, BufSpec, PipeSafety, ScanSafety, FileSafety, StreamSafety, TagSafety, UpSafety, RemoteSafety, ConfSpec

LEMMA FocusStays == ServicesSafety => [](focus \in Components)
<1>1. ServicesInit => focus \in Components
  BY DEF ServicesInit
<1>2. focus \in Components /\ [ServicesNext]_servicesVars => (focus \in Components)'
  BY DEF ServicesNext, servicesVars
<1> QED
  BY <1>1, <1>2, PTL DEF ServicesSafety

\* Every variable of every component has its type, for all values of all their constants and whatever
\* the components do.
THEOREM ServicesTypeCorrect == ServicesSpec => []ServicesTypeOK
<1>1. ServicesSpec => ServicesSafety
  BY PTL DEF ServicesSpec, ServicesSafety
<1>2. ServicesSafety => []BufTypeOK /\ []FileTypeOK /\ []ConfTypeOK
  BY EachByItself, BufferTypeCorrect, FileTypeCorrect, ConfTypeCorrect, PTL
<1>3. ServicesSafety => []PipeTypeOK /\ []ScanTypeOK /\ []IceTypeOK /\ []TagTypeOK /\ []UpTypeOK /\ []RemoteTypeOK
  <2>1. ServicesSafety => []PInv /\ []ScanInv /\ []StreamInv /\ []TagInv /\ []UInv /\ []RInv
    BY EachByItself, PipeInvariant, ScanInvariant, StreamInvariant, TagInvariant, UploadsInvariant, RemoteInvariant, PTL
  <2> QED
    BY <2>1, PipeTyped, ScanTyped, StreamTyped, TagTyped, UpTyped, RemoteTyped, PTL
<1>4. /\ focus \in Components
      /\ BufTypeOK /\ PipeTypeOK /\ ScanTypeOK /\ FileTypeOK /\ IceTypeOK
      /\ TagTypeOK /\ UpTypeOK /\ RemoteTypeOK /\ ConfTypeOK
      => ServicesTypeOK
  BY DEF ServicesTypeOK
<1> QED
  BY <1>1, <1>2, <1>3, <1>4, FocusStays, PTL

\* What the components promise by themselves they keep together: the demodulator's window is intact, no
\* file of a transmission is lost or mixed up, no batch, upload or packet vanishes, no connection is used
\* after it was freed or lost but where two openings overlap, and a reload is as good as a restart.
THEOREM ServicesStaySound ==
  ServicesSpec => /\ []WindowIntact /\ []FilesSound /\ ConfigSound
                  /\ []BatchesAccounted /\ []JobsAccounted /\ []CountersTell /\ []StreamHandleSafe
<1>1. ServicesSpec => ServicesSafety
  BY PTL DEF ServicesSpec, ServicesSafety
<1>2. ServicesSafety => []WindowIntact /\ []FilesSound /\ ConfigSound
  BY EachByItself, WindowHolds, FilesStaySound, ConfigStaysSound, PTL
<1>3. ServicesSafety => []BatchesAccounted /\ []JobsAccounted /\ []CountersTell /\ []StreamHandleSafe
  <2>1. ServicesSafety => []PInv /\ []UInv /\ []RInv /\ []StreamInv
    BY EachByItself, PipeInvariant, UploadsInvariant, RemoteInvariant, StreamInvariant, PTL
  <2>2. (PInv => BatchesAccounted) /\ (UInv => JobsAccounted) /\ (RInv => CountersTell)
    BY MineAreOf DEF PInv, UInv, RInv, SentInv, SeqInv, CountersTell
  <2> QED
    BY <2>1, <2>2, StreamSafe, PTL
<1> QED
  BY <1>1, <1>2, <1>3, PTL
=============================================================================
