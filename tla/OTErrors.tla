------------------------------ MODULE OTErrors ------------------------------
(***************************************************************************)
(* What ThrowOSErr() makes of the answer of an Open Transport call           *)
(* (__throw_os_err, internal.cpp): a switch with a case for every error and  *)
(* none for what it does not know, which passes as if nothing had happened.  *)
(***************************************************************************)

GeneralErrors ==
  {"kOTOutOfMemoryErr", "kOTNotFoundErr", "kOTDuplicateFoundErr"}

XTIErrors ==
  {"kOTBadAddressErr", "kOTBadOptionErr", "kOTAccessErr", "kOTBadReferenceErr",
   "kOTNoAddressErr", "kOTOutStateErr", "kOTBadSequenceErr", "kOTSysErrorErr",
   "kOTLookErr", "kOTBadDataErr", "kOTBufferOverflowErr", "kOTFlowErr",
   "kOTNoDataErr", "kOTNoDisconnectErr", "kOTNoUDErrErr", "kOTBadFlagErr",
   "kOTNoReleaseErr", "kOTNotSupportedErr", "kOTStateChangeErr",
   "kOTNoStructureTypeErr", "kOTBadNameErr", "kOTBadQLenErr",
   "kOTAddressBusyErr", "kOTIndOutErr", "kOTProviderMismatchErr",
   "kOTResQLenErr", "kOTResAddressErr", "kOTQFullErr", "kOTProtocolErr",
   "kOTBadSyncErr", "kOTCanceledErr"}

SystemErrors ==
  {"kEPERMErr", "kENORSRCErr", "kEINTRErr", "kEIOErr", "kENXIOErr", "kEBADFErr",
   "kEAGAINErr", "kEACCESErr", "kEFAULTErr", "kEBUSYErr", "kENODEVErr",
   "kEINVALErr", "kENOTTYErr", "kEPIPEErr", "kERANGEErr"}

SocketErrors ==
  {"kEWOULDBLOCKErr", "kEALREADYErr", "kENOTSOCKErr", "kEDESTADDRREQErr",
   "kEMSGSIZEErr", "kEPROTOTYPEErr", "kENOPROTOOPTErr", "kEPROTONOSUPPORTErr",
   "kESOCKTNOSUPPORTErr", "kEOPNOTSUPPErr", "kEADDRINUSEErr",
   "kEADDRNOTAVAILErr", "kENETDOWNErr", "kENETUNREACHErr", "kENETRESETErr",
   "kECONNABORTEDErr", "kECONNRESETErr", "kENOBUFSErr", "kEISCONNErr",
   "kENOTCONNErr", "kESHUTDOWNErr", "kETOOMANYREFSErr", "kETIMEDOUTErr",
   "kECONNREFUSEDErr", "kEHOSTDOWNErr", "kEHOSTUNREACHErr"}

StreamErrors ==
  {"kEPROTOErr", "kETIMEErr", "kENOSRErr", "kEBADMSGErr", "kECANCELErr",
   "kENOSTRErr", "kENODATAErr", "kEINPROGRESSErr", "kESRCHErr", "kENOMSGErr"}

PortErrors ==
  {"kOTClientNotInittedErr", "kOTPortHasDiedErr", "kOTPortWasEjectedErr",
   "kOTBadConfigurationErr", "kOTConfigurationChangedErr",
   "kOTUserRequestedErr", "kOTPortLostConnection"}

Known ==
  GeneralErrors \cup XTIErrors \cup SystemErrors \cup SocketErrors
    \cup StreamErrors \cup PortErrors

\* Does ThrowOSErr() call mac_error_throw()?  [mutant: no case for the errors of
\* a port, which only a machine whose port goes away gives]
ThrowsButPorts(err) == err \in Known \ PortErrors
Throws(err) == err \in Known
=============================================================================
