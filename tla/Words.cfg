SPECIFICATION MCSpec
INVARIANTS ScanExact CompareExact LookupsExact VisitsExact BuildsAgree
