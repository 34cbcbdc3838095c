--------------------------- MODULE BuilderPrograms ---------------------------
(***************************************************************************)
(* The builders: vector.cpp, cog.cpp, 3d.cpp, pointcloud.cpp, gsplat.cpp and *)
(* the runners of the programs they call, as sequences of Steps.  Each        *)
(* definition is named after its function; handles and files have the names  *)
(* of the variables that hold them.                                          *)
(***************************************************************************)
EXTENDS Steps, TLC

\* vector.cpp ----------------------------------------------------------------
ComputeStats ==
  Take("hWgs84") \o MayOr({"hWgs84"}) \o Optional(Take("hT") \o Close({"hT"})) \o Close({"hWgs84"})

\* The files that a source needs beside it.
CheckDependencies == May \o May

\* As it must not be: what the writer says is not looked at.
ConvertToGpkgUnchecked(hSrcDS, output) ==
  Open("opts") \o Begin(output) \o Take("hOut") \o Close({"opts"})
  \o Settle(output) \o Close({"hOut"})

ConvertToGpkg(hSrcDS, output) ==
  Open("opts") \o Begin(output) \o Take("hOut") \o Close({"opts"})
  \o Finish(output, {"hOut"}) \o Close({"hOut"})

\* Layers that the writer of tiles would refuse are copied under other names.
BuildSanitizedGpkg ==
  May \o Open("hDst") \o Take("sanitizedPath") \o Close({"hDst"})

ConvertToMvt(outputDir) ==
  May
  \o Optional(BuildSanitizedGpkg \o OpenOr("hSanitizedDS", {"sanitizedPath"}))
  \o OpenOr("opts", {"hSanitizedDS", "sanitizedPath"})
  \o Begin(outputDir) \o Take("hOut") \o Close({"opts"})
  \o Close({"hSanitizedDS", "sanitizedPath"})
  \o Finish(outputDir, {"hOut"}) \o Close({"hOut"})

\* Both outputs are made in a folder of their own; what was there is moved away,
\* they are moved in, and what was there is brought back if that fails.
PublishBoth ==
  IfThere("vec", Aside("vec", "backup.vec")) \o IfThere("mvt", Aside("mvt", "backup.mvt"))
  \o Move("stage.vec", "vec") \o Move("stage.mvt", "mvt")

\* As it must not be: what was there is gone for good.
RollBackNothing ==
  Drop("vec") \o Drop("mvt")
  \o Drop("stage.vec") \o Drop("stage.mvt") \o Drop("backup.vec") \o Drop("backup.mvt")

RollBack ==
  Drop("vec") \o Drop("mvt")
  \o IfThere("backup.vec", Move("backup.vec", "vec"))
  \o IfThere("backup.mvt", Move("backup.mvt", "mvt"))
  \o Drop("stage.vec") \o Drop("stage.mvt") \o Drop("backup.vec") \o Drop("backup.mvt")

BuildVector(overwrite) ==
  May \o CheckDependencies \o Open("hSrcDS")
  \o Rethrows(
       ComputeStats \o May
       \o (IF overwrite
           THEN <<>>
           ELSE IfThere("vec", IfThere("mvt", ReturnOr({"hSrcDS"}))))
       \o May \o Begin("stage.vec") \o Drop("stage.mvt")
       \o Rethrows(ConvertToMvt("stage.mvt") \o ConvertToGpkg("hSrcDS", "stage.vec"),
                   Drop("stage.vec") \o Drop("stage.mvt"))
       \o May
       \o Rethrows(PublishBoth, RollBack)
       \o Drop("stage.vec") \o Drop("stage.mvt") \o Drop("backup.vec") \o Drop("backup.mvt"),
       Close({"hSrcDS"}))
  \o Close({"hSrcDS"})

\* cog.cpp -------------------------------------------------------------------
\* The statistics that it writes beside the image are left out: no code reads them.
GenerateCogStats == Optional(Take("hDs") \o Close({"hDs"}))

\* What is optimised already is copied; any failure of that is only logged.
CopyCog(outputCog) ==
  Try(Guarded({"src", "dst"},
        Take("src") \o Take("dst") \o Begin(outputCog) \o May \o Finish(outputCog, {})
        \o GenerateCogStats \o Return),
      <<>>)

\* The source stays open when there are no options.
WarpToCog(outputCog) ==
  Open("hSrcDataset") \o MayOr({"hSrcDataset"}) \o MayOr({"hSrcDataset"})
  \o Guarded({"gdalTmpGuard"},
       Take("gdalTmpGuard") \o Open("psOptions")
       \o Raise \o Begin(outputCog) \o Close({"psOptions"}) \o Restore
       \o Finish(outputCog, {"hSrcDataset"})
       \o Take("hNewDataset") \o Close({"hNewDataset", "hSrcDataset"})
       \o GenerateCogStats)

BuildCog(outputCog) == Optional(CopyCog(outputCog)) \o WarpToCog(outputCog)

\* mask.cpp ------------------------------------------------------------------
\* The domain of the function: its bands, their kinds and their number.
MaskChecks == MayOr({"hSrcDataset"}) \o MayOr({"hSrcDataset"}) \o MayOr({"hSrcDataset"})

MaskBorders(output) ==
  IfThere(output, Drop(output)) \o May \o Open("hSrcDataset") \o MaskChecks
  \o Take("prevInternalMask") \o OpenOr("psOptions", {"prevInternalMask", "hSrcDataset"})
  \o Begin(output) \o Take("hOutDataset") \o Close({"psOptions"}) \o Close({"prevInternalMask"})
  \o Finish(output, {"hSrcDataset", "hOutDataset"})
  \o Close({"hOutDataset", "hSrcDataset"})

\* The programs that builders run ----------------------------------------------
\* A runner that answers false is one that throws here: its callers ask at once.
\* The program is found, its input is there, its output is read through a pipe to
\* the end, and its exit is waited for.
Spawn(output) ==
  May \o May \o Open("pipe.read") \o Take("pipe.write") \o Optional(Begin(output))
  \o Close({"pipe.write"}) \o MayOr({"pipe.read"}) \o Close({"pipe.read"}) \o May

RunObj2Tiles(output) == May \o Spawn(output) \o Finish(output, {}) \o IfMissing(output, Fail)

RunUntwine(output) ==
  Shed(output) \o Spawn(output) \o Finish(output, {}) \o IfMissing(output, Fail)

\* build-lod writes beside its input; what it made is moved to where it belongs.
RunBuildLod(produced, output) ==
  Shed(produced) \o Shed(output) \o Spawn(produced)
  \o Rethrows(Finish(produced, {}), Shed(produced)) \o IfMissing(produced, Fail)
  \o Shed(output)
  \o Attempt(Move(produced, output),
             <<>>,
             Attempt(Written(output, {}), Shed(produced), Shed(produced) \o Fail))

\* 3d.cpp --------------------------------------------------------------------
ValidateGltfDependencies == May \o May
ValidateDependencies == May \o May

\* A folder of its own that an object removes.
ConvertGltfToObj == May \o Take("tempGuard") \o May

\* As it must not be: nobody asks whether it was made.
PerformNexusBuildUnchecked(output) == Begin(output) \o Settle(output)

PerformNexusBuild(output) == Written(output, {})

BuildNexus(output) ==
  Guarded({"tempGuard"},
    Optional(ValidateGltfDependencies \o ConvertGltfToObj)
    \o IfThere(output, Either(Drop(output), Fail))
    \o ValidateDependencies
    \o PerformNexusBuild(output))

BuildModel3DTiles(outDir, tempOut) ==
  Guarded({"tempGuard"},
    May \o May
    \o Optional(ValidateGltfDependencies \o ConvertGltfToObj)
    \o ValidateDependencies
    \o IfThere(outDir, Either(Drop(outDir), Fail))
    \o May \o Drop(tempOut) \o May
    \o Rethrows(RunObj2Tiles(tempOut), Drop(tempOut))
    \o IfThere(outDir, Drop(outDir))
    \o Move(tempOut, outDir))

\* pointcloud.cpp ------------------------------------------------------------
BuildCopcPdal(outPath, tmpDir) ==
  Rethrows(May \o Written(outPath, {}) \o Drop(tmpDir), Drop(tmpDir))
  \o IfMissing(outPath, Fail)

\* The folder for temporary files stays where the sources are refused.
BuildCopc(outPath, tmpDir) ==
  May \o Begin(tmpDir) \o May \o May \o Optional(May) \o May
  \o Drop(outPath) \o May
  \o Optional(Attempt(RunUntwine(outPath), IfThere(outPath, Drop(tmpDir) \o Return), <<>>)
              \o Drop(outPath))
  \o BuildCopcPdal(outPath, tmpDir)

\* gsplat.cpp ----------------------------------------------------------------
WriteGeoref == May \o Written("georef.json", {})

BuildGsplat ==
  May \o May \o RunBuildLod("lod.rad", "model.rad")
  \o Optional(Begin("bounds.json") \o Settle("bounds.json"))
  \o Optional(WriteGeoref)

ConvertToSpz(output) == May \o May \o May \o Written(output, {})

\* The functions that others call, what they make, and what they use meanwhile.
BuilderCode ==
  [buildVector |-> BuildVector(FALSE),
   overwriteVector |-> BuildVector(TRUE),
   buildCog |-> BuildCog("cog.tif"),
   maskBorders |-> MaskBorders("masked.tif"),
   buildNexus |-> BuildNexus("model.nxz"),
   buildModel3DTiles |-> BuildModel3DTiles("tiles", "tiles.tmp"),
   buildCopc |-> BuildCopc("cloud.copc.laz", "tmp"),
   buildGsplat |-> BuildGsplat,
   convertToSpz |-> ConvertToSpz("model.spz")]

BuilderOutputs ==
  [buildVector |-> {"vec", "mvt"},
   overwriteVector |-> {"vec", "mvt"},
   buildCog |-> {"cog.tif"},
   maskBorders |-> {"masked.tif"},
   buildNexus |-> {"model.nxz"},
   buildModel3DTiles |-> {"tiles"},
   buildCopc |-> {"cloud.copc.laz"},
   buildGsplat |-> {"model.rad"},
   convertToSpz |-> {"model.spz"}]

BuilderTemps ==
  {"stage.vec", "stage.mvt", "backup.vec", "backup.mvt", "tiles.tmp", "tmp", "lod.rad"}
==============================================================================
