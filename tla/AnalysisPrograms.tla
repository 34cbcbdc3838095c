--------------------------- MODULE AnalysisPrograms ---------------------------
(***************************************************************************)
(* What is computed from rasters and vectors: alignment (align.cpp), contours *)
(* (contour.cpp), profiles (raster_profile.cpp), volumes (volume.cpp),        *)
(* stockpiles (stockpile.cpp), features (vector_query.cpp), exports (ddb.cpp), *)
(* archives (mzip.cpp) and elevations (dsmservice.cpp), as sequences of Steps. *)
(***************************************************************************)
EXTENDS BuilderPrograms

\* As it must not be: the file is removed only when all went well.
RemovingAtEnd(f, body) == body \o Shed(f)

\* A file that an object removes however its block is left.
Removing(f, body) == Rethrows(body, Shed(f)) \o Shed(f)

\* align.cpp -----------------------------------------------------------------
ApplyWarp(tmp) ==
  Open("hSrc") \o MayOr({"hSrc"}) \o OpenOr("hVrt", {"hSrc"}) \o Take("wOpts")
  \o Optional(Begin(tmp)) \o Close({"wOpts"}) \o Close({"hVrt", "hSrc"})
  \o IfMissing(tmp, Fail) \o Finish(tmp, {})

\* Both files are closed whatever is found of them; nothing found is no offset.
ComputeZOffset == Either(Take("hA") \o Close({"hA"}), Take("hA") \o Take("hR") \o Close({"hA", "hR"}))

\* The offset is written into the file that was just warped, or a part of it.
AddZOffset(tmp) == Optional(Take("hDs") \o Begin(tmp) \o Settle(tmp) \o Close({"hDs"}))

\* What cannot be aligned is told, not thrown; a source that cannot be opened
\* leaves the reference open.
ValidateAlignRaster ==
  Either(Optional(Take("hR")) \o Fail,
         Either(Take("hS") \o Close({"hS"}) \o Fail,
                Take("hS") \o Take("hR") \o Close({"hS", "hR"}) \o May))

\* Where both rasters are read into memory nothing closes them if that fails.
ReadToCommonGrid == May
ReadGrids ==
  Optional(Take("hS")) \o OpenOr("hR", {"hS"}) \o Take("hS") \o MayOr({"hS", "hR"})
  \o ReadToCommonGrid \o ReadToCommonGrid \o Close({"hS", "hR"})

\* The output is made as every image of the web is (cog.cpp), with what that leaves
\* open and what it does to GDAL's cache.  An offset that could not be computed, or
\* not be written whole, is told to nobody: the output is made of what there is.
WarpAndPublish(warped, dest) ==
  Removing(warped,
    ApplyWarp(warped) \o Optional(ComputeZOffset \o AddZOffset(warped))
    \o Call(BuildCog(dest)) \o Optional(Spoil(dest)))

\* The reference, in the coordinates of the source.
Reproject(reprojected) ==
  Open("hR") \o Take("wOpts") \o Optional(Begin(reprojected)) \o Close({"wOpts", "hR"})
  \o IfMissing(reprojected, Fail) \o Finish(reprojected, {})

\* By a shift.
ByShift(warped, dest) == ReadGrids \o WarpAndPublish(warped, dest)

\* By patches that match or by a shift, which differ in their numbers; what cannot be
\* matched by patches is aligned once more, by a shift, and that run uses the same
\* names for its temporary files.
Aligned(warped, dest, again) == ReadGrids \o Either(WarpAndPublish(warped, dest), again)

AlignRaster(reprojected, warped, dest) ==
  LET Here == ValidateAlignRaster \o ByShift(warped, dest)
      Reprojected ==
        ValidateAlignRaster
        \o Removing(reprojected, Reproject(reprojected) \o ByShift(warped, dest))
  IN ValidateAlignRaster
     \o Either(Aligned(warped, dest, Here),
               Removing(reprojected,
                 Reproject(reprojected) \o Aligned(warped, dest, Reprojected)))

\* contour.cpp, raster_profile.cpp, volume.cpp, stockpile.cpp -----------------------
\* Every handle of these has an owner.
RasterToWgs == Optional(Open("transform") \o May)

ContourSource ==
  May \o May \o May \o May \o May \o Optional(Take("rasterSrs"))

GenerateContours ==
  May \o May \o May \o Open("dsGuard")
  \o Guarded({"dsGuard", "rasterSrs", "memGuard", "wgs84", "transform", "featGuard"},
       ContourSource
       \o May \o Open("memGuard") \o May \o May
       \o Take("wgs84") \o RasterToWgs
       \o Optional(Take("featGuard") \o Close({"featGuard"})))

\* The line, in the coordinates of the raster; then its samples.
ProfileVertices ==
  May \o May \o Open("dsGuard") \o May \o May \o May
  \o Take("wgs84") \o Optional(Take("rasterSrs")) \o RasterToWgs

RasterProfile ==
  Open("geom")
  \o Guarded({"geom", "dsGuard", "wgs84", "rasterSrs", "transform"}, ProfileVertices \o May)

\* The part of the raster that the polygon is in; what is in the polygon; the
\* plane under it.
VolumeWindow ==
  May \o Open("dsGuard") \o May \o May \o Take("wgs84") \o Optional(Take("rasterSrs"))
  \o RasterToWgs \o Close({"transform"}) \o May \o May \o May
PolygonMask == May \o Open("maskGuard") \o May \o May
CutAndFill == May \o May

CalculateVolume ==
  Open("geom")
  \o Guarded({"geom", "dsGuard", "wgs84", "rasterSrs", "transform", "maskGuard"},
       VolumeWindow \o PolygonMask \o CutAndFill)

\* The part of the raster around a point; what stands out there; its outline.
StockpileWindow ==
  May \o May \o Take("wgs84") \o Optional(Take("rasterSrs"))
  \o RasterToWgs \o Close({"transform"}) \o May \o May \o May \o May
StockpileContour == May \o May \o May
StockpileOutline == RasterToWgs

DetectStockpile ==
  May \o Open("dsGuard")
  \o Guarded({"dsGuard", "wgs84", "rasterSrs", "transform"},
       StockpileWindow \o StockpileContour \o StockpileOutline)

\* The whole raster; what stands out from its trend, perhaps nothing.
TerrainOf ==
  May \o May \o Take("wgs84") \o Optional(Take("rasterSrs")) \o May \o May
Mounds == May \o Optional(Return) \o Optional(Return)

DetectAllStockpiles ==
  Open("dsGuard")
  \o Guarded({"dsGuard", "wgs84", "rasterSrs", "transform"}, TerrainOf \o Mounds \o RasterToWgs)

\* vector_query.cpp ----------------------------------------------------------------
VectorLayer == May \o Open("hSrc") \o Rethrows(May, Close({"hSrc"}))

\* The box that is asked for, in the coordinates of the layer.
BboxFilter ==
  Optional(MayOr({"hSrc"})
           \o Optional(OpenOr("hT", {"hSrc"})
                       \o Rethrows(May, Close({"hT"}) \o Close({"hSrc"})) \o Close({"hT"})
                       \o MayOr({"hSrc"})))

TranslateFeatures ==
  OpenOr("opts", {"hSrc"}) \o Take("vsiPath") \o Take("hOut") \o Close({"opts"}) \o Close({"hSrc"})
  \o MayOr({"hOut", "vsiPath"}) \o Close({"hOut"}) \o Close({"vsiPath"}) \o May

QueryVector == VectorLayer \o BboxFilter \o TranslateFeatures

DescribeVector == May \o Open("hSrc") \o Optional(MayOr({"hSrc"})) \o Close({"hSrc"})

\* ddb.cpp ---------------------------------------------------------------------------
\* Only the way of a formula can be cancelled while it writes: it then removes what
\* it wrote, and what was there before is gone.
FormulaRange == May \o May \o May \o May \o May

ExportFormula(dest) ==
  FormulaRange \o Begin(dest) \o Guarded({"outGuard"}, Open("outGuard")
       \o Optional(Close({"outGuard", "srcGuard"}) \o Shed(dest) \o Return)
       \o May \o Finish(dest, {}))

ExportBands(dest) ==
  May \o Optional(Return) \o Open("psOptions")
  \o Optional(Begin(dest) \o Take("hOut")) \o Close({"psOptions"}) \o Close({"srcGuard"})
  \o IfMissing(dest, Fail) \o Finish(dest, {"hOut"}) \o Close({"hOut"})
  \o Optional(Take("hOvr") \o Close({"hOvr"}))

ExportRaster(dest) ==
  May \o May \o Open("srcGuard")
  \o Guarded({"srcGuard"}, Either(ExportFormula(dest), ExportBands(dest)))

\* mzip.cpp --------------------------------------------------------------------------
\* What the archive complains of closes it; what the file system complains of does not.
ExtractEntry(dest) ==
  LET Failed == Close({"pFile"}) \o Close({"pZip"})
  IN Rethrows(May \o May, Failed) \o May \o Begin(dest)
     \o Rethrows(May \o Open("pFile") \o Finish(dest, {}), Failed) \o Close({"pFile"})

ExtractAll(dest) ==
  Open("pZip") \o May \o Optional(ExtractEntry(dest) \o Optional(ExtractEntry(dest)))
  \o Rethrows(May, Close({"pZip"})) \o Close({"pZip"})

ExtractAllFromBuffer(dest) == Open("buf") \o May \o Close({"buf"}) \o ExtractAll(dest)

\* The archive is written when it is closed.
ZipFolder(dest) ==
  LET Failed == Close({"pZip"}) \o Close({"source"})
  IN IfThere(dest, Fail) \o Open("pZip") \o May
     \o Rethrows(May \o Open("source") \o May, Failed) \o Close({"source"})
     \o Rethrows(Written(dest, {}), Failed) \o Close({"pZip"})

\* dsmservice.cpp --------------------------------------------------------------------
AddGeoTIFFToCache ==
  Open("hDataset") \o May \o May \o May \o Optional(May) \o Close({"hDataset"})

\* What cannot be read of the cache is removed.
LoadDiskCache == IfThere("dsm", Try(AddGeoTIFFToCache, Drop("dsm")))

DownloadToFile ==
  IfThere("dsm", Drop("dsm"))
  \o Begin("dsm") \o Attempt(Finish("dsm", {}), <<>>, IfThere("dsm", Drop("dsm")) \o Fail)

\* A lock of the profile's files; a failure of the network is no altitude; what was
\* loaded and cannot be read stays, to be removed when it is found on disk.
GetAltitude ==
  Optional(Return)
  \o Open("fd") \o Begin("dsm.lock")
  \o Removing("dsm.lock",
       Guarded({"fd"},
         LoadDiskCache
         \o Optional(Attempt(DownloadToFile \o IfMissing("dsm", Fail), AddGeoTIFFToCache, <<>>))))

AnalysisCode ==
  [alignRaster |-> AlignRaster("aligned.ref", "aligned.warp", "aligned.tif"),
   generateContours |-> GenerateContours,
   profile |-> RasterProfile,
   calculateVolume |-> CalculateVolume,
   detectStockpile |-> DetectStockpile,
   detectAllStockpiles |-> DetectAllStockpiles,
   queryVector |-> QueryVector,
   describeVector |-> DescribeVector,
   exportRaster |-> ExportRaster("exported.tif"),
   extractAll |-> ExtractAll("extracted"),
   extractAllFromBuffer |-> ExtractAllFromBuffer("extracted"),
   zipFolder |-> ZipFolder("archive.zip"),
   getAltitude |-> GetAltitude]

AnalysisOutputs ==
  [alignRaster |-> {"aligned.tif"},
   generateContours |-> {},
   profile |-> {},
   calculateVolume |-> {},
   detectStockpile |-> {},
   detectAllStockpiles |-> {},
   queryVector |-> {},
   describeVector |-> {},
   exportRaster |-> {"exported.tif"},
   extractAll |-> {},
   extractAllFromBuffer |-> {},
   zipFolder |-> {"archive.zip"},
   getAltitude |-> {}]

AnalysisTemps == {"aligned.ref", "aligned.warp", "dsm.lock"}
==============================================================================
