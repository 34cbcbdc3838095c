---------------------------- MODULE ReaderPrograms ----------------------------
(***************************************************************************)
(* What is read of files: entries of the index (entry.cpp), sensors           *)
(* (sensorprofile.cpp), values and temperatures (raster_analysis.cpp,         *)
(* thermal.cpp), point clouds (pointcloud.cpp), models and tilesets            *)
(* (nxconv.cpp, tiles3d.cpp) and coordinates (geo.cpp, coordstransformer.cpp), *)
(* as sequences of Steps.                                                     *)
(***************************************************************************)
EXTENDS Steps, TLC

\* entry.cpp -------------------------------------------------------------------
\* A raster whose reference system is refused stays open; a corner that cannot be
\* transformed leaves everything open.
RasterCorners ==
  Take("hSrs") \o Take("hWgs84") \o MayOr({"hWgs84", "hSrs"}) \o MayOr({"hWgs84", "hSrs"})
  \o Optional(Take("hTransform") \o May \o Close({"hTransform"})) \o Close({"hWgs84", "hSrs"})

ParseGeoRaster == Open("hDataset") \o Optional(RasterCorners) \o Close({"hDataset"})

\* A vector file never fails to be parsed.
VectorExtent ==
  Take("hWgs84") \o Optional(Close({"hWgs84"})) \o Optional(Take("hT") \o Close({"hT"}))

ParseVectorEntry ==
  Optional(Attempt(Take("hDS") \o Optional(VectorExtent) \o Close({"hWgs84"}) \o May \o Close({"hDS"}),
                   <<>>, Close({"hWgs84", "hDS"})))

\* What GDAL opens, and has bands and a place, is a raster with a place.
Fingerprint ==
  Optional(Take("hDataset") \o Close({"hDataset"})) \o Optional(May \o Try(May, <<>>))

\* sensorprofile.cpp ---------------------------------------------------------------
DetectSensor ==
  Optional(Take("hDataset") \o Optional(Close({"hDataset"})) \o Close({"hDataset"}))

GetFallbackMapping == Optional(Take("hDataset") \o Close({"hDataset"}))

GetRasterInfoJson ==
  DetectSensor \o Open("hDataset") \o Optional(Take("hSrs") \o Close({"hSrs"})) \o Close({"hDataset"})

\* thermal.cpp, raster_analysis.cpp ---------------------------------------------------
\* Calibrations and labels that cannot be read are taken for absent.
ExtractThermalCalibration == Try(May, <<>>)

IsThermalImage ==
  Try(May, <<>>) \o Optional(Take("hDs") \o Close({"hDs"}))

IsDirectTemperatureRaster ==
  IsThermalImage \o Optional(Take("hDs") \o Close({"hDs"}))

DetectIsThermal == Try(DetectSensor \o May, <<>>) \o IsThermalImage

ExtractRawThermalData ==
  Either(Optional(Take("file") \o Close({"file"})), Optional(Take("hDs") \o Close({"hDs"})))

ReadTemperatureData ==
  Optional(Take("hDs") \o Optional(ExtractThermalCalibration) \o Close({"hDs"}))
  \o Optional(ExtractRawThermalData \o Optional(ExtractThermalCalibration))

PixelToGeo ==
  Optional(Take("hSrs") \o Take("hWgs84") \o Optional(Take("hCT") \o Close({"hCT"}))
           \o Close({"hWgs84", "hSrs"}))

ReadGdalUnitType == Optional(Take("hDs") \o Close({"hDs"}))

GetRasterValueInfo ==
  DetectIsThermal \o Optional(ExtractThermalCalibration \o IsDirectTemperatureRaster)
  \o Optional(Take("hDs") \o Close({"hDs"})) \o Optional(ReadTemperatureData) \o May

\* Out of bounds, or a point that is read, closes it; else what remains is tried.
GetRasterPoint ==
  DetectIsThermal
  \o Optional(Take("hDs") \o MayOr({"hDs"})
              \o Optional(Optional(ExtractThermalCalibration) \o PixelToGeo \o ReturnOr({"hDs"}))
              \o Close({"hDs"}))
  \o May \o ReadTemperatureData \o May \o May \o PixelToGeo

GetRasterAreaStats ==
  DetectIsThermal
  \o Optional(Take("hDs") \o Optional(Close({"hDs"}) \o May \o Return) \o Close({"hDs"}))
  \o May \o ReadTemperatureData \o May \o May

\* ddb.cpp: statistics of a formula, or of the bands.
GetRasterMetadata ==
  May \o May \o Open("hDs") \o Optional(MayOr({"hDs"})) \o DetectSensor \o Close({"hDs"})

\* pointcloud.cpp -------------------------------------------------------------------
QuickInfo ==
  Take("hSrs") \o Take("hTgt") \o MayOr({"hTgt", "hSrs"}) \o MayOr({"hTgt", "hSrs"})
  \o OpenOr("hTransform", {"hTgt", "hSrs"}) \o MayOr({"hTransform", "hTgt", "hSrs"})
  \o Optional(MayOr({"hTransform", "hTgt", "hSrs"})) \o Close({"hTransform", "hTgt", "hSrs"})

\* What the header does not tell is found by reading; what PDAL throws is told.
GetPointCloudInfo ==
  Optional(May \o Return) \o May \o Either(Optional(QuickInfo), May)

\* The header of a COPC file; what fails is no information.
GetCopcInfo == Try(May \o Optional(QuickInfo), <<>>)

\* cog_utils.cpp --------------------------------------------------------------------
IsOptimizedCog ==
  Optional(Take("hDataset") \o Optional(Take("hSRS") \o Take("hTargetSRS") \o Close({"hSRS", "hTargetSRS"}))
           \o Close({"hDataset"}))

\* geo.cpp, coordstransformer.cpp -----------------------------------------------------
ToUTM ==
  Open("hSrs") \o MayOr({"hSrs"}) \o OpenOr("hWgs84", {"hSrs"}) \o MayOr({"hWgs84", "hSrs"})
  \o Take("hTransform") \o Close({"hTransform", "hWgs84", "hSrs"}) \o May

\* A constructor that throws does not run the destructor.
NewCoordsTransformer(src, tgt, transform) ==
  Take(src) \o Take(tgt) \o May \o May \o Open(transform)

CoordsTransform(src, tgt, transform, body) ==
  NewCoordsTransformer(src, tgt, transform) \o Guarded({src, tgt, transform}, May \o body)

\* nxconv.cpp -------------------------------------------------------------------------
\* A folder that cannot be made leaves the texture in memory, and is no failure
\* that the conversion goes on after.
ConvertKtx2ToPng ==
  Open("base") \o Optional(MayOr({"base"})) \o MayOr({"base"}) \o May
  \o Begin("texture.png") \o Settle("texture.png") \o Close({"base"}) \o May

PatchMtlKtx2ToPng ==
  May \o Either(ConvertKtx2ToPng, Try(MayOr({"base"}), <<>>)) \o Optional(Written("model.mtl", {}))

\* Textures that cannot be written are left out.
ExtractEmbeddedTextures == Optional(Begin("texture.png") \o Settle("texture.png"))

ExportWithAssimp ==
  May \o ExtractEmbeddedTextures \o Written("model.obj", {})
  \o Optional(Try(Begin("model.mtl") \o Settle("model.mtl"), <<>>))

ConvertGltfTo3dModel ==
  Open("scene")
  \o Guarded({"scene"},
       ExportWithAssimp \o Optional(Either(PatchMtlKtx2ToPng, Try(May, <<>>))))

\* tiles3d.cpp ------------------------------------------------------------------------
ReadEntryFromZip ==
  Optional(Take("z") \o Optional(Take("f") \o Close({"f"})) \o Close({"z"}))

EcefToWgs84 ==
  Take("hEcef") \o Take("hWgs84") \o Optional(Take("hT") \o Close({"hT"})) \o Close({"hWgs84", "hEcef"})

GetTiles3DInfo == ReadEntryFromZip \o Optional(Return) \o Try(May, Return) \o Optional(EcefToWgs84)

ReaderCode ==
  [parseGeoRaster |-> ParseGeoRaster,
   parseVectorEntry |-> ParseVectorEntry,
   fingerprint |-> Fingerprint,
   getRasterInfo |-> GetFallbackMapping \o GetRasterInfoJson,
   getRasterValueInfo |-> ReadGdalUnitType \o GetRasterValueInfo,
   getRasterPoint |-> GetRasterPoint,
   getRasterAreaStats |-> GetRasterAreaStats,
   getRasterMetadata |-> GetRasterMetadata,
   getPointCloudInfo |-> GetPointCloudInfo,
   getCopcInfo |-> GetCopcInfo,
   isOptimizedCog |-> IsOptimizedCog,
   toUTM |-> ToUTM,
   coordsTransform |-> CoordsTransform("hSrc", "hTgt", "hTransform", <<>>),
   convertGltfTo3dModel |-> ConvertGltfTo3dModel,
   getTiles3DInfo |-> GetTiles3DInfo]

ReaderOutputs ==
  [p \in DOMAIN ReaderCode |-> IF p = "convertGltfTo3dModel" THEN {"model.obj"} ELSE {}]
==============================================================================
